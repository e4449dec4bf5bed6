---------------------------- MODULE ReportsProofs ----------------------------
(***************************************************************************)
(* Theorems about what the dashboard and the other screens with figures    *)
(* show, for any tables and prices, however long the lists: the months and *)
(* the calendar of Trends, and the screens of Reports, whose answers come  *)
(* one by one while the tables move on.                                    *)
(***************************************************************************)
EXTENDS Trends, Reports, Sums, FiniteSetTheorems, TLAPS

-----------------------------------------------------------------------------
\* The figures of the dashboard

\* A row that is there has an instant, which is not in the future.
LEMMA RowsHaveInstants ==
  ASSUME FiguresTypeOK, NEW r \in Hires, created[r] # Null
  PROVE  created[r] \in Nat /\ created[r] <= now /\ now \in Nat
BY TrendAssumption DEF FiguresTypeOK

\* The rows and the clock of Trends keep their types.
LEMMA FiguresTyped == FiguresSpec => []FiguresTypeOK
<1>1. FiguresInit => FiguresTypeOK
  <2> SUFFICES ASSUME FiguresInit PROVE FiguresTypeOK
    OBVIOUS
  <2>1. Min(Clock) \in Clock
    BY TrendAssumption, MinOfNat
  <2> QED
    BY <2>1 DEF FiguresInit, FiguresTypeOK
<1>2. FiguresTypeOK /\ [FiguresNext]_figVars => FiguresTypeOK'
  <2> SUFFICES ASSUME FiguresTypeOK, [FiguresNext]_figVars PROVE FiguresTypeOK'
    OBVIOUS
  <2> USE TrendAssumption
  <2>0. now \in Nat /\ now # Null
    BY DEF FiguresTypeOK
  <2>1. CASE UNCHANGED figVars
    BY <2>1 DEF figVars, FiguresTypeOK
  <2>2. CASE FigTick
    <3>1. \A r \in Hires : created'[r] # Null => created'[r] <= now'
      BY <2>0, <2>2, RowsHaveInstants DEF FigTick
    <3> QED
      BY <2>2, <3>1 DEF FigTick, FiguresTypeOK
  <2>3. ASSUME NEW r \in Hires, PlaceHire(r) PROVE FiguresTypeOK'
    <3>1. \A h \in Hires : created'[h] = IF h = r THEN now ELSE created[h]
      BY <2>3 DEF PlaceHire, CreatedAt, FiguresTypeOK
    <3>2. created' \in [Hires -> Clock \cup {Null}]
      BY <2>3 DEF PlaceHire, CreatedAt, FiguresTypeOK
    <3> QED
      BY <2>0, <2>3, <3>1, <3>2 DEF PlaceHire, FiguresTypeOK
  <2>4. ASSUME NEW r \in Hires, CallOff(r) PROVE FiguresTypeOK'
    BY <2>4 DEF CallOff, FiguresTypeOK
  <2> QED
    BY <2>1, <2>2, <2>3, <2>4 DEF FiguresNext
<1> QED
  BY <1>1, <1>2, PTL DEF FiguresSpec

\* Dates follow the instants,
LEMMA DateGrows ==
  ASSUME NEW x \in Int, NEW y \in Int, x <= y
  PROVE  DateOf(x) \in Int /\ DateOf(y) \in Int /\ DateOf(x) <= DateOf(y)
<1>1. x \div Day \in Int /\ y \div Day \in Int /\ x \div Day <= y \div Day
  BY Quotient, QuotientGrows, TrendAssumption
<1> QED
  BY <1>1 DEF DateOf

\* and days later the date is as many dates later.
LEMMA DateOfDays ==
  ASSUME NEW x \in Int, NEW n \in Int
  PROVE  DateOf(x + n * Day) = DateOf(x) + n
<1>0. Day \in Nat \ {0} /\ n * Day \in Int /\ x + n * Day \in Int
  BY TrendAssumption, SMT
<1>1. PICK p, q : p = x \div Day /\ q = (x + n * Day) \div Day
  OBVIOUS
<1>2. p \in Int /\ q \in Int
  BY <1>0, <1>1, Quotient
<1>3. /\ p * Day <= x /\ x < p * Day + Day
      /\ q * Day <= x + n * Day /\ x + n * Day < q * Day + Day
  BY <1>0, <1>1, Quotient
<1>4. (p + n) * Day = p * Day + n * Day /\ p * Day \in Int /\ q * Day \in Int /\ p + n \in Int
  BY <1>0, <1>2, SMT
<1>5. (p + n) * Day < q * Day + Day /\ q * Day < (p + n) * Day + Day
  BY <1>0, <1>3, <1>4
<1>6. p + n <= q /\ q <= p + n
  BY <1>0, <1>2, <1>4, <1>5, QuotientGrows
<1> QED
  BY <1>1, <1>2, <1>4, <1>6 DEF DateOf

\* The window of the trend ends after the present instant.
LEMMA WindowHasNow ==
  ASSUME FiguresTypeOK
  PROVE  TrendStart \in Int /\ now < TrendStart + Window * Day
<1>0. Day \in Nat \ {0} /\ Window \in Nat \ {0} /\ now \in Nat /\ zone \in Int
  BY TrendAssumption DEF FiguresTypeOK
<1>1. PICK q : q = (now + zone) \div Day
  OBVIOUS
<1>2. q \in Int /\ now + zone < q * Day + Day
  BY <1>0, <1>1, Quotient
<1>3. (Window - 1) * Day = Window * Day - Day /\ Window * Day \in Int /\ q * Day \in Int
  BY <1>0, <1>2, SMT
<1>4. TrendStart = q * Day - zone - (Window - 1) * Day
  BY <1>1 DEF TrendStart, LocalMidnight
<1> QED
  BY <1>0, <1>2, <1>3, <1>4

\* The buckets are consecutive dates, from that of the start on.
LEMMA BucketsAre ==
  ASSUME FiguresTypeOK
  PROVE  /\ Buckets = DateOf(TrendStart) .. (DateOf(TrendStart) + Window - 1)
         /\ DateOf(TrendStart) \in Int /\ IsFiniteSet(Buckets)
         /\ Max(Buckets) = DateOf(TrendStart) + Window - 1
<1>0. Window \in Nat \ {0} /\ TrendStart \in Int
  BY TrendAssumption, WindowHasNow
<1>1. PICK s : s = TrendStart
  OBVIOUS
<1>2. PICK b : b = DateOf(s)
  OBVIOUS
<1>3. b \in Int
  BY <1>0, <1>1, <1>2, DateGrows
<1>4. \A i \in 0 .. (Window - 1) : DateOf(s + i * Day) = b + i
  BY <1>0, <1>1, <1>2, DateOfDays
<1>5. Buckets = {b + i : i \in 0 .. (Window - 1)}
  BY <1>1, <1>4 DEF Buckets
<1>6. ASSUME NEW d \in b .. (b + Window - 1) PROVE d \in {b + i : i \in 0 .. (Window - 1)}
  <2>1. d - b \in 0 .. (Window - 1) /\ d = b + (d - b)
    BY <1>0, <1>3
  <2> QED
    BY <2>1
<1>7. Buckets = b .. (b + Window - 1)
  BY <1>0, <1>3, <1>5, <1>6
<1>8. Max(b .. (b + Window - 1)) = b + Window - 1
  <2>1. b + Window - 1 \in b .. (b + Window - 1)
    BY <1>0, <1>3
  <2>2. \A x \in b .. (b + Window - 1) : b + Window - 1 >= x
    BY <1>0, <1>3
  <2>3. \A x \in b .. (b + Window - 1) :
           (\A y \in b .. (b + Window - 1) : x >= y) => x = b + Window - 1
    BY <1>0, <1>3
  <2> QED
    BY <2>1, <2>2, <2>3 DEF Max
<1>9. IsFiniteSet(b .. (b + Window - 1))
  BY <1>0, <1>3, FS_Interval
<1> QED
  BY <1>1, <1>2, <1>3, <1>7, <1>8, <1>9

\* A reservation in the window has a bucket, or falls on the date after them.
LEMMA OneDateMissing ==
  ASSUME FiguresTypeOK, NEW r \in InWindow, DateOf(created[r]) \notin Buckets
  PROVE  DateOf(created[r]) = Max(Buckets) + 1
<1>1. r \in Hires /\ created[r] # Null /\ created[r] >= TrendStart
  BY DEF InWindow
<1>2. PICK x, s : x = created[r] /\ s = TrendStart
  OBVIOUS
<1>3. x \in Nat /\ s \in Int /\ s <= x /\ x <= now /\ now \in Nat /\ now < s + Window * Day
  BY <1>1, <1>2, RowsHaveInstants, WindowHasNow
<1>4. Window \in Nat \ {0} /\ Window * Day \in Int
  BY TrendAssumption, SMT
<1>5. DateOf(s) \in Int /\ DateOf(x) \in Int /\ DateOf(s) <= DateOf(x)
  BY <1>3, DateGrows
<1>6. DateOf(x) <= DateOf(s) + Window
  <2>1. x <= s + Window * Day /\ s + Window * Day \in Int
    BY <1>3, <1>4
  <2>2. DateOf(x) <= DateOf(s + Window * Day)
    BY <1>3, <2>1, DateGrows
  <2> QED
    BY <1>3, <1>4, <2>2, DateOfDays
<1>7. DateOf(x) \notin DateOf(s) .. (DateOf(s) + Window - 1)
  BY <1>2, BucketsAre
<1>8. DateOf(x) = DateOf(s) + Window - 1 + 1
  BY <1>4, <1>5, <1>6, <1>7
<1> QED
  BY <1>2, <1>8, BucketsAre

\* On a server on UTC the window begins with a date.
LEMMA WindowOfDates ==
  ASSUME FiguresTypeOK, zone = 0
  PROVE  /\ DateOf(TrendStart) = DateOf(now) - Window + 1
         /\ \A x \in Nat : x >= TrendStart <=> DateOf(x) > DateOf(now) - Window
<1>0. Day \in Nat \ {0} /\ Window \in Nat \ {0} /\ now \in Nat /\ now + 0 = now
  BY TrendAssumption DEF FiguresTypeOK
<1>1. PICK q : q = now \div Day
  OBVIOUS
<1>2. q \in Int /\ q - Window + 1 \in Int
  BY <1>0, <1>1, Quotient
<1>3. PICK s : s = q - Window + 1
  OBVIOUS
<1>4. (Window - 1) * Day = Window * Day - Day /\ s * Day = q * Day - Window * Day + Day
      /\ Window * Day \in Int /\ q * Day \in Int /\ s * Day \in Int
  BY <1>0, <1>2, <1>3, SMT
<1>5. TrendStart = s * Day
  <2>1. LocalMidnight(now) = q * Day - 0
    BY <1>0, <1>1 DEF LocalMidnight
  <2>2. TrendStart = q * Day - 0 - (Window * Day - Day)
    BY <1>4, <2>1 DEF TrendStart
  <2> QED
    BY <1>0, <1>4, <2>2
<1>6. ASSUME NEW x \in Int
      PROVE  x >= s * Day <=> DateOf(x) >= s
  <2>1. PICK d : d = x \div Day
    OBVIOUS
  <2>2. d \in Int /\ d * Day <= x /\ x < d * Day + Day /\ d * Day \in Int
    BY <1>0, <2>1, Quotient, SMT
  <2>3. ASSUME x >= s * Day PROVE d >= s
    <3>1. s * Day < d * Day + Day
      BY <1>0, <1>4, <2>2, <2>3
    <3> QED
      BY <1>0, <1>2, <1>3, <2>2, <3>1, QuotientGrows
  <2>4. ASSUME d >= s PROVE x >= s * Day
    <3>1. s * Day <= d * Day
      BY <1>0, <1>2, <1>3, <2>2, <2>4, ProductGrows
    <3> QED
      BY <1>4, <2>2, <3>1
  <2> QED
    BY <2>1, <2>3, <2>4 DEF DateOf
<1>7. DateOf(s * Day) = s
  <2>1. s \in Int /\ 0 + s * Day = s * Day
    BY <1>2, <1>3, <1>4
  <2>2. DateOf(0) = 0
    BY <1>0, SMT DEF DateOf
  <2> QED
    BY <2>1, <2>2, DateOfDays
<1>8. \A x \in Nat : DateOf(x) \in Int
  BY DateGrows
<1> QED
  <2>1. DateOf(now) = q
    BY <1>1 DEF DateOf
  <2>2. \A x \in Nat : DateOf(x) >= s <=> DateOf(x) > q - Window
    BY <1>0, <1>2, <1>3, <1>8
  <2> QED
    BY <1>3, <1>5, <1>6, <1>7, <2>1, <2>2

Recent == {r \in Hires : created[r] # Null /\ DateOf(created[r]) > DateOf(now) - Window}

\* There the buckets hold all reservations of their dates.
LEMMA RecentAreCounted ==
  ASSUME FiguresTypeOK, zone = 0
  PROVE  /\ UNION {Counted(d) : d \in Buckets} = Recent
         /\ \A r \in Recent : DateOf(created[r]) \in Buckets
         /\ \A d \in Buckets : Counted(d) = {r \in Recent : DateOf(created[r]) = d}
<1>1. InWindow = Recent
  BY RowsHaveInstants, WindowOfDates DEF InWindow, Recent
<1>2. ASSUME NEW r \in Recent PROVE DateOf(created[r]) \in Buckets
  <2>1. r \in Hires /\ created[r] # Null /\ DateOf(created[r]) > DateOf(now) - Window
    BY DEF Recent
  <2>2. /\ DateOf(created[r]) \in Int /\ DateOf(now) \in Int
        /\ DateOf(created[r]) <= DateOf(now)
    BY <2>1, RowsHaveInstants, DateGrows
  <2>3. Buckets = (DateOf(now) - Window + 1) .. (DateOf(now) - Window + 1 + Window - 1)
    BY BucketsAre, WindowOfDates
  <2>4. Window \in Nat
    BY TrendAssumption
  <2> QED
    BY <2>1, <2>2, <2>3, <2>4
<1> QED
  BY <1>1, <1>2 DEF Counted

\* The sum of the fees, as the library computes it
LEMMA FeesAreSum ==
  ASSUME NEW S
  PROVE  MapThenSumSet(LAMBDA r : Fee[r], S) = SumOver(Fee, S)
<1> DEFINE step(g) == [s \in SUBSET S |->
                         IF s = {} THEN 0 ELSE Fee[Choice(s)] + g[s \ {Choice(s)}]]
<1>1. MapThenSumSet(LAMBDA r : Fee[r], S) = (CHOOSE g : g = step(g))[S]
  BY DEF MapThenSumSet, MapThenFoldSet, Choice
<1>2. ASSUME NEW g PROVE step(g) = SumStep(Fee, S, g)
  BY DEF SumStep
<1> HIDE DEF step
<1>3. (CHOOSE g : g = step(g)) = (CHOOSE g : g = SumStep(Fee, S, g))
  BY <1>2
<1> QED
  BY <1>1, <1>3 DEF SumOver

\* The totals of the trend are sums over its buckets.
LEMMA TotalsAreSums ==
  LET counts   == [d \in Buckets |-> Trend[d].count]
      revenues == [d \in Buckets |-> Trend[d].revenue]
  IN  /\ MapThenSumSet(LAMBDA d : Trend[d].count, Buckets) = SumOver(counts, Buckets)
      /\ MapThenSumSet(LAMBDA d : Trend[d].revenue, Buckets) = SumOver(revenues, Buckets)
<1> DEFINE counts   == [d \in Buckets |-> Trend[d].count]
           revenues == [d \in Buckets |-> Trend[d].revenue]
           count(g) == [s \in SUBSET Buckets |->
                          IF s = {} THEN 0
                          ELSE Trend[Choice(s)].count + g[s \ {Choice(s)}]]
           earn(g)  == [s \in SUBSET Buckets |->
                          IF s = {} THEN 0
                          ELSE Trend[Choice(s)].revenue + g[s \ {Choice(s)}]]
<1>1. MapThenSumSet(LAMBDA d : Trend[d].count, Buckets) = (CHOOSE g : g = count(g))[Buckets]
  BY DEF MapThenSumSet, MapThenFoldSet, Choice
<1>2. MapThenSumSet(LAMBDA d : Trend[d].revenue, Buckets) = (CHOOSE g : g = earn(g))[Buckets]
  BY DEF MapThenSumSet, MapThenFoldSet, Choice
<1>3. ASSUME NEW g
      PROVE  count(g) = SumStep(counts, Buckets, g) /\ earn(g) = SumStep(revenues, Buckets, g)
  <2>1. \A s \in SUBSET Buckets : s # {} => Choice(s) \in Buckets
    BY DEF Choice
  <2> QED
    BY <2>1 DEF SumStep
<1> HIDE DEF count, earn, counts, revenues
<1>4. (CHOOSE g : g = count(g)) = (CHOOSE g : g = SumStep(counts, Buckets, g))
  BY <1>3
<1>5. (CHOOSE g : g = earn(g)) = (CHOOSE g : g = SumStep(revenues, Buckets, g))
  BY <1>3
<1> QED
  BY <1>1, <1>2, <1>4, <1>5 DEF SumOver, counts, revenues

\* On a server on UTC they are those of all reservations of these dates.
LEMMA TotalsOfRecent ==
  ASSUME FiguresTypeOK, zone = 0
  PROVE  /\ MapThenSumSet(LAMBDA d : Trend[d].count, Buckets) = Cardinality(Recent)
         /\ MapThenSumSet(LAMBDA d : Trend[d].revenue, Buckets) = Revenue(Recent)
<1> DEFINE date == [r \in Hires |-> DateOf(created[r])]
           ones == [r \in Hires |-> 1]
           Kept == Recent \ off
<1>1. /\ Recent \subseteq Hires /\ Kept \subseteq Hires
      /\ IsFiniteSet(Recent) /\ IsFiniteSet(Kept) /\ IsFiniteSet(Buckets)
  <2>1. Recent \subseteq Hires /\ Kept \subseteq Hires
    BY DEF Recent
  <2> QED
    BY <2>1, TrendAssumption, FS_Subset, BucketsAre
<1>2. \A r \in Recent : date[r] \in Buckets
  BY <1>1, RecentAreCounted
<1>3. \A d \in Buckets : /\ Counted(d) = {r \in Recent : date[r] = d}
                         /\ Counted(d) \ off = {r \in Kept : date[r] = d}
  BY <1>1, RecentAreCounted
<1>4. \A d \in Buckets : /\ Trend[d].count = Cardinality(Counted(d))
                         /\ Trend[d].revenue = SumOver(Fee, Counted(d) \ off)
  BY FeesAreSum DEF Trend
<1>5. \A r \in Hires : ones[r] = 1 /\ Fee[r] \in Nat
  BY TrendAssumption
<1> HIDE DEF date, ones, Kept
<1>6. \A d \in Buckets : Trend[d].count = SumOver(ones, {r \in Recent : date[r] = d})
  <2>1. ASSUME NEW d \in Buckets
        PROVE  Trend[d].count = SumOver(ones, {r \in Recent : date[r] = d})
    <3>1. PICK P : P = {r \in Recent : date[r] = d}
      OBVIOUS
    <3>2. P \subseteq Recent /\ P \subseteq Hires
      BY <1>1, <3>1
    <3>3. IsFiniteSet(P) /\ \A r \in P : ones[r] = 1
      BY <1>1, <1>5, <3>2, FS_Subset
    <3>4. SumOver(ones, P) = Cardinality(P)
      BY <3>3, SumOfOnes
    <3> QED
      BY <1>3, <1>4, <3>1, <3>4
  <2> QED
    BY <2>1
<1>7. SumOver([d \in Buckets |-> Trend[d].count], Buckets) = Cardinality(Recent)
  <2>1. [d \in Buckets |-> Trend[d].count]
          = [d \in Buckets |-> SumOver(ones, {r \in Recent : date[r] = d})]
    BY <1>6
  <2>2. \A r \in Recent : ones[r] \in Nat /\ ones[r] = 1
    BY <1>1, <1>5
  <2>3. SumOver([d \in Buckets |-> SumOver(ones, {r \in Recent : date[r] = d})], Buckets)
          = SumOver(ones, Recent)
    BY <1>1, <1>2, <2>2, SumByKey
  <2>4. SumOver(ones, Recent) = Cardinality(Recent)
    BY <1>1, <2>2, SumOfOnes
  <2> QED
    BY <2>1, <2>3, <2>4
<1>8. SumOver([d \in Buckets |-> Trend[d].revenue], Buckets) = SumOver(Fee, Kept)
  <2>1. [d \in Buckets |-> Trend[d].revenue]
          = [d \in Buckets |-> SumOver(Fee, {r \in Kept : date[r] = d})]
    BY <1>3, <1>4
  <2>2. \A r \in Kept : Fee[r] \in Nat /\ date[r] \in Buckets
    BY <1>1, <1>2, <1>5 DEF Kept
  <2>3. SumOver([d \in Buckets |-> SumOver(Fee, {r \in Kept : date[r] = d})], Buckets) = SumOver(Fee, Kept)
    BY <1>1, <2>2, SumByKey
  <2> QED
    BY <2>1, <2>3
<1>9. Revenue(Recent) = SumOver(Fee, Kept)
  BY FeesAreSum DEF Revenue, Kept
<1> QED
  BY <1>7, <1>8, <1>9, TotalsAreSums

\* The two periods of the revenue meet, and without a row in the earlier one
\* there is no baseline.
LEMMA PeriodsMeet == FiguresTypeOK => PeriodsTile
<1> SUFFICES ASSUME FiguresTypeOK PROVE PeriodsTile
  OBVIOUS
<1>0. now \in Nat /\ Period \in Nat
  BY TrendAssumption DEF FiguresTypeOK
<1>1. Latest \cap Prior = {}
  <2>1. ASSUME NEW r \in Latest, r \in Prior PROVE FALSE
    <3>1. r \in Hires /\ created[r] # Null
          /\ created[r] >= now - Period /\ created[r] < now - Period
      BY <2>1 DEF Latest, Prior
    <3>2. created[r] \in Nat
      BY <3>1, RowsHaveInstants
    <3> QED
      BY <1>0, <3>1, <3>2
  <2> QED
    BY <2>1
<1>2. ASSUME NEW r \in Hires, created[r] # Null, created[r] >= now - 2 * Period
      PROVE  r \in Latest \cup Prior
  <2>1. created[r] \in Nat
    BY <1>2, RowsHaveInstants
  <2> QED
    BY <1>0, <1>2, <2>1 DEF Latest, Prior
<1>3. ASSUME RevenueChange # Null
      PROVE  \E r \in Hires \ off : created[r] # Null /\ created[r] < now - Period
  <2>1. Revenue(Prior) # 0
    BY <1>3 DEF RevenueChange
  <2>2. Prior \ off # {}
    <3>1. SumOver(Fee, {}) = 0
      BY SumOfNone
    <3> QED
      BY <2>1, <3>1, FeesAreSum DEF Revenue
  <2> QED
    BY <2>2 DEF Prior
<1> QED
  BY <1>1, <1>2, <1>3 DEF PeriodsTile

\* Each reservation falls on one day of the trend and in one period.
THEOREM FiguresAddUp == FiguresSpec => []FiguresTile
<1>1. FiguresTypeOK => TrendCountsAll
  <2> SUFFICES ASSUME FiguresTypeOK PROVE TrendCountsAll
    OBVIOUS
  <2> DEFINE counted == UNION {Counted(d) : d \in Buckets}
  <2>1. ASSUME zone = 0
        PROVE  /\ counted = Recent
               /\ MapThenSumSet(LAMBDA d : Trend[d].count, Buckets) = Cardinality(Recent)
               /\ MapThenSumSet(LAMBDA d : Trend[d].revenue, Buckets) = Revenue(Recent)
    BY <2>1, RecentAreCounted, TotalsOfRecent
  <2>2. ASSUME NEW r \in InWindow \ counted PROVE DateOf(created[r]) = Max(Buckets) + 1
    <3>1. DateOf(created[r]) \notin Buckets
      BY <2>2 DEF Counted
    <3> QED
      BY <2>2, <3>1, OneDateMissing
  <2> QED
    BY <2>1, <2>2 DEF TrendCountsAll, Recent
<1>2. FiguresTypeOK => FiguresTile
  BY <1>1, PeriodsMeet DEF FiguresTile
<1> QED
  BY <1>2, FiguresTyped, PTL

-----------------------------------------------------------------------------
\* Screens: what an answer still has to do with the tables

\* The screens whose requests may fail one by one
Lenient == {"kpis", "stock", "desk", "mine", "ranking"}

\* q has been answered, and not by a failure.
Heard(q) == q \in Queries[Kind] /\ Answered(q) /\ (Kind \in Lenient => got[q] # Failed)

\* The queries that are answered by one figure, what that figure is now, and
\* the most by which one change of the tables changes it
Figures == {"active", "pending", "revenue", "units", "rentals", "requests", "rows",
            "collected", "refunded"}

Figure(q) ==
  CASE q = "active"    -> Cardinality(In({"ACTIVE"}))
    [] q = "pending"   -> Cardinality(In({"PENDING"}))
    [] q = "revenue"   -> Sum(Price, In(BILLABLE))
    [] q = "units"     -> Sum(stock, Shelf)
    [] q = "rentals"   -> ActiveRentals(Viewer)
    [] q = "requests"  -> PendingRequests(Viewer)
    [] q = "rows"      -> Cardinality(PaymentsIn({"PAID", "FAILED", "REFUNDED"}))
    [] q = "collected" -> Collected
    [] q = "refunded"  -> Refunded

StepOf(q) == CASE q = "revenue" -> Largest(Price)
               [] q = "units"   -> Max(Stocks)
               [] q \in {"collected", "refunded"} -> Largest(Due)
               [] OTHER -> 1

\* A figure is off by what changed since.
FiguresNear ==
  \A q \in Figures : Heard(q) => got[q] \in Nat /\ Differ(got[q], Figure(q), StepOf(q))

\* The statistics are answered by one request; that of a customer's summary
\* is not caught.
FailuresTogether ==
  /\ \A q \in {"active", "pending", "revenue", "units"}, p \in StatsQueries :
       {p, q} \subseteq Queries[Kind] /\ got[q] = Failed => got[p] = Failed
  /\ \A q \in {"rentals", "requests"} : q \in Queries[Kind] => got[q] # Failed

\* The rows that a list may hold, those with the status s, and those that earn
Listable   == IF Kind = "mine" THEN Own(Viewer) ELSE Rows
Holding(s) == {r \in Listable : resStatus[r] = s}
Earning    == {r \in Listable : resStatus[r] \notin {"REJECTED", "CANCELLED"}}

\* The same of the list that the page has got
ListRows         == DOMAIN got["list"]
ListHolding(s) == {r \in ListRows : got["list"][r] = s}
ListEarning    == {r \in ListRows : got["list"][r] \notin {"REJECTED", "CANCELLED"}}

ListNear ==
  Heard("list") =>
    /\ ListRows \subseteq Listable
    /\ \A r \in ListRows : got["list"][r] \in Status
    /\ writes = 0 => \A r \in ListRows : got["list"][r] = resStatus[r]
    /\ \A s \in Status : Cardinality(ListHolding(s)) <= Cardinality(Holding(s)) + writes
    /\ Cardinality(ListRows) < ListCap =>
         /\ \A s \in Status : Differ(Cardinality(ListHolding(s)), Cardinality(Holding(s)), 1)
         /\ Differ(Sum(Price, ListEarning), Sum(Price, Earning), Largest(Price))

\* What a customer's summary and list have to do with each other
SummaryNear ==
  Kind = "mine" /\ Heard("list") =>
    /\ Heard("rentals") =>
         Cardinality(ListHolding("ACTIVE")) <= got["rentals"] + writes
    /\ Heard("requests") /\ Cardinality(ListRows) < ListCap =>
         Differ(got["requests"], Cardinality(ListHolding("PENDING")), 1)

\* The products in one of two sets only, those that are low, and what the page
\* has got of the catalogue
Apart(a, b) == (a \cup b) \ (a \cap b)
LowNow      == {p \in Shelf : Low(stock[p])}
Listed      == DOMAIN got["catalog"]
LowListed   == {p \in Listed : Low(got["catalog"][p])}
ListedUnits == Sum(got["catalog"], Listed)

StockNear ==
  /\ Heard("low") =>
       got["low"] \subseteq Shelf /\ Cardinality(Apart(got["low"], LowNow)) <= writes
  /\ Heard("catalog") =>
       /\ Listed = Newest(Shelf, ListCap) /\ got["catalog"] \in [Listed -> Stocks]
       /\ Cardinality(Apart(LowListed, LowNow \cap Listed)) <= writes
       /\ Differ(ListedUnits, Sum(stock, Listed), Max(Stocks))
  /\ Heard("low") /\ Heard("catalog") =>
       Cardinality(Apart(got["low"] \cap Listed, LowListed)) <= writes
  /\ Heard("units") /\ Heard("catalog") =>
       /\ ListedUnits <= got["units"] + writes * Max(Stocks)
       /\ Listed = Shelf => Differ(got["units"], ListedUnits, Max(Stocks))

Statuses == {"PAID", "FAILED", "REFUNDED"}

TillNear ==
  /\ Heard("collected") /\ Heard("refunded") =>
       Differ(got["collected"] + got["refunded"],
              Sum(Due, PaymentsIn({"PAID", "REFUNDED"})), Largest(Due))
  /\ Heard("tabs") =>
       /\ DOMAIN got["tabs"] = Statuses /\ \A s \in Statuses : got["tabs"][s] \in Nat
       /\ Differ(Sum(got["tabs"], Statuses), Cardinality(PaymentsIn(Statuses)), 1)
  /\ Heard("tabs") /\ Heard("rows") => Differ(got["rows"], Sum(got["tabs"], Statuses), 1)

\* The bars of the ranking are in order, and what has none was hired less.
RankingNear ==
  Heard("grouped") =>
    LET top == got["grouped"] IN
      /\ \A k \in DOMAIN top :
           /\ k \in Nat /\ 1 \in DOMAIN top
           /\ top[k].units \in Nat \ {0} /\ top[k].units <= top[1].units
      /\ \A p \in Products : (\A k \in DOMAIN top : top[k].product # p) =>
           \A k \in DOMAIN top : UnitsRented(p) <= top[k].units + writes * Largest(Units)

\* The payments on the accounts of a page of the directory
SpendRowsOf(u) == {r \in DOMAIN got["spend"] : Renter[r] = u}

SpendNear ==
  /\ Heard("spend") =>
       /\ DOMAIN got["spend"] \subseteq Res
       /\ \A r \in DOMAIN got["spend"] : got["spend"][r] \in Nat
       /\ \A u \in got["users"] :
            Differ(Sum(got["spend"], SpendRowsOf(u)), PaidBy(u), Largest(Due))
  /\ Heard("owners") => \A r \in DOMAIN got["spend"] : got["owners"][r] = Renter[r]

ProfileNear ==
  Heard("profile") =>
    LET p == got["profile"] IN
      /\ p.totalSpend \in Nat /\ p.activeReservations \in Nat
      /\ Cardinality(Own(Viewer)) <= RecentCap =>
           /\ Differ(p.totalSpend, PaidBy(Viewer), Largest(Due))
           /\ Differ(p.activeReservations, ActiveRentals(Viewer), 1)
      /\ p.totalSpend <= PaidBy(Viewer) + writes * Largest(Due)
      /\ p.reservationCount \in Nat /\ p.reservationCount <= Cardinality(Own(Viewer))

\* What the page was told is decided, or is about to be told, is pending no
\* more, and the list of the load that was asked for last was read since then.
Decided == told \cup {a.row : a \in {b \in acts : b.result = "done"}}

OwnActionsNear ==
  /\ \A r \in Decided : resStatus[r] \notin {NoStatus, "PENDING"}
  /\ Kind \in Acting /\ followed = latest /\ Heard("list") =>
       told \cap ListHolding("PENDING") = {}

\* The inductive invariant
AnswersNear ==
  /\ FiguresNear /\ FailuresTogether /\ ListNear /\ SummaryNear /\ StockNear
  /\ TillNear /\ RankingNear /\ SpendNear /\ ProfileNear /\ OwnActionsNear

-----------------------------------------------------------------------------
\* Screens: the types

\* The constants as the proofs use them.
LEMMA ReportConstants ==
  /\ IsFiniteSet(Res) /\ Res \subseteq Nat /\ IsFiniteSet(Products) /\ Products \subseteq Nat
  /\ IsFiniteSet(Stocks) /\ IsFiniteSet(Pays)
  /\ \A r \in Res : /\ Price[r] \in Nat /\ Price[r] <= Largest(Price)
                    /\ Units[r] \in Nat \ {0} /\ Units[r] <= Largest(Units)
                    /\ Item[r] \in Products /\ Renter[r] \in Renters
  /\ \A p \in Pays : Of[p] \in Res /\ Due[p] \in Nat /\ Due[p] <= Largest(Due)
  /\ \A n \in Stocks : n \in Nat /\ n <= Max(Stocks)
  /\ {Largest(Price), Largest(Due), Largest(Units), Max(Stocks)} \subseteq Nat
<1> USE ReportsAssumption
<1>1. ASSUME NEW S, IsFiniteSet(S), S # {}, NEW f \in [S -> Nat]
      PROVE  Largest(f) \in Nat /\ \A r \in S : f[r] <= Largest(f)
  <2> DEFINE V == {f[x] : x \in DOMAIN f}
  <2>1. IsFiniteSet(V)
    <3>1. f \in Surjection(S, V)
      BY <1>1 DEF Surjection
    <3> QED
      BY <1>1, <3>1, FS_Surjection
  <2>2. IsFiniteSet(V) /\ V \subseteq Nat /\ V # {} /\ \A r \in S : f[r] \in V
    <3>1. DOMAIN f = S /\ \A r \in S : f[r] \in Nat
      BY <1>1
    <3>2. \E r \in S : TRUE
      BY <1>1
    <3> QED
      BY <2>1, <3>1, <3>2
  <2> HIDE DEF V
  <2>3. Max(V) \in V /\ \A y \in V : y <= Max(V)
    BY <2>2, MaxOfNat
  <2>4. Largest(f) = Max(V)
    BY DEF Largest, V
  <2> QED
    BY <2>2, <2>3, <2>4
<1>2. Units \in [Res -> Nat]
  OBVIOUS
<1>3. /\ Largest(Price) \in Nat /\ \A r \in Res : Price[r] <= Largest(Price)
      /\ Largest(Units) \in Nat /\ \A r \in Res : Units[r] <= Largest(Units)
  BY <1>1, <1>2
<1>4. Largest(Due) \in Nat /\ \A p \in Pays : Due[p] <= Largest(Due)
  BY <1>1
<1>5. Max(Stocks) \in Stocks /\ \A y \in Stocks : y <= Max(Stocks)
  BY MaxOfNat
<1> QED
  BY <1>3, <1>4, <1>5

\* No screen has other queries than those that are open to begin with.
LEMMA OpenQueries ==
  ASSUME NEW k \in Kinds
  PROVE  DOMAIN Blank(k) = Queries[k] /\ \A q \in Queries[k] : Blank(k)[q] = Missing
BY DEF Blank

\* The types hold of the tables to begin with.
LEMMA ReportsTypedFirst == ReportsInit => ReportsTypeOK
<1> SUFFICES ASSUME ReportsInit PROVE ReportsTypeOK
  OBVIOUS
<1> USE ReportsAssumption
<1>1. PICK t \in Tables : resStatus = t.status /\ pay = t.pay /\ stock = t.stock
  BY DEF ReportsInit
<1>2. report \in Kinds \X Renters /\ Kind \in Kinds /\ got = Blank(Kind) /\ writes = 0
  BY DEF ReportsInit, Kind, Viewer
<1>3. DOMAIN got = Queries[Kind] /\ \A q \in Queries[Kind] : got[q] = Missing
  BY <1>2, OpenQueries
<1>4. PageTypeOK
  <2>1. followed \in Nat \ {0}
    BY DEF ReportsInit
  <2> QED
    BY <2>1 DEF ReportsInit, PageTypeOK
<1> QED
  BY <1>1, <1>2, <1>3, <1>4 DEF ReportsTypeOK, Answered, Kind, Viewer, Shelf

\* The changes of a reservation, of a payment and of a product's stock
RowChanges(r) ==
  /\ \A s \in Res \ {r} : resStatus'[s] = resStatus[s]
  /\ resStatus[r] # NoStatus => resStatus'[r] # NoStatus
  /\ resStatus' \in [Res -> Status \cup {NoStatus}]
  /\ pay' = pay /\ stock' = stock

PayChanges(p) ==
  /\ \A q \in Pays \ {p} : pay'[q] = pay[q]
  /\ pay' \in [Pays -> {Missing, "PAID", "FAILED", "REFUNDED"}]
  /\ resStatus[Of[p]] # NoStatus
  /\ resStatus' = resStatus /\ stock' = stock

StockChanges(p) ==
  /\ \A q \in Shelf \ {p} : stock'[q] = stock[q]
  /\ stock' \in [Shelf -> Stocks]
  /\ resStatus' = resStatus /\ pay' = pay

\* The tables move on.
TablesMove ==
  /\ writes' = writes + 1 /\ report' = report /\ got' = got
  /\ \/ \E r \in Res : RowChanges(r)
     \/ \E p \in Pays : PayChanges(p)
     \/ \E p \in Shelf : StockChanges(p)

\* The page hears of an answer or a failure while the tables stay as they are.
TablesStay ==
  /\ resStatus' = resStatus /\ pay' = pay /\ stock' = stock
  /\ report' = report /\ writes' = writes

QueryAnswered(q) ==
  /\ TablesStay /\ ~Answered(q) /\ \A n \in Needs(q) : Answered(n)
  /\ got'[q] \in AnswersTo(q)
  /\ \A p \in Queries[Kind] \ {q} : got'[p] = got[p]
  /\ DOMAIN got' = Queries[Kind]

RequestFails(qs) ==
  /\ TablesStay /\ Kind \in Lenient /\ \E q \in qs \cap Queries[Kind] : ~Answered(q)
  /\ got' = [q \in Queries[Kind] |-> IF q \in qs THEN Failed ELSE got[q]]

\* The load that is followed begins.
PageReloads ==
  /\ resStatus' = resStatus /\ pay' = pay /\ stock' = stock
  /\ got' = Blank(Kind) /\ Kind \in Kinds
  /\ writes' = 0 /\ report' = report

FailingRequests == {StatsQueries, {"list"}, {"catalog"}}

\* Every step is one of these.
LEMMA ReportSteps ==
  ASSUME ReportsTypeOK, [ReportsNext]_repVars
  PROVE  \/ TablesMove \/ PageReloads
         \/ \E q \in Queries[Kind] : QueryAnswered(q)
         \/ \E qs \in FailingRequests : RequestFails(qs)
         \/ TablesStay /\ got' = got
<1> USE ReportsAssumption
<1>1. CASE UNCHANGED repVars
  BY <1>1 DEF repVars, tables, TablesStay
<1>2. ASSUME NEW q \in Queries[Kind], Answer(q) PROVE QueryAnswered(q)
  <2>1. TablesStay /\ ~Answered(q) /\ \A n \in Needs(q) : Answered(n)
    BY <1>2 DEF Answer, TablesStay, tables
  <2>2. PICK v \in AnswersTo(q) : got' = [got EXCEPT ![q] = v]
    BY <1>2 DEF Answer
  <2>3. DOMAIN got = Queries[Kind]
    BY DEF ReportsTypeOK
  <2> QED
    BY <1>2, <2>1, <2>2, <2>3 DEF QueryAnswered
<1>3. ASSUME NEW qs, Fail(qs) PROVE RequestFails(qs)
  <2>1. TablesStay /\ Kind \in Lenient /\ \E q \in qs \cap Queries[Kind] : ~Answered(q)
    BY <1>3 DEF Fail, TablesStay, tables, Lenient
  <2>2. got' = [q \in Queries[Kind] |->
                  IF q \in qs \cap Queries[Kind] THEN Failed ELSE got[q]]
    BY <1>3 DEF Fail
  <2> QED
    BY <2>1, <2>2 DEF RequestFails
<1>4. ASSUME NEW a \in acts, QuickStored(a) PROVE TablesMove \/ (TablesStay /\ got' = got)
  <2>1. /\ resStatus' = [resStatus EXCEPT ![a.row] = a.to]
        /\ pay' = pay /\ stock' = stock /\ report' = report /\ got' = got
        /\ writes' = IF resStatus[a.row] = a.to THEN writes ELSE writes + 1
    BY <1>4 DEF QuickStored
  <2>2. a.row \in Res /\ a.to \in Status /\ a.to # NoStatus
    BY DEF ReportsTypeOK, PageTypeOK, QuickTargets, Status, NoStatus
  <2>3. CASE resStatus[a.row] = a.to
    <3>1. resStatus' = resStatus
      BY <2>1, <2>2, <2>3 DEF ReportsTypeOK
    <3> QED
      BY <2>1, <2>3, <3>1 DEF TablesStay
  <2>4. CASE resStatus[a.row] # a.to
    <3>1. RowChanges(a.row)
      BY <2>1, <2>2 DEF ReportsTypeOK, RowChanges
    <3> QED
      BY <2>1, <2>2, <2>4, <3>1 DEF TablesMove
  <2> QED
    BY <2>3, <2>4
<1>5. ASSUME NEW a \in acts, QuickDone(a) PROVE PageReloads \/ (TablesStay /\ got' = got)
  <2>1. /\ resStatus' = resStatus /\ pay' = pay /\ stock' = stock /\ report' = report
        /\ \/ got' = Blank(Kind) /\ writes' = 0
           \/ got' = got /\ writes' = writes
    BY <1>5 DEF QuickDone, LoadAgain, tables
  <2>2. Kind \in Kinds
    BY DEF ReportsTypeOK, Kind
  <2> QED
    BY <2>1, <2>2 DEF PageReloads, TablesStay
<1>6. ASSUME \/ \E l \in flights : OtherLands(l)
             \/ \E r \in Res, s \in QuickTargets : QuickClick(r, s)
             \/ \E a \in acts : QuickFails(a) \/ QuickAlert(a)
      PROVE  TablesStay /\ got' = got
  BY <1>6 DEF OtherLands, QuickClick, QuickFails, QuickAlert, TablesStay, tables
<1>7. ASSUME NEW r \in Res, Book(r) \/ \E s \in Status : Move(r, s) PROVE TablesMove
  <2>1. /\ writes' = writes + 1 /\ report' = report /\ got' = got
        /\ pay' = pay /\ stock' = stock
        /\ \E s \in Status : resStatus' = [resStatus EXCEPT ![r] = s]
    <3>1. "PENDING" \in Status
      BY DEF Status
    <3> QED
      BY <1>7, <3>1 DEF Book, Move, Writes
  <2>2. \A s \in Status : s # NoStatus
    BY DEF Status, NoStatus
  <2>3. RowChanges(r)
    BY <2>1, <2>2 DEF ReportsTypeOK, RowChanges
  <2> QED
    BY <2>1, <2>3 DEF TablesMove
<1>8. ASSUME NEW p \in Pays, Refund(p) \/ \E outcome \in {"PAID", "FAILED"} : Pay(p, outcome)
      PROVE  TablesMove
  <2>1. /\ writes' = writes + 1 /\ report' = report /\ got' = got
        /\ resStatus' = resStatus /\ stock' = stock
        /\ \E o \in {"PAID", "FAILED", "REFUNDED"} : pay' = [pay EXCEPT ![p] = o]
    BY <1>8 DEF Refund, Pay, Writes
  <2>2. resStatus[Of[p]] # NoStatus
    BY <1>8 DEF Refund, Pay, Payable, Rows, ReportsTypeOK
  <2>3. PayChanges(p)
    BY <2>1, <2>2 DEF ReportsTypeOK, PayChanges
  <2> QED
    BY <2>1, <2>3 DEF TablesMove
<1>9. ASSUME NEW p \in Shelf, NEW n \in Stocks, Restock(p, n) PROVE TablesMove
  <2>1. /\ writes' = writes + 1 /\ report' = report /\ got' = got
        /\ resStatus' = resStatus /\ pay' = pay /\ stock' = [stock EXCEPT ![p] = n]
    BY <1>9 DEF Restock, Writes
  <2>2. StockChanges(p)
    BY <2>1 DEF ReportsTypeOK, StockChanges
  <2> QED
    BY <2>1, <2>2 DEF TablesMove
<1>10. CASE ReportsNext
  BY <1>2, <1>3, <1>4, <1>5, <1>6, <1>7, <1>8, <1>9, <1>10
     DEF ReportsNext, QuickActions, FailingRequests
<1> QED
  BY <1>1, <1>10

\* What the page keeps of its loads and quick actions keeps its type.
LEMMA PageTypesKept ==
  ASSUME ReportsTypeOK, [ReportsNext]_repVars
  PROVE  PageTypeOK'
<1>0. PageTypeOK /\ MaxLoads \in Nat \ {0} /\ latest \in Nat \ {0} /\ clicks \in 0..MaxLoads
  BY ReportsAssumption DEF ReportsTypeOK, PageTypeOK
<1>1. CASE UNCHANGED pageVars /\ followed' = followed
  BY <1>0, <1>1 DEF pageVars, landings, PageTypeOK
<1>2. ASSUME NEW l \in flights, Lands(l) \/ UNCHANGED landings,
             UNCHANGED <<followed, latest, clicks, acts, told>>
      PROVE  PageTypeOK'
  <2>1. CASE Lands(l)
    <3>0. /\ flights \subseteq 1..latest /\ latest' = latest
          /\ flights' = flights \ {l} /\ shown' = l /\ loading' = FALSE
      BY <1>0, <1>2, <2>1 DEF Lands, PageTypeOK
    <3>1. shown' \in 0..latest' /\ loading' \in BOOLEAN
      <4>1. l \in 1..latest /\ latest \in Nat
        BY <1>0, <3>0
      <4>2. l \in 0..latest
        BY <4>1
      <4> QED
        BY <3>0, <4>2
    <3>2. flights' \subseteq 1..latest'
      BY <3>0
    <3> QED
      BY <1>0, <1>2, <3>1, <3>2 DEF PageTypeOK
  <2>2. CASE UNCHANGED landings
    BY <1>0, <1>2, <2>2 DEF landings, PageTypeOK
  <2> QED
    BY <1>2, <2>1, <2>2
<1>3. ASSUME NEW r \in Res, NEW s \in QuickTargets, QuickClick(r, s) PROVE PageTypeOK'
  BY <1>0, <1>3 DEF QuickClick, landings, PageTypeOK
<1>4. ASSUME NEW a \in acts, NEW result \in {"done", "error"}, AnswerAct(a, result),
             UNCHANGED <<followed, latest, landings, clicks, told>>
      PROVE  PageTypeOK'
  BY <1>0, <1>4 DEF AnswerAct, landings, PageTypeOK
<1>5. ASSUME NEW a \in acts, QuickDone(a) PROVE PageTypeOK'
  <2>1. /\ latest' = latest + 1 /\ flights' = flights \cup {latest + 1} /\ loading' = TRUE
        /\ shown' = shown /\ followed' = followed /\ clicks' = clicks
        /\ acts' = acts \ {a} /\ told' = told \cup {a.row}
    BY <1>5 DEF QuickDone, LoadAgain
  <2>2. a.row \in Res
    BY <1>0 DEF PageTypeOK
  <2> QED
    BY <1>0, <2>1, <2>2 DEF PageTypeOK
<1>6. ASSUME NEW a \in acts, QuickAlert(a) PROVE PageTypeOK'
  BY <1>0, <1>6 DEF QuickAlert, landings, PageTypeOK
<1>7. CASE UNCHANGED repVars
  BY <1>1, <1>7 DEF repVars
<1>8. CASE \/ \E q \in Queries[Kind] : Answer(q)
           \/ Fail(StatsQueries) \/ Fail({"list"}) \/ Fail({"catalog"})
  BY <1>2, <1>8 DEF Answer, Fail, LandsComplete
<1>9. CASE \E l \in flights : OtherLands(l)
  BY <1>2, <1>9 DEF OtherLands
<1>10. CASE QuickActions
  BY <1>3, <1>4, <1>5, <1>6, <1>10 DEF QuickActions, QuickStored, QuickFails
<1>11. CASE \/ \E r \in Res : Book(r) \/ \E s \in Status : Move(r, s)
            \/ \E p \in Pays : Refund(p) \/ \E outcome \in {"PAID", "FAILED"} : Pay(p, outcome)
            \/ \E p \in Shelf, n \in Stocks : Restock(p, n)
  BY <1>1, <1>11 DEF Book, Move, Refund, Pay, Restock
<1> QED
  BY <1>7, <1>8, <1>9, <1>10, <1>11 DEF ReportsNext

\* The types are kept by every step.
LEMMA ReportsTypesKept == ReportsTypeOK /\ [ReportsNext]_repVars => ReportsTypeOK'
<1> SUFFICES ASSUME ReportsTypeOK, [ReportsNext]_repVars PROVE ReportsTypeOK'
  OBVIOUS
<1> USE ReportsAssumption
<1>0. /\ writes \in Nat /\ DOMAIN got = Queries[Kind] /\ PageTypeOK'
      /\ report \in Kinds \X Renters /\ Kind \in Kinds
      /\ \A q \in Queries[Kind] : Answered(q) => \A n \in Needs(q) : Answered(n)
      /\ \A p \in Pays : pay[p] # Missing => resStatus[Of[p]] # NoStatus
      /\ stock \in [Shelf -> Stocks] /\ Shelf \subseteq Products
      /\ \A p \in Pays : Of[p] \in Res
  BY PageTypesKept DEF ReportsTypeOK, Kind
<1>1. ASSUME TablesMove
      PROVE  /\ resStatus' \in [Res -> Status \cup {NoStatus}]
             /\ pay' \in [Pays -> {Missing, "PAID", "FAILED", "REFUNDED"}]
             /\ stock' \in [Shelf -> Stocks] /\ Shelf' = Shelf
             /\ \A p \in Pays : pay'[p] # Missing => resStatus'[Of[p]] # NoStatus
  <2>1. ASSUME NEW r \in Res, RowChanges(r)
        PROVE  \A p \in Pays : pay'[p] # Missing => resStatus'[Of[p]] # NoStatus
    BY <1>0, <2>1 DEF RowChanges
  <2>2. ASSUME NEW r \in Pays, PayChanges(r)
        PROVE  \A p \in Pays : pay'[p] # Missing => resStatus'[Of[p]] # NoStatus
    BY <1>0, <2>2 DEF PayChanges
  <2>3. ASSUME NEW r \in Shelf, StockChanges(r)
        PROVE  \A p \in Pays : pay'[p] # Missing => resStatus'[Of[p]] # NoStatus
    BY <1>0, <2>3 DEF StockChanges
  <2>4. stock' \in [Shelf -> Stocks]
    BY <1>0, <1>1 DEF TablesMove, RowChanges, PayChanges, StockChanges
  <2>5. Shelf' = Shelf
    BY <2>4 DEF Shelf
  <2>6. /\ resStatus' \in [Res -> Status \cup {NoStatus}]
        /\ pay' \in [Pays -> {Missing, "PAID", "FAILED", "REFUNDED"}]
    BY <1>1 DEF TablesMove, RowChanges, PayChanges, StockChanges, ReportsTypeOK
  <2> QED
    BY <1>1, <2>1, <2>2, <2>3, <2>4, <2>5, <2>6 DEF TablesMove
<1>2. CASE TablesMove
  <2>1. writes' \in Nat /\ got' = got /\ Kind' = Kind /\ report' = report
    BY <1>0, <1>2 DEF TablesMove, Kind
  <2>2. stock' \in [Shelf' -> Stocks] /\ Shelf' \subseteq Products
    BY <1>0, <1>1, <1>2
  <2> QED
    BY <1>0, <1>1, <1>2, <2>1, <2>2 DEF ReportsTypeOK, Answered
<1>3. CASE PageReloads
  <2>1. writes' \in Nat /\ Kind' = Kind /\ Shelf' = Shelf
    BY <1>0, <1>3 DEF PageReloads, Kind, Shelf
  <2>2. DOMAIN got' = Queries[Kind] /\ \A q \in Queries[Kind] : got'[q] = Missing
    BY <1>3, OpenQueries DEF PageReloads
  <2> QED
    BY <1>0, <1>3, <2>1, <2>2 DEF ReportsTypeOK, Answered, PageReloads
<1>4. ASSUME NEW q \in Queries[Kind], QueryAnswered(q) PROVE ReportsTypeOK'
  <2>1. /\ report' = report /\ DOMAIN got' = Queries[Kind] /\ Kind' = Kind /\ writes' = writes
        /\ resStatus' = resStatus /\ pay' = pay /\ stock' = stock
    BY <1>4 DEF QueryAnswered, TablesStay, Kind
  <2>2. ASSUME NEW p \in Queries[Kind], got'[p] # Missing, NEW n \in Needs(p)
        PROVE  got'[n] # Missing
    <3>1. got[n] # Missing
      BY <1>0, <1>4, <2>2 DEF QueryAnswered, Answered
    <3>2. n # q
      BY <1>4, <3>1 DEF QueryAnswered, Answered
    <3>3. n \in Queries[Kind]
      <4>1. (p = "spend" /\ n = "users") \/ (p = "owners" /\ n = "spend")
        BY <2>2 DEF Needs
      <4>2. Kind = "directory"
        BY <1>0, <2>2, <4>1 DEF Kinds, Queries
      <4> QED
        BY <4>1, <4>2 DEF Queries
    <3> QED
      BY <1>4, <3>1, <3>2, <3>3 DEF QueryAnswered
  <2> QED
    BY <1>0, <2>1, <2>2 DEF ReportsTypeOK, Answered, Shelf
<1>5. ASSUME NEW qs \in FailingRequests, RequestFails(qs) PROVE ReportsTypeOK'
  <2>1. /\ report' = report /\ Kind' = Kind /\ writes' = writes
        /\ resStatus' = resStatus /\ pay' = pay /\ stock' = stock
        /\ got' = [q \in Queries[Kind] |-> IF q \in qs THEN Failed ELSE got[q]]
    BY <1>5 DEF RequestFails, TablesStay, Kind
  <2>2. ASSUME NEW p \in Queries[Kind] PROVE Needs(p) = {}
    BY <1>5, <2>2 DEF RequestFails, Lenient, Queries, Needs
  <2> QED
    BY <1>0, <2>1, <2>2 DEF ReportsTypeOK, Answered, Shelf
<1>6. CASE TablesStay /\ got' = got
  BY <1>0, <1>6 DEF TablesStay, ReportsTypeOK, Answered, Kind, Shelf
<1> QED
  BY <1>2, <1>3, <1>4, <1>5, <1>6, ReportSteps

-----------------------------------------------------------------------------
\* Screens: what is heard

\* What the page knew before, and what it hears now
Kept(p) == Heard(p) /\ got'[p] = got[p]
News(p) == /\ ~Answered(p) /\ got'[p] \in AnswersTo(p)
           /\ \A n \in Needs(p) : Answered(n) /\ got'[n] = got[n]
Hears   == TablesStay /\ \A p \in Queries[Kind] : Heard(p)' => Kept(p) \/ News(p)

\* A query is of the same screen throughout.
LEMMA SameScreen ==
  ASSUME TablesMove \/ PageReloads \/ Hears
  PROVE  Kind' = Kind /\ Viewer' = Viewer /\ report' = report
BY DEF TablesMove, PageReloads, Hears, TablesStay, Kind, Viewer

\* The tables move on, or the page loads again, or it hears of answers.
LEMMA ThreeCases ==
  ASSUME ReportsTypeOK, [ReportsNext]_repVars
  PROVE  TablesMove \/ PageReloads \/ Hears
<1>1. ASSUME NEW q \in Queries[Kind], QueryAnswered(q) PROVE Hears
  <2>1. TablesStay /\ Kind' = Kind
    BY <1>1 DEF QueryAnswered, TablesStay, Kind
  <2>2. ASSUME NEW p \in Queries[Kind], Heard(p)' PROVE Kept(p) \/ News(p)
    <3>1. CASE p = q
      <4>1. ASSUME NEW n \in Needs(q) PROVE got'[n] = got[n]
        <5>1. n # q
          BY DEF Needs
        <5>2. n \in Queries[Kind]
          <6>1. (q = "spend" /\ n = "users") \/ (q = "owners" /\ n = "spend")
            BY <4>1 DEF Needs
          <6>2. Kind = "directory"
            BY <6>1 DEF ReportsTypeOK, Kind, Kinds, Queries
          <6> QED
            BY <6>1, <6>2 DEF Queries
        <5> QED
          BY <1>1, <5>1, <5>2 DEF QueryAnswered
      <4> QED
        BY <1>1, <3>1, <4>1 DEF News, QueryAnswered
    <3>2. CASE p # q
      <4>1. got'[p] = got[p]
        BY <1>1, <3>2 DEF QueryAnswered
      <4> QED
        BY <2>1, <2>2, <4>1 DEF Kept, Heard, Answered
    <3> QED
      BY <3>1, <3>2
  <2> QED
    BY <2>1, <2>2 DEF Hears
<1>2. ASSUME NEW qs \in FailingRequests, RequestFails(qs) PROVE Hears
  <2>1. /\ TablesStay /\ Kind' = Kind /\ Kind \in Lenient
        /\ \A p \in Queries[Kind] : got'[p] = IF p \in qs THEN Failed ELSE got[p]
    BY <1>2 DEF RequestFails, TablesStay, Kind
  <2>2. ASSUME NEW p \in Queries[Kind], Heard(p)' PROVE Kept(p)
    <3>1. got'[p] # Failed /\ got'[p] # Missing
      BY <2>1, <2>2 DEF Heard, Answered
    <3>2. got'[p] = got[p]
      BY <2>1, <3>1
    <3> QED
      BY <3>1, <3>2 DEF Kept, Heard, Answered
  <2> QED
    BY <2>1, <2>2 DEF Hears
<1>3. CASE TablesStay /\ got' = got
  BY <1>3 DEF Hears, Kept, Heard, Answered, TablesStay, Kind
<1> QED
  BY <1>1, <1>2, <1>3, ReportSteps

\* A page that loads again has heard nothing.
LEMMA NothingHeard ==
  ASSUME PageReloads, NEW q
  PROVE  ~Heard(q)'
<1>1. Kind' = Kind /\ \A p \in Queries[Kind] : got'[p] = Missing
  BY OpenQueries, SameScreen DEF PageReloads
<1> QED
  BY <1>1 DEF Heard, Answered

\* While the tables move the page has what it had.
LEMMA HeardStays ==
  ASSUME TablesMove, NEW q
  PROVE  Heard(q)' = Heard(q) /\ got' = got
BY DEF TablesMove, Heard, Answered, Kind

\* A page at the start has heard nothing.
LEMMA NothingHeardFirst ==
  ASSUME ReportsInit, NEW q
  PROVE  ~Heard(q)
<1>1. Kind \in Kinds /\ got = Blank(Kind)
  BY DEF ReportsInit, Kind
<1>2. \A p \in Queries[Kind] : got[p] = Missing
  BY <1>1, OpenQueries
<1> QED
  BY <1>2 DEF Heard, Answered

\* What is off by w changes of d is off by w + 1 of them once the present
\* moves by d.
LEMMA DifferenceGrows ==
  ASSUME NEW w \in Nat, NEW d \in Nat, NEW a \in Int, NEW b \in Int, NEW c \in Int,
         (a - b) \in -(w * d)..(w * d), c <= b + d, b <= c + d
  PROVE  (a - c) \in -((w + 1) * d)..((w + 1) * d)
<1>1. PICK n \in Nat : n = w * d
  BY SMT
<1>2. (w + 1) * d = n + d
  BY <1>1, SMT
<1> QED
  BY <1>1, <1>2

\* What is no more than w changes off is no more than w + 1 changes off once
\* the present moves by d.
LEMMA ExcessGrows ==
  ASSUME NEW w \in Nat, NEW d \in Nat, NEW a \in Int, NEW b \in Int, NEW c \in Int,
         a <= b + w * d, b <= c + d
  PROVE  a <= c + (w + 1) * d
<1>1. PICK n \in Nat : n = w * d
  BY SMT
<1>2. (w + 1) * d = n + d
  BY <1>1, SMT
<1> QED
  BY <1>1, <1>2

\* No change so far leaves room for what is equal.
LEMMA EqualsDiffer ==
  ASSUME NEW w \in Nat, NEW d \in Nat, NEW a \in Int
  PROVE  (a - a) \in -(w * d)..(w * d) /\ w * d \in Nat
<1>1. PICK n \in Nat : n = w * d
  BY SMT
<1> QED
  BY <1>1

\* The sums of the library
LEMMA SumIs ==
  ASSUME NEW f, NEW S
  PROVE  Sum(f, S) = SumOver(f, S)
<1> DEFINE step(g) == [s \in SUBSET S |->
                         IF s = {} THEN 0 ELSE f[Choice(s)] + g[s \ {Choice(s)}]]
<1>1. Sum(f, S) = (CHOOSE g : g = step(g))[S]
  BY DEF Sum, MapThenSumSet, MapThenFoldSet, Choice
<1>2. ASSUME NEW g PROVE step(g) = SumStep(f, S, g)
  BY DEF SumStep
<1> HIDE DEF step
<1>3. (CHOOSE g : g = step(g)) = (CHOOSE g : g = SumStep(f, S, g))
  BY <1>2
<1> QED
  BY <1>1, <1>3 DEF SumOver

\* The sizes and sums of two sets that differ in x
LEMMA RowsNear ==
  ASSUME NEW S, IsFiniteSet(S), NEW A \in SUBSET S, NEW B \in SUBSET S,
         NEW x, A \ {x} = B \ {x}
  PROVE  /\ Cardinality(A) \in Nat /\ Cardinality(B) \in Nat
         /\ Cardinality(A) <= Cardinality(B) + 1 /\ Cardinality(B) <= Cardinality(A) + 1
         /\ \A f : Largest(f) \in Nat /\ (\A y \in S : f[y] \in Nat /\ f[y] <= Largest(f)) =>
              /\ Sum(f, A) \in Nat /\ Sum(f, B) \in Nat
              /\ Sum(f, A) <= Sum(f, B) + Largest(f) /\ Sum(f, B) <= Sum(f, A) + Largest(f)
<1>1. /\ Cardinality(A) \in Nat /\ Cardinality(B) \in Nat
      /\ Cardinality(A) <= Cardinality(B) + 1 /\ Cardinality(B) <= Cardinality(A) + 1
  BY SizeNear
<1>2. ASSUME NEW f, Largest(f) \in Nat, \A y \in S : f[y] \in Nat /\ f[y] <= Largest(f)
      PROVE  /\ Sum(f, A) \in Nat /\ Sum(f, B) \in Nat
             /\ Sum(f, A) <= Sum(f, B) + Largest(f) /\ Sum(f, B) <= Sum(f, A) + Largest(f)
  <2>1. /\ SumOver(f, A) \in Nat /\ SumOver(f, B) \in Nat
        /\ SumOver(f, A) <= SumOver(f, B) + Largest(f)
        /\ SumOver(f, B) <= SumOver(f, A) + Largest(f)
    BY <1>2, SumNear
  <2>2. Sum(f, A) = SumOver(f, A) /\ Sum(f, B) = SumOver(f, B)
    BY SumIs
  <2> QED
    BY <2>1, <2>2
<1> QED
  BY <1>1, <1>2

\* Those of reservations, and
LEMMA BookingsNear ==
  ASSUME NEW A \in SUBSET Res, NEW B \in SUBSET Res, NEW x, A \ {x} = B \ {x}
  PROVE  /\ Cardinality(A) \in Nat /\ Cardinality(B) \in Nat
         /\ Cardinality(A) <= Cardinality(B) + 1 /\ Cardinality(B) <= Cardinality(A) + 1
         /\ \A f \in {Price, Units} :
              /\ Sum(f, A) \in Nat /\ Sum(f, B) \in Nat
              /\ Sum(f, A) <= Sum(f, B) + Largest(f) /\ Sum(f, B) <= Sum(f, A) + Largest(f)
<1>1. IsFiniteSet(Res)
  BY ReportConstants
<1>2. \A f \in {Price, Units} :
        Largest(f) \in Nat /\ \A y \in Res : f[y] \in Nat /\ f[y] <= Largest(f)
  BY ReportConstants
<1> QED
  BY <1>1, <1>2, RowsNear

\* those of payments
LEMMA PaymentsNear ==
  ASSUME NEW A \in SUBSET Pays, NEW B \in SUBSET Pays, NEW x, A \ {x} = B \ {x}
  PROVE  /\ Cardinality(A) \in Nat /\ Cardinality(B) \in Nat
         /\ Cardinality(A) <= Cardinality(B) + 1 /\ Cardinality(B) <= Cardinality(A) + 1
         /\ Sum(Due, A) \in Nat /\ Sum(Due, B) \in Nat
         /\ Sum(Due, A) <= Sum(Due, B) + Largest(Due) /\ Sum(Due, B) <= Sum(Due, A) + Largest(Due)
<1>1. IsFiniteSet(Pays)
  BY ReportConstants
<1>2. Largest(Due) \in Nat /\ \A y \in Pays : Due[y] \in Nat /\ Due[y] <= Largest(Due)
  BY ReportConstants
<1> QED
  BY <1>1, <1>2, RowsNear

\* A change of the tables is one of a reservation and of a payment at most.
LEMMA OneRow ==
  ASSUME TablesMove
  PROVE  /\ \E x \in Res : \A s \in Res \ {x} : resStatus'[s] = resStatus[s]
         /\ \E x \in Pays : \A p \in Pays \ {x} : pay'[p] = pay[p]
<1>1. (\E x \in Res : TRUE) /\ (\E x \in Pays : TRUE)
  BY ReportsAssumption
<1> QED
  BY <1>1 DEF TablesMove, RowChanges, PayChanges, StockChanges

\* Reservations are never taken back.
LEMMA RowsGrow ==
  ASSUME TablesMove \/ TablesStay
  PROVE  \A r \in Res : resStatus[r] # NoStatus => resStatus'[r] # NoStatus
<1>1. ASSUME NEW x \in Res, RowChanges(x), NEW r \in Res, resStatus[r] # NoStatus
      PROVE  resStatus'[r] # NoStatus
  BY <1>1 DEF RowChanges
<1> QED
  BY <1>1 DEF TablesMove, TablesStay, PayChanges, StockChanges

\* A sum over products in stock moves by the largest stock at most.
LEMMA StockMoves ==
  ASSUME ReportsTypeOK, NEW C \in SUBSET Shelf
  PROVE  /\ IsFiniteSet(Shelf) /\ Sum(stock, C) \in Nat
         /\ TablesMove \/ TablesStay => Shelf' = Shelf
         /\ TablesMove => /\ Sum(stock', C) \in Nat
                          /\ Sum(stock', C) <= Sum(stock, C) + Max(Stocks)
                          /\ Sum(stock, C) <= Sum(stock', C) + Max(Stocks)
<1>1. Sum(stock, C) = SumOver(stock, C) /\ Sum(stock', C) = SumOver(stock', C)
  BY SumIs
<1>2. IsFiniteSet(Shelf) /\ IsFiniteSet(C) /\ Max(Stocks) \in Nat
  BY ReportConstants, FS_Subset DEF ReportsTypeOK
<1>3. \A p \in C : stock[p] \in Nat /\ stock[p] <= Max(Stocks)
  BY ReportConstants DEF ReportsTypeOK
<1>4. SumOver(stock, C) \in Nat
  BY <1>2, <1>3, SumOfNats
<1>5. ASSUME stock' = stock
      PROVE  /\ Shelf' = Shelf /\ SumOver(stock', C) \in Nat
             /\ SumOver(stock', C) <= SumOver(stock, C) + Max(Stocks)
             /\ SumOver(stock, C) <= SumOver(stock', C) + Max(Stocks)
  <2>1. SumOver(stock', C) = SumOver(stock, C)
    BY <1>5
  <2> QED
    BY <1>2, <1>4, <1>5, <2>1 DEF Shelf
<1>6. ASSUME NEW x \in Shelf, StockChanges(x)
      PROVE  /\ SumOver(stock', C) \in Nat
             /\ SumOver(stock', C) <= SumOver(stock, C) + Max(Stocks)
             /\ SumOver(stock, C) <= SumOver(stock', C) + Max(Stocks)
  <2>1. \A p \in C : stock'[p] \in Nat /\ stock'[p] <= Max(Stocks)
    BY <1>6, ReportConstants DEF StockChanges
  <2>2. \A p \in C \ {x} : stock[p] = stock'[p]
    BY <1>6 DEF StockChanges
  <2>3. CASE x \in C
    BY <1>2, <1>3, <2>1, <2>2, <2>3, SumChanges
  <2>4. CASE x \notin C
    <3>1. SumOver(stock, C) = SumOver(stock', C)
      BY <1>2, <1>3, <2>2, <2>4, SumOfSame
    <3> QED
      BY <1>2, <1>4, <3>1
  <2> QED
    BY <2>3, <2>4
<1>7. ASSUME NEW x \in Shelf, StockChanges(x) PROVE Shelf' = Shelf
  BY <1>7 DEF StockChanges, Shelf
<1> QED
  BY <1>1, <1>2, <1>4, <1>5, <1>6, <1>7 DEF TablesMove, TablesStay, RowChanges, PayChanges

-----------------------------------------------------------------------------
\* Screens: figures

\* A figure is a whole number, and one change of the tables moves it by its
\* step at most.
LEMMA FigureMoves ==
  ASSUME ReportsTypeOK, NEW q \in Figures
  PROVE  /\ Figure(q) \in Nat /\ StepOf(q) \in Nat
         /\ TablesMove => /\ Figure(q)' \in Nat
                          /\ Figure(q)' <= Figure(q) + StepOf(q)
                          /\ Figure(q) <= Figure(q)' + StepOf(q)
<1> DEFINE Goal == /\ Figure(q) \in Nat /\ StepOf(q) \in Nat
                   /\ TablesMove => /\ Figure(q)' \in Nat
                                    /\ Figure(q)' <= Figure(q) + StepOf(q)
                                    /\ Figure(q) <= Figure(q)' + StepOf(q)
<1>0. {Largest(Price), Largest(Due), Max(Stocks), 1} \subseteq Nat
  BY ReportConstants
<1>1. CASE q = "units"
  <2>1. Figure(q) = Sum(stock, Shelf) /\ Figure(q)' = Sum(stock', Shelf') /\ StepOf(q) = Max(Stocks)
    BY <1>1 DEF Figure, StepOf
  <2> QED
    BY <1>0, <2>1, StockMoves
<1>2. ASSUME NEW A \in SUBSET Res, NEW B \in SUBSET Res,
             TablesMove => \E x \in Res : A \ {x} = B \ {x},
             \/ /\ Figure(q) = Cardinality(A) /\ Figure(q)' = Cardinality(B)
                /\ StepOf(q) = 1
             \/ /\ Figure(q) = Sum(Price, A) /\ Figure(q)' = Sum(Price, B)
                /\ StepOf(q) = Largest(Price)
      PROVE  Goal
  <2>1. Cardinality(A) \in Nat /\ Sum(Price, A) \in Nat
    BY BookingsNear
  <2>2. CASE ~TablesMove
    BY <1>0, <1>2, <2>1, <2>2
  <2>3. CASE TablesMove
    <3>1. PICK x \in Res : A \ {x} = B \ {x}
      BY <1>2, <2>3
    <3>2. /\ Cardinality(B) \in Nat
          /\ Cardinality(A) <= Cardinality(B) + 1 /\ Cardinality(B) <= Cardinality(A) + 1
          /\ Sum(Price, B) \in Nat
          /\ Sum(Price, A) <= Sum(Price, B) + Largest(Price)
          /\ Sum(Price, B) <= Sum(Price, A) + Largest(Price)
      BY <3>1, BookingsNear
    <3> QED
      BY <1>0, <1>2, <2>1, <3>2
  <2> QED
    BY <2>2, <2>3
<1>3. CASE q \in {"active", "pending"}
  <2> DEFINE S == IF q = "active" THEN {"ACTIVE"} ELSE {"PENDING"}
             A == {r \in Res : resStatus[r] \in S}
             B == {r \in Res : resStatus'[r] \in S}
  <2>1. A \in SUBSET Res /\ B \in SUBSET Res
    OBVIOUS
  <2>2. TablesMove => \E x \in Res : A \ {x} = B \ {x}
    BY OneRow
  <2>3. Figure(q) = Cardinality(A) /\ Figure(q)' = Cardinality(B) /\ StepOf(q) = 1
    BY <1>3 DEF Figure, StepOf, In
  <2> HIDE DEF S, A, B, Goal
  <2>4. Goal
    BY <1>2, <2>1, <2>2, <2>3
  <2> QED
    BY <2>4 DEF Goal
<1>4. CASE q = "revenue"
  <2> DEFINE A == {r \in Res : resStatus[r] \in BILLABLE}
             B == {r \in Res : resStatus'[r] \in BILLABLE}
  <2>1. A \in SUBSET Res /\ B \in SUBSET Res
    OBVIOUS
  <2>2. TablesMove => \E x \in Res : A \ {x} = B \ {x}
    BY OneRow
  <2>3. /\ Figure(q) = Sum(Price, A) /\ Figure(q)' = Sum(Price, B)
        /\ StepOf(q) = Largest(Price)
    BY <1>4 DEF Figure, StepOf, In
  <2> HIDE DEF A, B, Goal
  <2>4. Goal
    BY <1>2, <2>1, <2>2, <2>3
  <2> QED
    BY <2>4 DEF Goal
<1>5. CASE q \in {"rentals", "requests"}
  <2> DEFINE S == IF q = "rentals" THEN OUT_ON_HIRE ELSE {"PENDING"}
             A == {r \in Res : Renter[r] = Viewer /\ resStatus[r] # NoStatus
                                 /\ resStatus[r] \in S}
             B == {r \in Res : Renter[r] = Viewer' /\ resStatus'[r] # NoStatus
                                 /\ resStatus'[r] \in S}
  <2>1. A \in SUBSET Res /\ B \in SUBSET Res
    OBVIOUS
  <2>2. TablesMove => \E x \in Res : A \ {x} = B \ {x}
    BY OneRow, SameScreen
  <2>3. Figure(q) = Cardinality(A) /\ Figure(q)' = Cardinality(B) /\ StepOf(q) = 1
    <3>1. CASE q = "rentals"
      <4>1. A = {r \in Own(Viewer) : resStatus[r] \in OUT_ON_HIRE}
        BY <3>1 DEF Own, Rows
      <4>2. B = {r \in Own(Viewer) : resStatus[r] \in OUT_ON_HIRE}'
        BY <3>1 DEF Own, Rows
      <4> HIDE DEF A, B
      <4> QED
        BY <3>1, <4>1, <4>2 DEF Figure, StepOf, ActiveRentals
    <3>2. CASE q = "requests"
      <4>1. A = {r \in Own(Viewer) : resStatus[r] = "PENDING"}
        BY <3>2 DEF Own, Rows
      <4>2. B = {r \in Own(Viewer) : resStatus[r] = "PENDING"}'
        BY <3>2 DEF Own, Rows
      <4> HIDE DEF A, B
      <4> QED
        BY <3>2, <4>1, <4>2 DEF Figure, StepOf, PendingRequests
    <3> QED
      BY <1>5, <3>1, <3>2
  <2> HIDE DEF S, A, B, Goal
  <2>4. Goal
    BY <1>2, <2>1, <2>2, <2>3
  <2> QED
    BY <2>4 DEF Goal
<1>6. CASE q \in {"rows", "collected", "refunded"}
  <2> DEFINE S == CASE q = "rows" -> {"PAID", "FAILED", "REFUNDED"}
                    [] q = "collected" -> {"PAID"}
                    [] q = "refunded" -> {"REFUNDED"}
             A == {p \in Pays : pay[p] \in S}
             B == {p \in Pays : pay'[p] \in S}
  <2>1. A \in SUBSET Pays /\ B \in SUBSET Pays
    OBVIOUS
  <2>2. TablesMove => \E x \in Pays : A \ {x} = B \ {x}
    BY OneRow
  <2>3. \/ Figure(q) = Cardinality(A) /\ Figure(q)' = Cardinality(B) /\ StepOf(q) = 1
        \/ /\ Figure(q) = Sum(Due, A) /\ Figure(q)' = Sum(Due, B)
           /\ StepOf(q) = Largest(Due)
    BY <1>6 DEF Figure, StepOf, PaymentsIn, Collected, Refunded
  <2> HIDE DEF S, A, B, Goal
  <2>4. Cardinality(A) \in Nat /\ Sum(Due, A) \in Nat
    BY <2>1, PaymentsNear
  <2>5. ASSUME TablesMove
        PROVE  /\ Cardinality(B) \in Nat
               /\ Cardinality(A) <= Cardinality(B) + 1 /\ Cardinality(B) <= Cardinality(A) + 1
               /\ Sum(Due, B) \in Nat
               /\ Sum(Due, A) <= Sum(Due, B) + Largest(Due)
               /\ Sum(Due, B) <= Sum(Due, A) + Largest(Due)
    <3>1. PICK x \in Pays : A \ {x} = B \ {x}
      BY <2>2, <2>5
    <3> QED
      BY <2>1, <3>1, PaymentsNear
  <2> QED
    BY <1>0, <2>3, <2>4, <2>5
<1> QED
  BY <1>1, <1>3, <1>4, <1>5, <1>6 DEF Figures

\* A figure is what its query is answered by.
LEMMA FigureIsAnswer ==
  ASSUME NEW q \in Figures
  PROVE  AnswersTo(q) = {Figure(q)}
BY DEF Figures, AnswersTo, Figure

\* While the tables stay a figure does.
LEMMA FigureStays ==
  ASSUME TablesStay, NEW q \in Figures
  PROVE  Figure(q)' = Figure(q)
BY DEF TablesStay, Figures, Figure, In, ActiveRentals, PendingRequests, Own, Rows,
       Collected, Refunded, PaymentsIn, Viewer, Shelf

\* Figures are off by what changed since.
LEMMA FiguresNearKept ==
  ASSUME ReportsTypeOK, FiguresNear, [ReportsNext]_repVars
  PROVE  FiguresNear'
<1> SUFFICES ASSUME NEW q \in Figures, Heard(q)'
             PROVE  got'[q] \in Nat /\ Differ(got[q], Figure(q), StepOf(q))'
  BY DEF FiguresNear
<1>0. Figure(q) \in Nat /\ StepOf(q) \in Nat /\ writes \in Nat /\ StepOf(q)' = StepOf(q)
  BY FigureMoves DEF ReportsTypeOK, StepOf
<1>1. CASE TablesMove
  <2>1. got' = got /\ got[q] \in Nat /\ Differ(got[q], Figure(q), StepOf(q))
    BY <1>1, HeardStays DEF FiguresNear
  <2>2. /\ Figure(q)' \in Nat /\ writes' = writes + 1
        /\ Figure(q)' <= Figure(q) + StepOf(q) /\ Figure(q) <= Figure(q)' + StepOf(q)
    BY <1>1, FigureMoves DEF TablesMove
  <2> DEFINE a == got[q]
             b == Figure(q)
             c == Figure(q)'
             d == StepOf(q)
  <2>3. /\ writes \in Nat /\ d \in Nat /\ a \in Int /\ b \in Int /\ c \in Int
        /\ c <= b + d /\ b <= c + d /\ (a - b) \in -(writes * d)..(writes * d)
    BY <1>0, <2>1, <2>2 DEF Differ
  <2> HIDE DEF a, b, c, d
  <2>4. (a - c) \in -((writes + 1) * d)..((writes + 1) * d)
    BY <2>3, DifferenceGrows
  <2> QED
    BY <1>0, <2>1, <2>2, <2>4 DEF a, c, d, Differ
<1>2. CASE PageReloads
  BY <1>2, NothingHeard
<1>3. CASE Hears
  <2>1. writes' = writes /\ Figure(q)' = Figure(q) /\ Kind' = Kind
    BY <1>3, FigureStays, SameScreen DEF Hears, TablesStay
  <2>2. q \in Queries[Kind]
    BY <2>1 DEF Heard
  <2>3. CASE Kept(q)
    BY <1>0, <2>1, <2>3 DEF Kept, FiguresNear, Differ
  <2>4. CASE News(q)
    <3>1. got'[q] = Figure(q)
      BY <2>4, FigureIsAnswer DEF News
    <3>2. (Figure(q) - Figure(q)) \in -(writes * StepOf(q))..(writes * StepOf(q))
      BY <1>0, EqualsDiffer
    <3> QED
      BY <1>0, <2>1, <3>1, <3>2 DEF Differ
  <2> QED
    BY <1>3, <2>2, <2>3, <2>4 DEF Hears
<1> QED
  BY <1>1, <1>2, <1>3, ThreeCases

\* What is answered together fails together.
LEMMA FailuresTogetherKept ==
  ASSUME ReportsTypeOK, FailuresTogether, [ReportsNext]_repVars
  PROVE  FailuresTogether'
<1> DEFINE Numeric == {"active", "pending", "revenue", "units", "rentals", "requests"}
<1>0. Failed \notin Nat /\ Failed # Missing
  BY ReportsAssumption
<1>1. Numeric \subseteq Figures
  BY DEF Figures
<1>2. CASE got' = got /\ report' = report
  BY <1>2 DEF FailuresTogether, Kind
<1>3. CASE PageReloads
  <2>1. Kind' = Kind /\ \A p \in Queries[Kind] : got'[p] = Missing
    BY <1>3, OpenQueries, SameScreen DEF PageReloads
  <2> QED
    BY <1>0, <2>1 DEF FailuresTogether
<1>4. ASSUME NEW q \in Queries[Kind], QueryAnswered(q) PROVE FailuresTogether'
  <2>1. /\ Kind' = Kind /\ got[q] = Missing /\ \A p \in Queries[Kind] \ {q} : got'[p] = got[p]
        /\ got'[q] \in AnswersTo(q)
    BY <1>4 DEF QueryAnswered, TablesStay, Kind, Answered
  <2>2. q \in Numeric => got'[q] # Failed
    BY <1>0, <1>1, <2>1, FigureIsAnswer, FigureMoves
  <2>3. ASSUME NEW n \in {"active", "pending", "revenue", "units"}, NEW p \in StatsQueries,
               {p, n} \subseteq Queries[Kind], got'[n] = Failed
        PROVE  got'[p] = Failed
    <3>1. n # q /\ got[n] = Failed
      BY <2>1, <2>2, <2>3
    <3>2. got[p] = Failed
      BY <2>3, <3>1 DEF FailuresTogether
    <3> QED
      BY <1>0, <2>1, <2>3, <3>2
  <2>4. ASSUME NEW n \in {"rentals", "requests"}, n \in Queries[Kind] PROVE got'[n] # Failed
    BY <2>1, <2>2, <2>4 DEF FailuresTogether
  <2> QED
    BY <2>1, <2>3, <2>4 DEF FailuresTogether
<1>5. ASSUME NEW qs \in FailingRequests, RequestFails(qs) PROVE FailuresTogether'
  <2>1. /\ Kind' = Kind /\ \A p \in Queries[Kind] : got'[p] = IF p \in qs THEN Failed ELSE got[p]
    BY <1>5 DEF RequestFails, TablesStay, Kind
  <2>2. qs = StatsQueries \/ qs \cap StatsQueries = {}
    BY DEF FailingRequests, StatsQueries
  <2>3. "rentals" \notin qs /\ "requests" \notin qs
    BY DEF FailingRequests, StatsQueries
  <2>4. {"active", "pending", "revenue", "units"} \subseteq StatsQueries
    BY DEF StatsQueries
  <2> QED
    BY <2>1, <2>2, <2>3, <2>4 DEF FailuresTogether
<1> QED
  BY <1>2, <1>3, <1>4, <1>5, ReportSteps DEF TablesMove, TablesStay

-----------------------------------------------------------------------------
\* Screens: lists

\* The newest rows are all of them when there are no more than are asked for,
\* and when fewer come than are asked for.
LEMMA NewestRows ==
  ASSUME NEW S, IsFiniteSet(S), S \subseteq Nat, NEW n \in Nat
  PROVE  /\ Newest(S, n) \subseteq S
         /\ Cardinality(S) <= n => Newest(S, n) = S
         /\ Cardinality(Newest(S, n)) < n => Newest(S, n) = S
<1> DEFINE N == Newest(S, n)
           After(r) == {s \in S : s > r}
<1>1. IsFiniteSet(S) /\ S \subseteq Nat /\ Cardinality(S) \in Nat
  BY FS_CardinalityType
<1>2. N = {r \in S : Cardinality(After(r)) < n} /\ N \subseteq S
  BY DEF Newest
<1>3. ASSUME NEW r \in S
      PROVE  /\ IsFiniteSet(After(r)) /\ After(r) \subseteq S
             /\ Cardinality(After(r)) \in Nat
             /\ Cardinality(After(r)) < Cardinality(S)
  <2>1. After(r) \in SUBSET (S \ {r})
    BY <1>1
  <2>2. IsFiniteSet(S \ {r}) /\ Cardinality(S \ {r}) = Cardinality(S) - 1
    BY <1>1, FS_RemoveElement
  <2>3. Cardinality(After(r)) \in Nat /\ Cardinality(After(r)) <= Cardinality(S \ {r})
    BY <2>1, <2>2, SizeOfPart
  <2>4. IsFiniteSet(After(r)) /\ After(r) \subseteq S
    BY <1>1, FS_Subset
  <2> QED
    BY <1>1, <2>2, <2>3, <2>4
<1> HIDE DEF After, N
<1>4. Cardinality(S) <= n => N = S
  <2>1. ASSUME Cardinality(S) <= n, NEW r \in S PROVE Cardinality(After(r)) < n
    BY <1>1, <1>3, <2>1
  <2> QED
    BY <1>2, <2>1
<1>5. ASSUME Cardinality(N) < n, N # S PROVE FALSE
  <2> DEFINE Rest == S \ N
  <2>1. Rest # {} /\ Rest \subseteq Nat /\ IsFiniteSet(Rest)
    BY <1>1, <1>2, <1>5, FS_Subset
  <2>2. PICK r \in Rest : \A y \in Rest : y <= r
    <3> HIDE DEF Rest
    <3> QED
      BY <2>1, MaxOfNat
  <2>3. After(r) \subseteq N
    <3>1. ASSUME NEW s \in After(r), s \notin N PROVE FALSE
      <4>1. s \in Rest /\ s > r
        BY <3>1 DEF After
      <4>2. s <= r /\ s \in Nat /\ r \in Nat
        BY <2>1, <2>2, <4>1
      <4> QED
        BY <4>1, <4>2
    <3> QED
      BY <3>1
  <2>4. IsFiniteSet(N) /\ Cardinality(N) \in Nat
    BY <1>1, <1>2, FS_Subset, FS_CardinalityType
  <2>5. Cardinality(After(r)) <= Cardinality(N) /\ Cardinality(After(r)) \in Nat
    BY <2>3, <2>4, SizeOfPart
  <2>6. ~(Cardinality(After(r)) < n) /\ r \in S
    BY <1>2, <2>2
  <2> QED
    BY <1>5, <2>4, <2>5, <2>6
<1> QED
  BY <1>2, <1>4, <1>5 DEF N

\* The rows of a list are reservations.
LEMMA ListableRows ==
  /\ Listable \subseteq Res /\ \A s : Holding(s) \in SUBSET Listable
  /\ Earning \in SUBSET Listable
  /\ Listable' \subseteq Res /\ \A s : Holding(s)' \in SUBSET Res
  /\ Earning' \in SUBSET Res
BY DEF Listable, Own, Rows, Holding, Earning

\* While the tables stay the rows do.
LEMMA ListableStays ==
  ASSUME TablesStay
  PROVE  /\ Listable' = Listable /\ Earning' = Earning
         /\ \A s : Holding(s)' = Holding(s)
BY DEF TablesStay, Listable, Own, Rows, Holding, Earning, Kind, Viewer

\* When the tables move one row does, and none leaves.
LEMMA ListableMoves ==
  ASSUME TablesMove
  PROVE  /\ Listable \subseteq Listable'
         /\ \E x \in Res : /\ \A s : Holding(s) \ {x} = Holding(s)' \ {x}
                           /\ Earning \ {x} = Earning' \ {x}
<1>1. PICK x \in Res : \A s \in Res \ {x} : resStatus'[s] = resStatus[s]
  BY OneRow
<1>2. Kind' = Kind /\ Viewer' = Viewer
  BY SameScreen
<1>3. \A r \in Res : resStatus[r] # NoStatus => resStatus'[r] # NoStatus
  BY RowsGrow
<1>4. Listable \subseteq Listable'
  BY <1>2, <1>3 DEF Listable, Own, Rows
<1>5. Listable \ {x} = Listable' \ {x} /\ Listable \subseteq Res /\ Listable' \subseteq Res
  BY <1>1, <1>2 DEF Listable, Own, Rows
<1>6. \A s : Holding(s) \ {x} = Holding(s)' \ {x}
  BY <1>1, <1>5 DEF Holding
<1>7. Earning \ {x} = Earning' \ {x}
  BY <1>1, <1>5 DEF Earning
<1> QED
  BY <1>4, <1>6, <1>7

\* A list that is read now holds part of what is there, and all of it when it
\* is not cut.
LEMMA FreshList ==
  ASSUME ReportsTypeOK, TablesStay, News("list")
  PROVE  /\ ListRows' \subseteq Listable
         /\ \A r \in ListRows' : got'["list"][r] = resStatus[r] /\ resStatus[r] \in Status
         /\ \A s : ListHolding(s)' \in SUBSET Holding(s)
         /\ ListEarning' \in SUBSET Earning
         /\ Cardinality(ListRows') < ListCap =>
              ListEarning' = Earning /\ \A s : ListHolding(s)' = Holding(s)
<1> DEFINE N == Newest(Listable, ListCap)
<1>1. got'["list"] = [r \in N |-> resStatus[r]]
  BY DEF News, AnswersTo, ListOf, Listable
<1>2. ListCap \in Nat /\ IsFiniteSet(Listable) /\ Listable \subseteq Nat
  BY ReportsAssumption, ReportConstants, ListableRows, FS_Subset
<1>3. N \subseteq Listable /\ (Cardinality(N) < ListCap => N = Listable)
  BY <1>2, NewestRows
<1> HIDE DEF N
<1>4. ListRows' = N /\ \A r \in N : got'["list"][r] = resStatus[r]
  BY <1>1 DEF ListRows
<1>5. \A r \in Listable : resStatus[r] \in Status
  BY DEF ReportsTypeOK, Listable, Own, Rows
<1>6. \A s : ListHolding(s)' = {r \in N : resStatus[r] = s}
  BY <1>4 DEF ListHolding
<1>7. ListEarning' = {r \in N : resStatus[r] \notin {"REJECTED", "CANCELLED"}}
  BY <1>4 DEF ListEarning
<1> QED
  BY <1>3, <1>4, <1>5, <1>6, <1>7 DEF Holding, Earning

\* A list is off by what changed since.
LEMMA ListNearKept ==
  ASSUME ReportsTypeOK, ListNear, [ReportsNext]_repVars
  PROVE  ListNear'
<1> SUFFICES ASSUME Heard("list")' PROVE
         /\ ListRows' \subseteq Listable'
         /\ \A r \in ListRows' : got'["list"][r] \in Status
         /\ writes' = 0 => \A r \in ListRows' : got'["list"][r] = resStatus'[r]
         /\ \A s \in Status :
              Cardinality(ListHolding(s)') <= Cardinality(Holding(s)') + writes'
         /\ Cardinality(ListRows') < ListCap =>
              /\ \A s \in Status :
                   Differ(Cardinality(ListHolding(s)), Cardinality(Holding(s)), 1)'
              /\ Differ(Sum(Price, ListEarning), Sum(Price, Earning), Largest(Price))'
  BY DEF ListNear
<1>0. writes \in Nat /\ Largest(Price) \in Nat
  BY ReportConstants DEF ReportsTypeOK
<1>1. CASE TablesMove
  <2>1. got' = got /\ Heard("list") /\ writes' = writes + 1
    BY <1>1, HeardStays DEF TablesMove
  <2>2. /\ ListRows' = ListRows /\ ListEarning' = ListEarning
        /\ \A s : ListHolding(s)' = ListHolding(s)
    BY <2>1 DEF ListRows, ListEarning, ListHolding
  <2>3. ListRows \subseteq Listable /\ \A r \in ListRows : got["list"][r] \in Status
    BY <2>1 DEF ListNear
  <2>4. Listable \subseteq Listable'
    BY <1>1, ListableMoves
  <2>5. PICK x \in Res : /\ \A s : Holding(s) \ {x} = Holding(s)' \ {x}
                         /\ Earning \ {x} = Earning' \ {x}
    BY <1>1, ListableMoves
  <2>6. ASSUME NEW s \in Status
        PROVE  /\ Cardinality(Holding(s)) \in Nat /\ Cardinality(Holding(s)') \in Nat
               /\ Cardinality(Holding(s)) <= Cardinality(Holding(s)') + 1
               /\ Cardinality(Holding(s)') <= Cardinality(Holding(s)) + 1
               /\ Cardinality(ListHolding(s)) \in Nat
    <3>1. Holding(s) \in SUBSET Res /\ Holding(s)' \in SUBSET Res
      BY ListableRows
    <3>2. ListHolding(s) \in SUBSET Res
      BY <2>3, ListableRows DEF ListHolding
    <3> QED
      BY <2>5, <3>1, <3>2, BookingsNear
  <2>7. /\ Sum(Price, Earning) \in Nat /\ Sum(Price, Earning') \in Nat
        /\ Sum(Price, Earning) <= Sum(Price, Earning') + Largest(Price)
        /\ Sum(Price, Earning') <= Sum(Price, Earning) + Largest(Price)
        /\ Sum(Price, ListEarning) \in Nat
    <3>1. Earning \in SUBSET Res /\ Earning' \in SUBSET Res
      BY ListableRows
    <3>2. ListEarning \in SUBSET Res
      BY <2>3, ListableRows DEF ListEarning
    <3> QED
      BY <2>5, <3>1, <3>2, BookingsNear
  <2>8. ASSUME NEW s \in Status
        PROVE  Cardinality(ListHolding(s)') <= Cardinality(Holding(s)') + writes'
    <3>1. Cardinality(ListHolding(s)) <= Cardinality(Holding(s)) + writes
      BY <2>1 DEF ListNear
    <3> QED
      BY <1>0, <2>1, <2>2, <2>6, <3>1
  <2>9. ASSUME Cardinality(ListRows') < ListCap
        PROVE  /\ \A s \in Status :
                    Differ(Cardinality(ListHolding(s)), Cardinality(Holding(s)), 1)'
               /\ Differ(Sum(Price, ListEarning), Sum(Price, Earning), Largest(Price))'
    <3>1. /\ \A s \in Status : Differ(Cardinality(ListHolding(s)), Cardinality(Holding(s)), 1)
          /\ Differ(Sum(Price, ListEarning), Sum(Price, Earning), Largest(Price))
      BY <2>1, <2>2, <2>9 DEF ListNear
    <3>2. ASSUME NEW s \in Status
          PROVE  Differ(Cardinality(ListHolding(s)), Cardinality(Holding(s)), 1)'
      <4> DEFINE a == Cardinality(ListHolding(s))
                 b == Cardinality(Holding(s))
                 c == Cardinality(Holding(s)')
      <4>1. /\ a \in Int /\ b \in Int /\ c \in Int /\ b <= c + 1 /\ c <= b + 1
            /\ (a - b) \in -(writes * 1)..(writes * 1)
        BY <2>6, <3>1 DEF Differ
      <4> HIDE DEF a, b, c
      <4>2. (a - c) \in -((writes + 1) * 1)..((writes + 1) * 1)
        BY <1>0, <4>1, DifferenceGrows
      <4> QED
        BY <2>1, <2>2, <4>2 DEF Differ, a, c
    <3>3. Differ(Sum(Price, ListEarning), Sum(Price, Earning), Largest(Price))'
      <4> DEFINE a == Sum(Price, ListEarning)
                 b == Sum(Price, Earning)
                 c == Sum(Price, Earning')
                 d == Largest(Price)
      <4>1. /\ a \in Int /\ b \in Int /\ c \in Int /\ b <= c + d /\ c <= b + d
            /\ d \in Nat /\ (a - b) \in -(writes * d)..(writes * d)
        BY <1>0, <2>7, <3>1 DEF Differ
      <4> HIDE DEF a, b, c, d
      <4>2. (a - c) \in -((writes + 1) * d)..((writes + 1) * d)
        BY <1>0, <4>1, DifferenceGrows
      <4> QED
        BY <2>1, <2>2, <4>2 DEF Differ, a, c, d
    <3> QED
      BY <3>2, <3>3
  <2> QED
    BY <1>0, <2>1, <2>2, <2>3, <2>4, <2>8, <2>9
<1>2. CASE PageReloads
  BY <1>2, NothingHeard
<1>3. CASE Hears
  <2>1. /\ TablesStay /\ writes' = writes /\ resStatus' = resStatus /\ Kind' = Kind
        /\ Listable' = Listable /\ Earning' = Earning /\ \A s : Holding(s)' = Holding(s)
    BY <1>3, ListableStays, SameScreen DEF Hears, TablesStay
  <2>2. Kept("list") \/ News("list")
    BY <1>3, <2>1 DEF Hears, Heard
  <2>3. CASE Kept("list")
    <3>1. /\ Heard("list") /\ ListRows' = ListRows /\ ListEarning' = ListEarning
          /\ got'["list"] = got["list"] /\ \A s : ListHolding(s)' = ListHolding(s)
      BY <2>3 DEF Kept, ListRows, ListEarning, ListHolding
    <3> QED
      BY <2>1, <3>1 DEF ListNear, Differ
  <2>4. CASE News("list")
    <3>1. /\ ListRows' \subseteq Listable
          /\ \A r \in ListRows' : got'["list"][r] = resStatus[r] /\ resStatus[r] \in Status
          /\ \A s : ListHolding(s)' \in SUBSET Holding(s)
          /\ ListEarning' \in SUBSET Earning
          /\ Cardinality(ListRows') < ListCap =>
               ListEarning' = Earning /\ \A s : ListHolding(s)' = Holding(s)
      BY <2>1, <2>4, FreshList
    <3>2. ASSUME NEW s \in Status
          PROVE  /\ Cardinality(ListHolding(s)') <= Cardinality(Holding(s)') + writes'
                 /\ Cardinality(ListRows') < ListCap =>
                      Differ(Cardinality(ListHolding(s)), Cardinality(Holding(s)), 1)'
      <4>1. Holding(s) \in SUBSET Res
        BY ListableRows
      <4>2. IsFiniteSet(Holding(s)) /\ Cardinality(Holding(s)) \in Nat
        BY <4>1, ReportConstants, FS_Subset, FS_CardinalityType
      <4>3. /\ Cardinality(ListHolding(s)') \in Nat
            /\ Cardinality(ListHolding(s)') <= Cardinality(Holding(s))
        BY <3>1, <4>2, SizeOfPart
      <4>4. (Cardinality(Holding(s)) - Cardinality(Holding(s))) \in -(writes * 1)..(writes * 1)
        BY <1>0, <4>2, EqualsDiffer
      <4> QED
        BY <1>0, <2>1, <3>1, <4>2, <4>3, <4>4 DEF Differ
    <3>3. Cardinality(ListRows') < ListCap =>
            Differ(Sum(Price, ListEarning), Sum(Price, Earning), Largest(Price))'
      <4>1. Earning \in SUBSET Res
        BY ListableRows
      <4>2. Sum(Price, Earning) \in Nat
        BY <4>1, BookingsNear
      <4>3. (Sum(Price, Earning) - Sum(Price, Earning))
              \in -(writes * Largest(Price))..(writes * Largest(Price))
        BY <1>0, <4>2, EqualsDiffer
      <4> QED
        BY <2>1, <3>1, <4>3 DEF Differ
    <3> QED
      BY <2>1, <3>1, <3>2, <3>3
  <2> QED
    BY <2>2, <2>3, <2>4
<1> QED
  BY <1>1, <1>2, <1>3, ThreeCases

\* A difference has the same size the other way round.
LEMMA DifferenceTurns ==
  ASSUME NEW w \in Nat, NEW d \in Nat, NEW a \in Int, NEW b \in Int,
         (a - b) \in -(w * d)..(w * d)
  PROVE  (b - a) \in -(w * d)..(w * d)
<1>1. PICK n \in Nat : n = w * d
  BY SMT
<1> QED
  BY <1>1

\* What the summary and the list say differs by what changed in between.
LEMMA SummaryNearKept ==
  ASSUME ReportsTypeOK, FiguresNear, ListNear, SummaryNear, [ReportsNext]_repVars
  PROVE  SummaryNear'
<1> SUFFICES ASSUME Kind' = "mine", Heard("list")'
             PROVE  /\ Heard("rentals")' =>
                         Cardinality(ListHolding("ACTIVE")') <= got'["rentals"] + writes'
                    /\ Heard("requests")' /\ Cardinality(ListRows') < ListCap =>
                         Differ(got["requests"], Cardinality(ListHolding("PENDING")), 1)'
  BY DEF SummaryNear
<1>0. writes \in Nat /\ FiguresNear' /\ ListNear' /\ {"ACTIVE", "PENDING"} \subseteq Status
  BY FiguresNearKept, ListNearKept DEF ReportsTypeOK, Status
<1>1. CASE TablesMove
  <2>1. /\ got' = got /\ Heard("list") /\ writes' = writes + 1 /\ Kind = "mine"
        /\ Heard("rentals")' = Heard("rentals") /\ Heard("requests")' = Heard("requests")
    BY <1>1, HeardStays, SameScreen DEF TablesMove
  <2>2. ListRows' = ListRows /\ \A s : ListHolding(s)' = ListHolding(s)
    BY <2>1 DEF ListRows, ListHolding
  <2>3. ASSUME NEW s \in Status PROVE Cardinality(ListHolding(s)) \in Nat
    <3>1. ListHolding(s) \in SUBSET Res
      BY <2>1, ListableRows DEF ListNear, ListHolding
    <3> QED
      BY <3>1, BookingsNear
  <2>4. ASSUME Heard("rentals")'
        PROVE  Cardinality(ListHolding("ACTIVE")') <= got'["rentals"] + writes'
    <3>1. Cardinality(ListHolding("ACTIVE")) <= got["rentals"] + writes
      BY <2>1, <2>4 DEF SummaryNear
    <3>2. got["rentals"] \in Nat
      BY <2>1, <2>4 DEF FiguresNear, Figures
    <3> QED
      BY <1>0, <2>1, <2>2, <2>3, <3>1, <3>2
  <2>5. ASSUME Heard("requests")', Cardinality(ListRows') < ListCap
        PROVE  Differ(got["requests"], Cardinality(ListHolding("PENDING")), 1)'
    <3> DEFINE a == got["requests"]
               b == Cardinality(ListHolding("PENDING"))
    <3>1. Differ(a, b, 1)
      BY <2>1, <2>2, <2>5 DEF SummaryNear
    <3>2. a \in Int /\ b \in Int /\ b <= b + 1
      BY <1>0, <2>1, <2>3, <2>5 DEF FiguresNear, Figures
    <3>3. (a - b) \in -(writes * 1)..(writes * 1)
      BY <3>1 DEF Differ
    <3> HIDE DEF a, b
    <3>4. (a - b) \in -((writes + 1) * 1)..((writes + 1) * 1)
      BY <1>0, <3>2, <3>3, DifferenceGrows
    <3> QED
      BY <2>1, <2>2, <3>4 DEF Differ, a, b
  <2> QED
    BY <2>4, <2>5
<1>2. CASE PageReloads
  BY <1>2, NothingHeard
<1>3. CASE Hears
  <2>1. /\ TablesStay /\ writes' = writes /\ Kind = "mine" /\ Viewer' = Viewer
        /\ \A s : Holding(s)' = Holding(s)
        /\ {"list", "rentals", "requests"} \subseteq Queries[Kind]
    BY <1>3, ListableStays, SameScreen DEF Hears, TablesStay, Queries
  <2>2. /\ Figure("rentals")' = ActiveRentals(Viewer)
        /\ Figure("requests")' = Cardinality(Holding("PENDING"))
        /\ ActiveRentals(Viewer) \in Nat /\ Cardinality(Holding("PENDING")) \in Nat
        /\ Cardinality(Holding("ACTIVE")) \in Nat
        /\ Cardinality(Holding("ACTIVE")) <= ActiveRentals(Viewer)
    <3>1. /\ Figure("rentals")' = Figure("rentals") /\ Figure("requests")' = Figure("requests")
          /\ Figure("rentals") \in Nat /\ Figure("requests") \in Nat
      BY <2>1, FigureStays, FigureMoves DEF Figures
    <3>2. Figure("rentals") = ActiveRentals(Viewer) /\ Figure("requests") = PendingRequests(Viewer)
      BY DEF Figure
    <3>3. PendingRequests(Viewer) = Cardinality(Holding("PENDING"))
      BY <2>1 DEF PendingRequests, Holding, Listable
    <3>4. /\ Holding("ACTIVE") \subseteq {r \in Own(Viewer) : resStatus[r] \in OUT_ON_HIRE}
          /\ {r \in Own(Viewer) : resStatus[r] \in OUT_ON_HIRE} \in SUBSET Res
      BY <2>1 DEF Holding, Listable, OUT_ON_HIRE, Own, Rows
    <3>5. IsFiniteSet({r \in Own(Viewer) : resStatus[r] \in OUT_ON_HIRE})
      BY <3>4, ReportConstants, FS_Subset
    <3>6. /\ Cardinality(Holding("ACTIVE")) \in Nat
          /\ Cardinality(Holding("ACTIVE")) <= ActiveRentals(Viewer)
      BY <3>4, <3>5, SizeOfPart DEF ActiveRentals
    <3> QED
      BY <3>1, <3>2, <3>3, <3>6
  <2>3. ASSUME News("list"), NEW s \in Status
        PROVE  /\ Cardinality(ListHolding(s)') \in Nat
               /\ Cardinality(ListHolding(s)') <= Cardinality(Holding(s))
               /\ Cardinality(ListRows') < ListCap =>
                    Cardinality(ListHolding(s)') = Cardinality(Holding(s))
    <3>1. IsFiniteSet(Holding(s))
      BY ListableRows, ReportConstants, FS_Subset
    <3>2. /\ ListHolding(s)' \in SUBSET Holding(s)
          /\ Cardinality(ListRows') < ListCap => ListHolding(s)' = Holding(s)
      BY <2>1, <2>3, FreshList
    <3> QED
      BY <3>1, <3>2, SizeOfPart
  <2>4. Kept("list") =>
          Heard("list") /\ ListRows' = ListRows /\ \A s : ListHolding(s)' = ListHolding(s)
    BY DEF Kept, ListRows, ListHolding
  <2>5. ASSUME Heard("rentals")'
        PROVE  Cardinality(ListHolding("ACTIVE")') <= got'["rentals"] + writes'
    <3>1. /\ got'["rentals"] \in Nat
          /\ (got'["rentals"] - ActiveRentals(Viewer)) \in -writes..writes
      <4>1. Differ(got["rentals"], Figure("rentals"), 1)' /\ got'["rentals"] \in Nat
        BY <1>0, <2>5 DEF FiguresNear, Figures, StepOf
      <4>2. (got'["rentals"] - ActiveRentals(Viewer)) \in -(writes * 1)..(writes * 1)
        BY <2>1, <2>2, <4>1 DEF Differ
      <4> QED
        BY <1>0, <4>1, <4>2
    <3>2. CASE News("list")
      <4>1. Cardinality(ListHolding("ACTIVE")') \in Nat
            /\ Cardinality(ListHolding("ACTIVE")') <= Cardinality(Holding("ACTIVE"))
        BY <1>0, <2>3, <3>2
      <4> QED
        BY <1>0, <2>1, <2>2, <3>1, <4>1
    <3>3. CASE News("rentals")
      <4>1. got'["rentals"] = ActiveRentals(Viewer)
        BY <3>3 DEF News, AnswersTo
      <4>2. Cardinality(ListHolding("ACTIVE")') <= Cardinality(Holding("ACTIVE")') + writes'
        BY <1>0 DEF ListNear
      <4>3. Cardinality(ListHolding("ACTIVE")') \in Nat
        <5>1. ListHolding("ACTIVE")' \in SUBSET Res
          BY <1>0, ListableRows DEF ListNear, ListHolding
        <5> QED
          BY <5>1, BookingsNear
      <4> QED
        BY <1>0, <2>1, <2>2, <4>1, <4>2, <4>3
    <3>4. CASE Kept("list") /\ Kept("rentals")
      BY <2>1, <2>4, <3>4 DEF SummaryNear, Kept
    <3> QED
      BY <1>3, <2>1, <2>5, <3>2, <3>3, <3>4 DEF Hears
  <2>6. ASSUME Heard("requests")', Cardinality(ListRows') < ListCap
        PROVE  Differ(got["requests"], Cardinality(ListHolding("PENDING")), 1)'
    <3> DEFINE a == got'["requests"]
               b == Cardinality(ListHolding("PENDING")')
               c == Cardinality(Holding("PENDING"))
    <3>1. a \in Nat /\ (a - c) \in -(writes * 1)..(writes * 1)
      BY <1>0, <2>1, <2>2, <2>6 DEF FiguresNear, Figures, StepOf, Differ
    <3>2. (b - c) \in -(writes * 1)..(writes * 1)
      BY <1>0, <2>1, <2>6 DEF ListNear, Differ
    <3>3. b \in Nat /\ c \in Nat
      <4>1. ListHolding("PENDING")' \in SUBSET Res
        BY <1>0, ListableRows DEF ListNear, ListHolding
      <4> QED
        BY <2>2, <4>1, BookingsNear
    <3>4. CASE News("list")
      <4>1. b = c
        BY <1>0, <2>3, <2>6, <3>4
      <4> QED
        BY <2>1, <3>1, <4>1 DEF Differ
    <3>5. CASE News("requests")
      <4>1. a = c
        BY <2>2, <2>1, <3>5, FigureIsAnswer, FigureStays DEF News, Figures
      <4> HIDE DEF a, b, c
      <4>2. (c - b) \in -(writes * 1)..(writes * 1)
        BY <1>0, <3>2, <3>3, DifferenceTurns
      <4> QED
        BY <2>1, <4>1, <4>2 DEF Differ, a, b, c
    <3>6. CASE Kept("list") /\ Kept("requests")
      BY <2>1, <2>4, <2>6, <3>6 DEF SummaryNear, Kept, Differ
    <3> QED
      BY <1>3, <2>1, <2>6, <3>4, <3>5, <3>6 DEF Hears
  <2> QED
    BY <2>5, <2>6
<1> QED
  BY <1>1, <1>2, <1>3, ThreeCases

-----------------------------------------------------------------------------
\* Screens: the stock

\* How far a set of products is from the low ones among some in stock
LEMMA ApartMoves ==
  ASSUME ReportsTypeOK, NEW a \in SUBSET Shelf, NEW C \in SUBSET Shelf
  PROVE  /\ Cardinality(Apart(a, LowNow \cap C)) \in Nat
         /\ TablesMove => /\ Cardinality(Apart(a, LowNow' \cap C)) \in Nat
                          /\ Cardinality(Apart(a, LowNow' \cap C))
                               <= Cardinality(Apart(a, LowNow \cap C)) + 1
<1>0. IsFiniteSet(Shelf)
  BY StockMoves
<1>1. Apart(a, LowNow \cap C) \in SUBSET Shelf /\ Apart(a, LowNow' \cap C) \in SUBSET Shelf
  BY DEF Apart
<1>2. /\ Cardinality(Apart(a, LowNow \cap C)) \in Nat
      /\ Cardinality(Apart(a, LowNow' \cap C)) \in Nat
  BY <1>0, <1>1, SizeOfPart
<1>3. ASSUME TablesMove
      PROVE  Cardinality(Apart(a, LowNow' \cap C)) <= Cardinality(Apart(a, LowNow \cap C)) + 1
  <2>1. CASE stock' = stock
    <3>1. LowNow' = LowNow
      BY <2>1 DEF LowNow, Shelf
    <3> QED
      BY <1>2, <3>1
  <2>2. ASSUME NEW x \in Shelf, StockChanges(x)
        PROVE  Cardinality(Apart(a, LowNow' \cap C)) <= Cardinality(Apart(a, LowNow \cap C)) + 1
    <3>1. LowNow' \ {x} = LowNow \ {x}
      <4>1. Shelf' = Shelf /\ \A p \in Shelf \ {x} : stock'[p] = stock[p]
        BY <1>3, <2>2, StockMoves DEF StockChanges
      <4> QED
        BY <4>1 DEF LowNow
    <3>2. Apart(a, LowNow \cap C) \ {x} = Apart(a, LowNow' \cap C) \ {x}
      BY <3>1 DEF Apart
    <3> QED
      BY <1>0, <1>1, <3>2, SizeNear
  <2> QED
    BY <1>3, <2>1, <2>2 DEF TablesMove, RowChanges, PayChanges
<1> QED
  BY <1>2, <1>3

\* A set is not apart from itself, and the order does not matter.
LEMMA ApartSame ==
  ASSUME NEW a, NEW b
  PROVE  Cardinality(Apart(a, a)) = 0 /\ Apart(a, b) = Apart(b, a)
<1>1. Apart(a, a) = {} /\ Apart(a, b) = Apart(b, a)
  BY DEF Apart
<1> QED
  BY <1>1, FS_EmptySet

\* The products that the page's request of the catalogue is answered with
LEMMA CatalogRows ==
  ASSUME ReportsTypeOK
  PROVE  /\ Newest(Shelf, ListCap) \in SUBSET Shelf
         /\ Cardinality(Newest(Shelf, ListCap)) < ListCap => Newest(Shelf, ListCap) = Shelf
<1>1. IsFiniteSet(Shelf) /\ Shelf \subseteq Nat /\ ListCap \in Nat
  BY StockMoves, ReportConstants, ReportsAssumption DEF ReportsTypeOK
<1> QED
  BY <1>1, NewestRows

\* A catalogue that is read now
LEMMA FreshCatalog ==
  ASSUME ReportsTypeOK, TablesStay, News("catalog")
  PROVE  /\ Listed' = Newest(Shelf, ListCap) /\ got'["catalog"] \in [Listed' -> Stocks]
         /\ LowListed' = LowNow \cap Listed'
         /\ ListedUnits' = Sum(stock, Listed')
<1> DEFINE N == Newest(Shelf, ListCap)
<1>1. got'["catalog"] = [p \in N |-> stock[p]]
  BY DEF News, AnswersTo, CatalogPage
<1>2. N \in SUBSET Shelf
  BY CatalogRows
<1>3. IsFiniteSet(N) /\ \A p \in N : stock[p] \in Stocks /\ stock[p] \in Nat
  BY <1>2, StockMoves, ReportConstants, FS_Subset DEF ReportsTypeOK
<1> HIDE DEF N
<1>4. Listed' = N /\ \A p \in N : got'["catalog"][p] = stock[p]
  BY <1>1 DEF Listed
<1>5. LowListed' = LowNow \cap N
  BY <1>2, <1>4 DEF LowListed, LowNow
<1>6. PICK g : g = got'["catalog"]
  OBVIOUS
<1>7. SumOver(g, N) = SumOver(stock, N)
  <2>1. \A p \in N : g[p] \in Nat /\ g[p] = stock[p]
    BY <1>3, <1>4, <1>6
  <2> QED
    BY <1>3, <2>1, SumOfSame
<1>8. Sum(g, N) = Sum(stock, N)
  BY <1>7, SumIs
<1>9. ListedUnits' = Sum(g, N)
  BY <1>4, <1>6 DEF ListedUnits
<1>10. got'["catalog"] \in [N -> Stocks]
  BY <1>1, <1>3
<1> QED
  BY <1>4, <1>5, <1>8, <1>9, <1>10 DEF N

\* What the page counts of a catalogue is a whole number.
LEMMA ListedIsNat ==
  ASSUME ReportsTypeOK, NEW g, NEW C \in SUBSET Shelf, g \in [C -> Stocks]
  PROVE  Sum(g, C) \in Nat
<1>1. IsFiniteSet(C) /\ \A p \in C : g[p] \in Nat
  BY StockMoves, ReportConstants, FS_Subset
<1> QED
  BY <1>1, SumIs, SumOfNats

\* The figures of one catalogue differ by what changed in between.
LEMMA StockNearKept ==
  ASSUME ReportsTypeOK, FiguresNear, StockNear, [ReportsNext]_repVars
  PROVE  StockNear'
<1> DEFINE M == Max(Stocks)
<1>0. writes \in Nat /\ M \in Nat /\ FiguresNear' /\ IsFiniteSet(Shelf)
  BY ReportConstants, FiguresNearKept, StockMoves DEF ReportsTypeOK
<1>1. CASE TablesMove
  <2>1. /\ got' = got /\ writes' = writes + 1 /\ Shelf' = Shelf
        /\ \A q : Heard(q)' = Heard(q)
    BY <1>1, HeardStays, StockMoves DEF TablesMove
  <2>2. PICK C, L, b : C = Listed /\ L = LowListed /\ b = ListedUnits
    OBVIOUS
  <2>3. Listed' = C /\ LowListed' = L /\ ListedUnits' = b
    BY <2>1, <2>2 DEF Listed, LowListed, ListedUnits
  <2>4. ASSUME Heard("low")
        PROVE  got["low"] \subseteq Shelf /\ Cardinality(Apart(got["low"], LowNow')) <= writes + 1
    <3>1. got["low"] \subseteq Shelf /\ Cardinality(Apart(got["low"], LowNow)) <= writes
      BY <2>4 DEF StockNear
    <3>2. LowNow \cap Shelf = LowNow /\ LowNow' \cap Shelf = LowNow'
      BY <2>1 DEF LowNow
    <3>3. PICK low : low = got["low"]
      OBVIOUS
    <3>4. /\ Cardinality(Apart(low, LowNow)) \in Nat
          /\ Cardinality(Apart(low, LowNow')) \in Nat
          /\ Cardinality(Apart(low, LowNow')) <= Cardinality(Apart(low, LowNow)) + 1
      BY <1>1, <3>1, <3>2, <3>3, ApartMoves
    <3> QED
      BY <1>0, <3>1, <3>3, <3>4
  <2>5. ASSUME Heard("catalog")
        PROVE  /\ C = Newest(Shelf, ListCap) /\ got["catalog"] \in [C -> Stocks]
               /\ C \in SUBSET Shelf /\ L \in SUBSET Shelf /\ b \in Nat
               /\ Cardinality(Apart(L, LowNow' \cap C)) <= writes + 1
               /\ (b - Sum(stock', C)) \in -((writes + 1) * M)..((writes + 1) * M)
    <3>1. /\ C = Newest(Shelf, ListCap) /\ got["catalog"] \in [C -> Stocks]
          /\ Cardinality(Apart(L, LowNow \cap C)) <= writes
          /\ (b - Sum(stock, C)) \in -(writes * M)..(writes * M)
      BY <2>2, <2>5 DEF StockNear, Differ
    <3>2. C \in SUBSET Shelf /\ L \in SUBSET Shelf
      BY <2>2, <3>1, CatalogRows DEF LowListed
    <3>3. b \in Nat
      BY <2>2, <3>1, <3>2, ListedIsNat DEF ListedUnits
    <3>4. /\ Cardinality(Apart(L, LowNow \cap C)) \in Nat
          /\ Cardinality(Apart(L, LowNow' \cap C)) \in Nat
          /\ Cardinality(Apart(L, LowNow' \cap C)) <= Cardinality(Apart(L, LowNow \cap C)) + 1
      BY <1>1, <3>2, ApartMoves
    <3> DEFINE e == Sum(stock, C)
               f == Sum(stock', C)
    <3>5. e \in Int /\ f \in Int /\ f <= e + M /\ e <= f + M
      BY <1>1, <3>2, StockMoves
    <3> HIDE DEF e, f, M
    <3>6. (b - f) \in -((writes + 1) * M)..((writes + 1) * M)
      <4>1. (b - e) \in -(writes * M)..(writes * M)
        BY <3>1 DEF e
      <4> QED
        BY <1>0, <3>3, <3>5, <4>1, DifferenceGrows
    <3> QED
      BY <1>0, <3>1, <3>2, <3>3, <3>4, <3>6 DEF f
  <2>6. ASSUME Heard("low"), Heard("catalog")
        PROVE  Cardinality(Apart(got["low"] \cap C, L)) <= writes + 1
    <3>1. Cardinality(Apart(got["low"] \cap C, L)) <= writes
      BY <2>2, <2>6 DEF StockNear
    <3>2. Apart(got["low"] \cap C, L) \in SUBSET Shelf
      BY <2>5, <2>6 DEF Apart
    <3>3. Cardinality(Apart(got["low"] \cap C, L)) \in Nat
      BY <1>0, <3>2, SizeOfPart
    <3> QED
      BY <1>0, <3>1, <3>3
  <2>7. ASSUME Heard("units"), Heard("catalog")
        PROVE  /\ b <= got["units"] + (writes + 1) * M
               /\ C = Shelf => (got["units"] - b) \in -((writes + 1) * M)..((writes + 1) * M)
    <3> DEFINE a == got["units"]
    <3>1. /\ b <= a + writes * M
          /\ C = Shelf => (a - b) \in -(writes * M)..(writes * M)
          /\ a \in Int /\ b \in Int /\ b <= b + M /\ a <= a + M
      BY <1>0, <2>2, <2>5, <2>7 DEF StockNear, Differ, FiguresNear, Figures
    <3> HIDE DEF a, M
    <3>2. b <= a + (writes + 1) * M
      BY <1>0, <3>1, ExcessGrows
    <3>3. C = Shelf => (a - b) \in -((writes + 1) * M)..((writes + 1) * M)
      BY <1>0, <3>1, DifferenceGrows
    <3> QED
      BY <3>2, <3>3 DEF a
  <2>8. (Heard("low") => /\ got["low"] \subseteq Shelf
                         /\ Cardinality(Apart(got["low"], LowNow)) <= writes)'
    BY <2>1, <2>4
  <2>9. (Heard("catalog") =>
           /\ Listed = Newest(Shelf, ListCap) /\ got["catalog"] \in [Listed -> Stocks]
           /\ Cardinality(Apart(LowListed, LowNow \cap Listed)) <= writes
           /\ Differ(ListedUnits, Sum(stock, Listed), Max(Stocks)))'
    <3>1. Newest(Shelf, ListCap)' = Newest(Shelf, ListCap)
      BY <2>1 DEF Newest
    <3> QED
      BY <2>1, <2>3, <2>5, <3>1 DEF Differ
  <2>10. (Heard("low") /\ Heard("catalog") =>
            Cardinality(Apart(got["low"] \cap Listed, LowListed)) <= writes)'
    BY <2>1, <2>3, <2>6
  <2>11. (Heard("units") /\ Heard("catalog") =>
            /\ ListedUnits <= got["units"] + writes * Max(Stocks)
            /\ Listed = Shelf => Differ(got["units"], ListedUnits, Max(Stocks)))'
    BY <2>1, <2>3, <2>7 DEF Differ
  <2> QED
    BY <2>8, <2>9, <2>10, <2>11 DEF StockNear
<1>2. CASE PageReloads
  BY <1>2, NothingHeard DEF StockNear
<1>3. CASE Hears
  <2>1. /\ writes' = writes /\ stock' = stock /\ LowNow' = LowNow /\ Shelf' = Shelf
        /\ TablesStay /\ Newest(Shelf, ListCap)' = Newest(Shelf, ListCap)
        /\ \A q : Heard(q)' => Kept(q) \/ News(q)
    BY <1>3, SameScreen DEF Hears, TablesStay, LowNow, Heard, Shelf, Newest
  <2>2. PICK C, L, b : C = Listed' /\ L = LowListed' /\ b = ListedUnits'
    OBVIOUS
  <2> DEFINE e == Sum(stock, C)
             all == Sum(stock, Shelf)
  <2>3. /\ Kept("catalog") => /\ Heard("catalog") /\ C = Listed /\ L = LowListed
                              /\ b = ListedUnits /\ got'["catalog"] = got["catalog"]
        /\ News("catalog") => /\ C = Newest(Shelf, ListCap) /\ got'["catalog"] \in [C -> Stocks]
                              /\ L = LowNow \cap C /\ b = e
        /\ News("low") => got'["low"] = LowNow
        /\ News("units") => got'["units"] = all
    <3>1. Kept("catalog") => /\ Heard("catalog") /\ C = Listed /\ L = LowListed
                             /\ b = ListedUnits /\ got'["catalog"] = got["catalog"]
      BY <2>2 DEF Kept, Listed, LowListed, ListedUnits
    <3>2. News("catalog") => /\ C = Newest(Shelf, ListCap) /\ got'["catalog"] \in [C -> Stocks]
                             /\ L = LowNow \cap C /\ b = e
      BY <2>1, <2>2, FreshCatalog
    <3>3. News("low") => got'["low"] = LowNow
      BY DEF News, AnswersTo, LowNow
    <3>4. News("units") => got'["units"] = all
      BY DEF News, AnswersTo
    <3> QED
      BY <3>1, <3>2, <3>3, <3>4
  <2>4. ASSUME Heard("low")'
        PROVE  got'["low"] \subseteq Shelf /\ Cardinality(Apart(got'["low"], LowNow)) <= writes
    <3>1. CASE Kept("low")
      BY <3>1 DEF Kept, StockNear
    <3>2. CASE News("low")
      <4>1. Cardinality(Apart(LowNow, LowNow)) = 0 /\ LowNow \subseteq Shelf
        BY ApartSame DEF LowNow
      <4> QED
        BY <1>0, <2>3, <3>2, <4>1
    <3> QED
      BY <2>1, <2>4, <3>1, <3>2
  <2>5. ASSUME Heard("catalog")'
        PROVE  /\ C = Newest(Shelf, ListCap) /\ got'["catalog"] \in [C -> Stocks]
               /\ C \in SUBSET Shelf /\ L \in SUBSET Shelf
               /\ b \in Nat /\ e \in Nat /\ all \in Nat /\ e <= all
               /\ Cardinality(Apart(L, LowNow \cap C)) <= writes
               /\ (b - e) \in -(writes * M)..(writes * M)
    <3>1. C = Newest(Shelf, ListCap) /\ got'["catalog"] \in [C -> Stocks]
      BY <2>1, <2>3, <2>5 DEF StockNear
    <3>2. C \in SUBSET Shelf /\ L \in SUBSET Shelf
      BY <2>2, <3>1, CatalogRows DEF LowListed, Listed
    <3>3. b \in Nat
      <4>1. PICK g : g = got'["catalog"]
        OBVIOUS
      <4>2. b = Sum(g, C)
        BY <2>2, <4>1 DEF ListedUnits, Listed
      <4> QED
        BY <3>1, <3>2, <4>1, <4>2, ListedIsNat
    <3>4. e \in Nat /\ all \in Nat /\ e <= all
      <4>1. \A p \in Shelf : stock[p] \in Nat
        BY ReportConstants DEF ReportsTypeOK
      <4>2. SumOver(stock, C) <= SumOver(stock, Shelf)
        BY <1>0, <3>2, <4>1, SumOfPart
      <4> QED
        BY <3>2, <4>2, StockMoves, SumIs
    <3>5. CASE Kept("catalog")
      BY <2>3, <3>1, <3>2, <3>3, <3>4, <3>5 DEF StockNear, Differ
    <3>6. CASE News("catalog")
      <4>1. Cardinality(Apart(L, LowNow \cap C)) = 0
        BY <2>3, <3>6, ApartSame
      <4>2. (b - e) \in -(writes * M)..(writes * M)
        <5> HIDE DEF M
        <5> QED
          BY <1>0, <2>3, <3>3, <3>6, EqualsDiffer
      <4> QED
        BY <1>0, <3>1, <3>2, <3>3, <3>4, <4>1, <4>2
    <3> QED
      BY <2>1, <2>5, <3>5, <3>6
  <2>6. ASSUME Heard("low")', Heard("catalog")'
        PROVE  Cardinality(Apart(got'["low"] \cap C, L)) <= writes
    <3>1. CASE Kept("low") /\ Kept("catalog")
      BY <2>3, <3>1 DEF Kept, StockNear
    <3>2. CASE News("low")
      <4>1. Apart(got'["low"] \cap C, L) = Apart(L, LowNow \cap C)
        BY <2>3, <3>2, ApartSame
      <4> QED
        BY <2>5, <2>6, <4>1
    <3>3. CASE News("catalog")
      <4>1. Apart(got'["low"] \cap C, L) \subseteq Apart(got'["low"], LowNow)
        BY <2>3, <3>3 DEF Apart
      <4>2. Apart(got'["low"], LowNow) \in SUBSET Shelf
        BY <2>4, <2>6 DEF Apart, LowNow
      <4>3. IsFiniteSet(Apart(got'["low"], LowNow))
        BY <1>0, <4>2, FS_Subset
      <4>4. /\ Cardinality(Apart(got'["low"] \cap C, L)) \in Nat
            /\ Cardinality(Apart(got'["low"], LowNow)) \in Nat
            /\ Cardinality(Apart(got'["low"] \cap C, L)) <= Cardinality(Apart(got'["low"], LowNow))
        BY <4>1, <4>3, SizeOfPart, FS_CardinalityType
      <4> QED
        BY <1>0, <2>4, <2>6, <4>4
    <3> QED
      BY <2>1, <2>6, <3>1, <3>2, <3>3
  <2>7. ASSUME Heard("units")', Heard("catalog")'
        PROVE  /\ b <= got'["units"] + writes * M
               /\ C = Shelf => (got'["units"] - b) \in -(writes * M)..(writes * M)
    <3> DEFINE a == got'["units"]
    <3>1. /\ b \in Nat /\ e \in Nat /\ all \in Nat /\ e <= all
          /\ (b - e) \in -(writes * M)..(writes * M)
      BY <2>5, <2>7
    <3>2. a \in Nat /\ (a - all) \in -(writes * M)..(writes * M)
      <4>1. a \in Nat /\ Differ(got["units"], Figure("units"), StepOf("units"))'
        BY <1>0, <2>7 DEF FiguresNear, Figures
      <4>2. Figure("units")' = all /\ StepOf("units")' = M
        BY <2>1 DEF Figure, StepOf
      <4> QED
        BY <2>1, <4>1, <4>2 DEF Differ
    <3>3. CASE Kept("units") /\ Kept("catalog")
      BY <2>3, <3>3 DEF Kept, StockNear, Differ
    <3>4. ASSUME C = Shelf PROVE e = all
      BY <3>4
    <3>5. PICK m \in Nat : m = writes * M
      <4> HIDE DEF M
      <4> QED
        BY <1>0, EqualsDiffer
    <3>6. CASE News("units")
      <4>1. a = all
        BY <2>3, <3>6
      <4> HIDE DEF a, all, e
      <4> QED
        BY <3>1, <3>4, <3>5, <4>1 DEF a
    <3>7. CASE News("catalog")
      <4>1. b = e
        BY <2>3, <3>7
      <4> HIDE DEF a, all, e
      <4> QED
        BY <3>1, <3>2, <3>4, <3>5, <4>1 DEF a
    <3> QED
      BY <2>1, <2>7, <3>3, <3>6, <3>7
  <2>8. (Heard("low") => /\ got["low"] \subseteq Shelf
                         /\ Cardinality(Apart(got["low"], LowNow)) <= writes)'
    BY <2>1, <2>4
  <2>9. (Heard("catalog") =>
           /\ Listed = Newest(Shelf, ListCap) /\ got["catalog"] \in [Listed -> Stocks]
           /\ Cardinality(Apart(LowListed, LowNow \cap Listed)) <= writes
           /\ Differ(ListedUnits, Sum(stock, Listed), Max(Stocks)))'
    BY <2>1, <2>2, <2>5 DEF Differ
  <2>10. (Heard("low") /\ Heard("catalog") =>
            Cardinality(Apart(got["low"] \cap Listed, LowListed)) <= writes)'
    BY <2>1, <2>2, <2>6
  <2>11. (Heard("units") /\ Heard("catalog") =>
            /\ ListedUnits <= got["units"] + writes * Max(Stocks)
            /\ Listed = Shelf => Differ(got["units"], ListedUnits, Max(Stocks)))'
    BY <2>1, <2>2, <2>7 DEF Differ
  <2> QED
    BY <2>8, <2>9, <2>10, <2>11 DEF StockNear
<1> QED
  BY <1>1, <1>2, <1>3, ThreeCases

-----------------------------------------------------------------------------
\* Screens: payments

\* The payments of some statuses, and how they move
LEMMA PaymentsMove ==
  ASSUME ReportsTypeOK, NEW S
  PROVE  /\ Cardinality(PaymentsIn(S)) \in Nat /\ Sum(Due, PaymentsIn(S)) \in Nat
         /\ TablesStay => PaymentsIn(S)' = PaymentsIn(S)
         /\ TablesMove => /\ Cardinality(PaymentsIn(S)') \in Nat
                          /\ Cardinality(PaymentsIn(S)') <= Cardinality(PaymentsIn(S)) + 1
                          /\ Cardinality(PaymentsIn(S)) <= Cardinality(PaymentsIn(S)') + 1
                          /\ Sum(Due, PaymentsIn(S)') \in Nat
                          /\ Sum(Due, PaymentsIn(S)')
                               <= Sum(Due, PaymentsIn(S)) + Largest(Due)
                          /\ Sum(Due, PaymentsIn(S))
                               <= Sum(Due, PaymentsIn(S)') + Largest(Due)
<1> DEFINE A == {p \in Pays : pay[p] \in S}
           B == {p \in Pays : pay'[p] \in S}
<1>1. PaymentsIn(S) = A /\ PaymentsIn(S)' = B
  BY DEF PaymentsIn
<1>2. A \in SUBSET Pays /\ B \in SUBSET Pays
  OBVIOUS
<1>3. TablesMove => \E x \in Pays : A \ {x} = B \ {x}
  BY OneRow
<1>4. TablesStay => B = A
  BY DEF TablesStay
<1> HIDE DEF A, B
<1>5. Cardinality(A) \in Nat /\ Sum(Due, A) \in Nat
  BY <1>2, PaymentsNear
<1>6. ASSUME TablesMove
      PROVE  /\ Cardinality(B) \in Nat
             /\ Cardinality(B) <= Cardinality(A) + 1 /\ Cardinality(A) <= Cardinality(B) + 1
             /\ Sum(Due, B) \in Nat
             /\ Sum(Due, B) <= Sum(Due, A) + Largest(Due)
             /\ Sum(Due, A) <= Sum(Due, B) + Largest(Due)
  <2>1. PICK x \in Pays : A \ {x} = B \ {x}
    BY <1>3, <1>6
  <2> QED
    BY <1>2, <2>1, PaymentsNear
<1> QED
  BY <1>1, <1>4, <1>5, <1>6

\* What has been taken is what has been kept and what has been given back.
LEMMA TakenIsBoth ==
  ASSUME ReportsTypeOK
  PROVE  Sum(Due, PaymentsIn({"PAID", "REFUNDED"})) = Collected + Refunded
<1> DEFINE A == PaymentsIn({"PAID"})
           B == PaymentsIn({"REFUNDED"})
<1>1. /\ PaymentsIn({"PAID", "REFUNDED"}) = A \cup B /\ A \cap B = {}
      /\ A \in SUBSET Pays /\ B \in SUBSET Pays
  BY DEF PaymentsIn
<1> HIDE DEF A, B
<1>2. /\ IsFiniteSet(A) /\ IsFiniteSet(B) /\ \A r \in A \cup B : Due[r] \in Nat
  BY <1>1, ReportConstants, FS_Subset
<1>3. SumOver(Due, A \cup B) = SumOver(Due, A) + SumOver(Due, B)
  BY <1>1, <1>2, SumOfUnion
<1> QED
  BY <1>1, <1>3, SumIs DEF Collected, Refunded, A, B

\* The tabs add up to the rows, when they are counted at once.
LEMMA TabsAddUp ==
  ASSUME ReportsTypeOK
  PROVE  /\ DOMAIN Tabs = Statuses /\ \A s \in Statuses : Tabs[s] \in Nat
         /\ Sum(Tabs, Statuses) = Cardinality(PaymentsIn(Statuses))
<1> DEFINE S == PaymentsIn(Statuses)
           ones == [r \in Pays |-> 1]
           part == [s \in Statuses |-> SumOver(ones, {r \in S : pay[r] = s})]
<1>1. S \in SUBSET Pays /\ \A r \in S : pay[r] \in Statuses /\ ones[r] \in Nat
  BY DEF PaymentsIn
<1>2. IsFiniteSet(S) /\ IsFiniteSet(Statuses)
  <2>1. IsFiniteSet(S)
    BY <1>1, ReportConstants, FS_Subset
  <2>2. IsFiniteSet({"PAID"} \cup {"FAILED"} \cup {"REFUNDED"})
    BY FS_Singleton, FS_Union
  <2>3. {"PAID"} \cup {"FAILED"} \cup {"REFUNDED"} = Statuses
    BY DEF Statuses
  <2> QED
    BY <2>1, <2>2, <2>3
<1>3. SumOver(ones, S) = Cardinality(S)
  BY <1>1, <1>2, SumOfOnes
<1>4. ASSUME NEW s \in Statuses
      PROVE  part[s] = Cardinality(PaymentsIn({s})) /\ part[s] \in Nat
  <2> DEFINE P == {r \in S : pay[r] = s}
  <2>1. P = PaymentsIn({s}) /\ P \in SUBSET Pays
    BY <1>4 DEF PaymentsIn
  <2>2. IsFiniteSet(P) /\ \A r \in P : ones[r] = 1
    BY <2>1, ReportConstants, FS_Subset
  <2>3. part[s] = SumOver(ones, P)
    BY <1>4
  <2> HIDE DEF P, part, ones
  <2>4. SumOver(ones, P) = Cardinality(P)
    BY <2>2, SumOfOnes
  <2> QED
    BY <2>1, <2>2, <2>3, <2>4, FS_CardinalityType
<1>5. SumOver(part, Statuses) = SumOver(ones, S)
  <2> HIDE DEF S, ones
  <2> QED
    BY <1>1, <1>2, SumByKey
<1> HIDE DEF S, ones, part
<1>6. Tabs = [s \in Statuses |-> Cardinality(PaymentsIn({s}))]
  BY DEF Tabs, Statuses
<1>7. \A s \in Statuses : Tabs[s] = part[s] /\ Tabs[s] \in Nat
  BY <1>4, <1>6
<1>8. SumOver(Tabs, Statuses) = SumOver(part, Statuses)
  BY <1>2, <1>7, SumOfSame
<1>9. Sum(Tabs, Statuses) = SumOver(Tabs, Statuses)
  BY SumIs
<1> QED
  BY <1>3, <1>5, <1>6, <1>7, <1>8, <1>9 DEF S

\* The figures of the till differ by what changed in between.
LEMMA TillNearKept ==
  ASSUME ReportsTypeOK, FiguresNear, TillNear, [ReportsNext]_repVars
  PROVE  TillNear'
<1> DEFINE Taken == Sum(Due, PaymentsIn({"PAID", "REFUNDED"}))
           All   == Cardinality(PaymentsIn(Statuses))
           L     == Largest(Due)
<1>0. /\ writes \in Nat /\ L \in Nat /\ FiguresNear' /\ Taken \in Nat /\ All \in Nat
      /\ Taken = Collected + Refunded /\ Collected \in Nat /\ Refunded \in Nat
  BY ReportConstants, FiguresNearKept, PaymentsMove, TakenIsBoth
     DEF ReportsTypeOK, Collected, Refunded
<1>1. CASE TablesMove
  <2>1. got' = got /\ writes' = writes + 1 /\ \A q : Heard(q)' = Heard(q)
    BY <1>1, HeardStays DEF TablesMove
  <2> DEFINE late == Taken'
             many == All'
  <2>2. /\ late \in Nat /\ late <= Taken + L /\ Taken <= late + L
        /\ many \in Nat /\ many <= All + 1 /\ All <= many + 1
    BY <1>1, PaymentsMove
  <2>3. ASSUME Heard("tabs")
        PROVE  /\ DOMAIN got["tabs"] = Statuses /\ \A s \in Statuses : got["tabs"][s] \in Nat
               /\ Sum(got["tabs"], Statuses) \in Nat
    <3>1. DOMAIN got["tabs"] = Statuses /\ \A s \in Statuses : got["tabs"][s] \in Nat
      BY <2>3 DEF TillNear
    <3>2. IsFiniteSet(Statuses)
      <4>1. IsFiniteSet({"PAID"} \cup {"FAILED"} \cup {"REFUNDED"})
        BY FS_Singleton, FS_Union
      <4>2. {"PAID"} \cup {"FAILED"} \cup {"REFUNDED"} = Statuses
        BY DEF Statuses
      <4> QED
        BY <4>1, <4>2
    <3> QED
      BY <3>1, <3>2, SumIs, SumOfNats
  <2>4. ASSUME Heard("collected"), Heard("refunded")
        PROVE  ((got["collected"] + got["refunded"]) - late)
                 \in -((writes + 1) * L)..((writes + 1) * L)
    <3> DEFINE a == got["collected"] + got["refunded"]
    <3>1. a \in Int
      BY <2>4 DEF FiguresNear, Figures
    <3>2. (a - Taken) \in -(writes * L)..(writes * L)
      BY <2>4 DEF TillNear, Differ
    <3> HIDE DEF a, Taken, L, late
    <3>3. (a - late) \in -((writes + 1) * L)..((writes + 1) * L)
      BY <1>0, <2>2, <3>1, <3>2, DifferenceGrows
    <3> QED
      BY <3>3 DEF a, L, late, Taken
  <2>5. ASSUME Heard("tabs")
        PROVE  (Sum(got["tabs"], Statuses) - many) \in -((writes + 1) * 1)..((writes + 1) * 1)
    <3> DEFINE a == Sum(got["tabs"], Statuses)
    <3>1. (a - All) \in -(writes * 1)..(writes * 1) /\ a \in Int
      BY <2>3, <2>5 DEF TillNear, Differ
    <3> HIDE DEF a, All, many
    <3>2. (a - many) \in -((writes + 1) * 1)..((writes + 1) * 1)
      BY <1>0, <2>2, <3>1, DifferenceGrows
    <3> QED
      BY <3>2 DEF a
  <2>6. ASSUME Heard("tabs"), Heard("rows")
        PROVE  (got["rows"] - Sum(got["tabs"], Statuses))
                 \in -((writes + 1) * 1)..((writes + 1) * 1)
    <3> DEFINE a == got["rows"]
               b == Sum(got["tabs"], Statuses)
    <3>1. (a - b) \in -(writes * 1)..(writes * 1) /\ a \in Int /\ b \in Int /\ b <= b + 1
      BY <2>3, <2>6 DEF TillNear, Differ, FiguresNear, Figures
    <3> HIDE DEF a, b
    <3>2. (a - b) \in -((writes + 1) * 1)..((writes + 1) * 1)
      BY <1>0, <3>1, DifferenceGrows
    <3> QED
      BY <3>2 DEF a, b
  <2>7. (Heard("collected") /\ Heard("refunded") =>
           Differ(got["collected"] + got["refunded"],
                  Sum(Due, PaymentsIn({"PAID", "REFUNDED"})), Largest(Due)))'
    BY <2>1, <2>4 DEF Differ
  <2>8. (Heard("tabs") =>
           /\ DOMAIN got["tabs"] = Statuses /\ \A s \in Statuses : got["tabs"][s] \in Nat
           /\ Differ(Sum(got["tabs"], Statuses), Cardinality(PaymentsIn(Statuses)), 1))'
    BY <2>1, <2>3, <2>5 DEF Differ
  <2>9. (Heard("tabs") /\ Heard("rows") =>
           Differ(got["rows"], Sum(got["tabs"], Statuses), 1))'
    BY <2>1, <2>6 DEF Differ
  <2> QED
    BY <2>7, <2>8, <2>9 DEF TillNear
<1>2. CASE PageReloads
  BY <1>2, NothingHeard DEF TillNear
<1>3. CASE Hears
  <2>1. /\ writes' = writes /\ Taken' = Taken /\ All' = All /\ TablesStay
        /\ \A q : Heard(q)' => Kept(q) \/ News(q)
    BY <1>3, PaymentsMove, SameScreen DEF Hears, TablesStay, Heard
  <2>2. /\ Figure("collected")' = Collected /\ Figure("refunded")' = Refunded
        /\ Figure("rows")' = All /\ StepOf("collected")' = L /\ StepOf("refunded")' = L
        /\ StepOf("rows")' = 1
    BY <2>1, FigureStays DEF Figures, Figure, StepOf, Statuses
  <2>3. /\ News("collected") => got'["collected"] = Collected
        /\ News("refunded") => got'["refunded"] = Refunded
        /\ News("rows") => got'["rows"] = All
        /\ News("tabs") => got'["tabs"] = Tabs
    BY DEF News, AnswersTo, Statuses
  <2>4. ASSUME Heard("collected")', Heard("refunded")'
        PROVE  ((got'["collected"] + got'["refunded"]) - Taken) \in -(writes * L)..(writes * L)
    <3> DEFINE c == got'["collected"]
               f == got'["refunded"]
    <3>1. c \in Nat /\ (c - Collected) \in -(writes * L)..(writes * L)
      BY <1>0, <2>1, <2>2, <2>4 DEF FiguresNear, Figures, Differ
    <3>2. f \in Nat /\ (f - Refunded) \in -(writes * L)..(writes * L)
      BY <1>0, <2>1, <2>2, <2>4 DEF FiguresNear, Figures, Differ
    <3>3. CASE Kept("collected") /\ Kept("refunded")
      BY <3>3 DEF Kept, TillNear, Differ
    <3>4. CASE News("collected")
      <4>1. c = Collected
        BY <2>3, <3>4
      <4> HIDE DEF c, f, Taken
      <4>2. (c + f) - Taken = f - Refunded
        BY <1>0, <3>1, <3>2, <4>1
      <4> QED
        BY <3>2, <4>2 DEF c, f
    <3>5. CASE News("refunded")
      <4>1. f = Refunded
        BY <2>3, <3>5
      <4> HIDE DEF c, f, Taken
      <4>2. (c + f) - Taken = c - Collected
        BY <1>0, <3>1, <3>2, <4>1
      <4> QED
        BY <3>1, <4>2 DEF c, f
    <3> QED
      BY <2>1, <2>4, <3>3, <3>4, <3>5
  <2>5. ASSUME Heard("tabs")'
        PROVE  /\ DOMAIN got'["tabs"] = Statuses /\ \A s \in Statuses : got'["tabs"][s] \in Nat
               /\ Sum(got'["tabs"], Statuses) \in Nat
               /\ (Sum(got'["tabs"], Statuses) - All) \in -(writes * 1)..(writes * 1)
               /\ News("tabs") => Sum(got'["tabs"], Statuses) = All
    <3>1. CASE Kept("tabs")
      <4>1. /\ DOMAIN got'["tabs"] = Statuses /\ \A s \in Statuses : got'["tabs"][s] \in Nat
            /\ (Sum(got'["tabs"], Statuses) - All) \in -(writes * 1)..(writes * 1)
        BY <3>1 DEF Kept, TillNear, Differ
      <4>2. IsFiniteSet(Statuses)
        <5>1. IsFiniteSet({"PAID"} \cup {"FAILED"} \cup {"REFUNDED"})
          BY FS_Singleton, FS_Union
        <5>2. {"PAID"} \cup {"FAILED"} \cup {"REFUNDED"} = Statuses
          BY DEF Statuses
        <5> QED
          BY <5>1, <5>2
      <4>3. Sum(got'["tabs"], Statuses) \in Nat
        BY <4>1, <4>2, SumIs, SumOfNats
      <4>4. ~News("tabs")
        BY <3>1 DEF Kept, News, Heard
      <4> QED
        BY <4>1, <4>3, <4>4
    <3>2. CASE News("tabs")
      <4>1. (All - All) \in -(writes * 1)..(writes * 1)
        BY <1>0, EqualsDiffer
      <4>2. /\ DOMAIN Tabs = Statuses /\ \A s \in Statuses : Tabs[s] \in Nat
            /\ Sum(Tabs, Statuses) = All
        BY TabsAddUp
      <4> QED
        BY <1>0, <2>3, <3>2, <4>1, <4>2
    <3> QED
      BY <2>1, <2>5, <3>1, <3>2
  <2>6. ASSUME Heard("tabs")', Heard("rows")'
        PROVE  (got'["rows"] - Sum(got'["tabs"], Statuses)) \in -(writes * 1)..(writes * 1)
    <3> DEFINE a == got'["rows"]
               b == Sum(got'["tabs"], Statuses)
    <3>1. a \in Nat /\ (a - All) \in -(writes * 1)..(writes * 1)
      BY <1>0, <2>1, <2>2, <2>6 DEF FiguresNear, Figures, Differ
    <3>2. b \in Nat /\ (b - All) \in -(writes * 1)..(writes * 1)
      BY <2>5, <2>6
    <3>3. CASE Kept("tabs") /\ Kept("rows")
      BY <3>3 DEF Kept, TillNear, Differ
    <3>4. CASE News("tabs")
      BY <2>5, <2>6, <3>1, <3>4
    <3>5. CASE News("rows")
      <4>1. a = All
        BY <2>3, <3>5
      <4> HIDE DEF a, b, All
      <4>2. (All - b) \in -(writes * 1)..(writes * 1)
        BY <1>0, <3>2, DifferenceTurns
      <4> QED
        BY <4>1, <4>2 DEF a, b
    <3> QED
      BY <2>1, <2>6, <3>3, <3>4, <3>5
  <2>7. (Heard("collected") /\ Heard("refunded") =>
           Differ(got["collected"] + got["refunded"],
                  Sum(Due, PaymentsIn({"PAID", "REFUNDED"})), Largest(Due)))'
    BY <2>1, <2>4 DEF Differ
  <2>8. (Heard("tabs") =>
           /\ DOMAIN got["tabs"] = Statuses /\ \A s \in Statuses : got["tabs"][s] \in Nat
           /\ Differ(Sum(got["tabs"], Statuses), Cardinality(PaymentsIn(Statuses)), 1))'
    BY <2>1, <2>5 DEF Differ
  <2>9. (Heard("tabs") /\ Heard("rows") =>
           Differ(got["rows"], Sum(got["tabs"], Statuses), 1))'
    BY <2>1, <2>6 DEF Differ
  <2> QED
    BY <2>7, <2>8, <2>9 DEF TillNear
<1> QED
  BY <1>1, <1>2, <1>3, ThreeCases

-----------------------------------------------------------------------------
\* Screens: accounts

\* What an account has paid, and how it moves
LEMMA PaidMoves ==
  ASSUME ReportsTypeOK, NEW u
  PROVE  /\ PaidBy(u) \in Nat /\ (TablesStay => PaidBy(u)' = PaidBy(u))
         /\ TablesMove => /\ PaidBy(u)' \in Nat
                          /\ PaidBy(u)' <= PaidBy(u) + Largest(Due)
                          /\ PaidBy(u) <= PaidBy(u)' + Largest(Due)
<1> DEFINE A == {p \in Pays : pay[p] = "PAID" /\ Renter[Of[p]] = u}
           B == {p \in Pays : pay'[p] = "PAID" /\ Renter[Of[p]] = u}
<1>1. PaidBy(u) = Sum(Due, A)
  <2>1. {p \in PaymentsIn({"PAID"}) : Renter[Of[p]] = u} = A
    BY DEF PaymentsIn
  <2> HIDE DEF A
  <2> QED
    BY <2>1 DEF PaidBy
<1>2. PaidBy(u)' = Sum(Due, B)
  <2>1. {p \in PaymentsIn({"PAID"}) : Renter[Of[p]] = u}' = B
    BY DEF PaymentsIn
  <2> HIDE DEF B
  <2> QED
    BY <2>1 DEF PaidBy
<1>3. A \in SUBSET Pays /\ B \in SUBSET Pays
  OBVIOUS
<1>4. TablesMove => \E x \in Pays : A \ {x} = B \ {x}
  BY OneRow
<1>5. TablesStay => B = A
  BY DEF TablesStay
<1> HIDE DEF A, B
<1>6. Sum(Due, A) \in Nat
  BY <1>3, PaymentsNear
<1>7. ASSUME TablesMove
      PROVE  /\ Sum(Due, B) \in Nat
             /\ Sum(Due, B) <= Sum(Due, A) + Largest(Due)
             /\ Sum(Due, A) <= Sum(Due, B) + Largest(Due)
  <2>1. PICK x \in Pays : A \ {x} = B \ {x}
    BY <1>4, <1>7
  <2> QED
    BY <1>3, <2>1, PaymentsNear
<1> QED
  BY <1>1, <1>2, <1>5, <1>6, <1>7

\* The rows of an account only grow in number.
LEMMA OwnGrows ==
  ASSUME ReportsTypeOK, NEW u
  PROVE  /\ Own(u) \in SUBSET Res /\ IsFiniteSet(Own(u)) /\ Cardinality(Own(u)) \in Nat
         /\ (TablesStay => Own(u)' = Own(u))
         /\ TablesMove => /\ Cardinality(Own(u)') \in Nat
                          /\ Cardinality(Own(u)) <= Cardinality(Own(u)')
<1>1. Own(u) \in SUBSET Res /\ Own(u)' \in SUBSET Res
  BY DEF Own, Rows
<1>2. IsFiniteSet(Own(u)) /\ IsFiniteSet(Own(u)')
  BY <1>1, ReportConstants, FS_Subset
<1>3. TablesStay => Own(u)' = Own(u)
  BY DEF TablesStay, Own, Rows
<1>4. TablesMove => Own(u) \subseteq Own(u)'
  BY RowsGrow DEF Own, Rows
<1> QED
  BY <1>1, <1>2, <1>3, <1>4, SizeOfPart, FS_CardinalityType

\* The sums by reservation of a page of the directory that is read now
LEMMA FreshSpend ==
  ASSUME ReportsTypeOK, NEW g, g = SpendRows
  PROVE  /\ DOMAIN g \subseteq Res /\ \A r \in DOMAIN g : g[r] \in Nat
         /\ \A u \in got["users"] : Sum(g, {r \in DOMAIN g : Renter[r] = u}) = PaidBy(u)
<1> DEFINE P == {p \in PaymentsIn({"PAID"}) : Renter[Of[p]] \in got["users"]}
           D == {Of[p] : p \in P}
<1>1. P \in SUBSET Pays /\ D \in SUBSET Res /\ \A p \in P : Of[p] \in D /\ Due[p] \in Nat
  BY ReportConstants DEF PaymentsIn
<1>2. IsFiniteSet(P) /\ IsFiniteSet(D)
  BY <1>1, ReportConstants, FS_Subset
<1>3. g = [r \in D |-> SumOver(Due, {p \in P : Of[p] = r})]
  <2>1. g = [r \in D |-> Sum(Due, {p \in P : Of[p] = r})]
    BY DEF SpendRows
  <2> HIDE DEF D, P
  <2> QED
    BY <2>1, SumIs
<1>4. ASSUME NEW r \in D PROVE g[r] \in Nat
  <2> DEFINE Q == {p \in P : Of[p] = r}
  <2>1. IsFiniteSet(Q) /\ \A p \in Q : Due[p] \in Nat
    BY <1>1, <1>2, FS_Subset
  <2>2. g[r] = SumOver(Due, Q)
    BY <1>3, <1>4
  <2> HIDE DEF Q
  <2> QED
    BY <2>1, <2>2, SumOfNats
<1>5. ASSUME NEW u \in got["users"]
      PROVE  Sum(g, {r \in D : Renter[r] = u}) = PaidBy(u)
  <2> DEFINE Q == {p \in PaymentsIn({"PAID"}) : Renter[Of[p]] = u}
             E == {r \in D : Renter[r] = u}
             h == [r \in E |-> SumOver(Due, {p \in Q : Of[p] = r})]
  <2>1. Q \subseteq P /\ E \subseteq D /\ \A p \in Q : Of[p] \in E /\ Due[p] \in Nat
    BY <1>1, <1>5
  <2>2. IsFiniteSet(Q) /\ IsFiniteSet(E)
    BY <1>2, <2>1, FS_Subset
  <2>3. \A r \in E : {p \in P : Of[p] = r} = {p \in Q : Of[p] = r}
    BY <1>5
  <2>4. \A r \in E : g[r] \in Nat /\ g[r] = h[r]
    <3>1. ASSUME NEW r \in E PROVE g[r] = h[r]
      <4>1. g[r] = SumOver(Due, {p \in P : Of[p] = r})
        BY <1>3, <2>1
      <4>2. h[r] = SumOver(Due, {p \in Q : Of[p] = r})
        OBVIOUS
      <4> QED
        BY <2>3, <4>1, <4>2
    <3> QED
      BY <1>4, <2>1, <3>1
  <2>5. SumOver(h, E) = SumOver(Due, Q)
    <3> HIDE DEF P, D, Q, E
    <3> QED
      BY <2>1, <2>2, SumByKey
  <2> HIDE DEF h, E, D, P
  <2>6. SumOver(g, E) = SumOver(h, E)
    BY <2>2, <2>4, SumOfSame
  <2>7. PaidBy(u) = Sum(Due, Q)
    BY DEF PaidBy
  <2> QED
    BY <2>5, <2>6, <2>7, SumIs DEF E
<1>6. DOMAIN g = D
  BY <1>3
<1> QED
  BY <1>1, <1>4, <1>5, <1>6

\* The payments on a page of the directory are those of its accounts, up to
\* what changed since they were read.
LEMMA SpendNearKept ==
  ASSUME ReportsTypeOK, SpendNear, [ReportsNext]_repVars
  PROVE  SpendNear'
<1>0. writes \in Nat /\ Largest(Due) \in Nat /\ ReportsTypeOK'
  BY ReportConstants, ReportsTypesKept DEF ReportsTypeOK
<1>1. CASE TablesMove
  <2>1. got' = got /\ writes' = writes + 1 /\ \A q : Heard(q)' = Heard(q)
    BY <1>1, HeardStays DEF TablesMove
  <2>2. ASSUME Heard("spend"), NEW u \in got["users"]
        PROVE  Differ(Sum(got["spend"], SpendRowsOf(u)), PaidBy(u), Largest(Due))'
    <3> DEFINE a == Sum(got["spend"], SpendRowsOf(u))
               b == PaidBy(u)
               c == PaidBy(u)'
    <3>1. (a - b) \in -(writes * Largest(Due))..(writes * Largest(Due))
      BY <2>2 DEF SpendNear, Differ
    <3>2. a \in Int
      <4>1. PICK g, S : g = got["spend"] /\ S = SpendRowsOf(u)
        OBVIOUS
      <4>2. S \in SUBSET Res /\ \A r \in S : g[r] \in Nat
        BY <2>2, <4>1 DEF SpendNear, SpendRowsOf
      <4>3. IsFiniteSet(S)
        BY <4>2, ReportConstants, FS_Subset
      <4> QED
        BY <4>1, <4>2, <4>3, SumIs, SumOfNats
    <3>3. b \in Int /\ c \in Int /\ c <= b + Largest(Due) /\ b <= c + Largest(Due)
      BY <1>1, PaidMoves
    <3>4. SpendRowsOf(u)' = SpendRowsOf(u)
      BY <2>1 DEF SpendRowsOf
    <3> HIDE DEF a, b, c
    <3>5. (a - c) \in -((writes + 1) * Largest(Due))..((writes + 1) * Largest(Due))
      BY <1>0, <3>1, <3>2, <3>3, DifferenceGrows
    <3> QED
      BY <2>1, <3>4, <3>5 DEF Differ, a, c
  <2> QED
    BY <2>1, <2>2 DEF SpendNear
<1>2. CASE PageReloads
  BY <1>2, NothingHeard DEF SpendNear
<1>3. CASE Hears
  <2>1. /\ writes' = writes /\ TablesStay /\ Kind' = Kind
        /\ \A q : Heard(q)' => q \in Queries[Kind] /\ (Kept(q) \/ News(q))
    BY <1>3, SameScreen DEF Hears, TablesStay, Heard
  <2>2. ASSUME Heard("spend")'
        PROVE  /\ DOMAIN got'["spend"] \subseteq Res
               /\ \A r \in DOMAIN got'["spend"] : got'["spend"][r] \in Nat
               /\ \A u \in got'["users"] :
                    Differ(Sum(got["spend"], SpendRowsOf(u)), PaidBy(u), Largest(Due))'
    <3>1. CASE Kept("spend")
      <4>1. got'["users"] = got["users"]
        <5>1. Kind = "directory"
          BY <2>1, <2>2 DEF ReportsTypeOK, Kind, Kinds, Queries
        <5>2. "users" \in Queries[Kind] /\ "users" \in Needs("spend")
          BY <5>1 DEF Queries, Needs
        <5>3. Answered("spend") /\ Answered("spend")'
          BY <3>1, <2>2 DEF Kept, Heard
        <5>4. Answered("users") /\ Answered("users")'
          BY <1>0, <2>1, <2>2, <5>2, <5>3 DEF ReportsTypeOK
        <5>5. Heard("users")'
          BY <2>1, <5>1, <5>2, <5>4 DEF Heard, Lenient
        <5> QED
          BY <2>1, <5>4, <5>5 DEF Kept, News
      <4>2. ASSUME NEW u
            PROVE  SpendRowsOf(u)' = SpendRowsOf(u) /\ PaidBy(u)' = PaidBy(u)
        BY <2>1, <3>1, PaidMoves DEF Kept, SpendRowsOf
      <4> QED
        BY <2>1, <3>1, <4>1, <4>2 DEF Kept, SpendNear, Differ
    <3>2. CASE News("spend")
      <4>1. got'["users"] = got["users"] /\ got'["spend"] = SpendRows
        BY <3>2 DEF News, Needs, AnswersTo
      <4>2. PICK g : g = SpendRows
        OBVIOUS
      <4>3. /\ DOMAIN g \subseteq Res /\ \A r \in DOMAIN g : g[r] \in Nat
            /\ \A u \in got["users"] : Sum(g, {r \in DOMAIN g : Renter[r] = u}) = PaidBy(u)
        BY <4>2, FreshSpend
      <4>4. ASSUME NEW u \in got["users"]
            PROVE  Differ(Sum(got["spend"], SpendRowsOf(u)), PaidBy(u), Largest(Due))'
        <5>1. SpendRowsOf(u)' = {r \in DOMAIN g : Renter[r] = u}
          BY <4>1, <4>2 DEF SpendRowsOf
        <5>2. Sum(got'["spend"], SpendRowsOf(u)') = PaidBy(u)
          BY <4>1, <4>2, <4>3, <5>1
        <5>3. PaidBy(u)' = PaidBy(u) /\ PaidBy(u) \in Nat
          BY <2>1, PaidMoves
        <5>4. (PaidBy(u) - PaidBy(u)) \in -(writes * Largest(Due))..(writes * Largest(Due))
          BY <1>0, <5>3, EqualsDiffer
        <5> QED
          BY <2>1, <5>2, <5>3, <5>4 DEF Differ
      <4> QED
        BY <4>1, <4>2, <4>3, <4>4
    <3> QED
      BY <2>1, <2>2, <3>1, <3>2
  <2>3. ASSUME Heard("owners")'
        PROVE  \A r \in DOMAIN got'["spend"] : got'["owners"][r] = Renter[r]
    <3>1. CASE Kept("owners")
      <4>1. Kind = "directory"
        BY <2>1, <2>3 DEF ReportsTypeOK, Kind, Kinds, Queries
      <4>2. "spend" \in Queries[Kind] /\ "spend" \in Needs("owners")
        BY <4>1 DEF Queries, Needs
      <4>3. Answered("owners") /\ Answered("owners")'
        BY <3>1, <2>3 DEF Kept, Heard
      <4>4. Answered("spend") /\ Answered("spend")'
        BY <1>0, <2>1, <2>3, <4>2, <4>3 DEF ReportsTypeOK
      <4>5. Heard("spend")'
        BY <2>1, <4>1, <4>2, <4>4 DEF Heard, Lenient
      <4>6. got'["spend"] = got["spend"]
        BY <2>1, <4>4, <4>5 DEF Kept, News
      <4> QED
        BY <3>1, <4>6 DEF Kept, SpendNear
    <3>2. CASE News("owners")
      <4>1. /\ got'["spend"] = got["spend"]
            /\ got'["owners"] = [r \in DOMAIN got["spend"] |-> Renter[r]]
        BY <3>2 DEF News, Needs, AnswersTo
      <4> QED
        BY <4>1
    <3> QED
      BY <2>1, <2>3, <3>1, <3>2
  <2> QED
    BY <2>2, <2>3 DEF SpendNear
<1> QED
  BY <1>1, <1>2, <1>3, ThreeCases

\* What a profile says of the tables when it is read
LEMMA FreshProfile ==
  ASSUME ReportsTypeOK, NEW u
  PROVE  LET p == Profile(u) IN
           /\ p.totalSpend \in Nat /\ p.activeReservations \in Nat /\ p.reservationCount \in Nat
           /\ p.totalSpend <= PaidBy(u) /\ p.reservationCount <= Cardinality(Own(u))
           /\ Cardinality(Own(u)) <= RecentCap =>
                p.totalSpend = PaidBy(u) /\ p.activeReservations = ActiveRentals(u)
<1> DEFINE N == Newest(Own(u), RecentCap)
           A == {p \in PaymentsIn({"PAID"}) : Of[p] \in N}
           B == {p \in PaymentsIn({"PAID"}) : Renter[Of[p]] = u}
           H == {r \in N : resStatus[r] \in OUT_ON_HIRE}
<1>0. RecentCap \in Nat /\ Own(u) \in SUBSET Res /\ IsFiniteSet(Own(u))
  BY ReportsAssumption, OwnGrows
<1>1. N \subseteq Own(u) /\ (Cardinality(Own(u)) <= RecentCap => N = Own(u))
  BY <1>0, ReportConstants, NewestRows
<1>2. /\ Profile(u).reservationCount = Cardinality(N)
      /\ Profile(u).activeReservations = Cardinality(H)
      /\ Profile(u).totalSpend = Sum(Due, A)
  BY DEF Profile
<1> HIDE DEF N
<1>3. N \in SUBSET Res
  BY <1>0, <1>1
<1>5. PaidBy(u) = Sum(Due, B)
  BY DEF PaidBy
<1>6. A \in SUBSET B /\ B \in SUBSET Pays /\ (N = Own(u) => A = B)
  <2>1. \A r \in Own(u) : Renter[r] = u
    BY DEF Own
  <2>2. \A p \in B : Of[p] \in Own(u)
    BY ReportConstants, ReportsAssumption DEF ReportsTypeOK, Own, Rows, PaymentsIn
  <2>3. B \in SUBSET Pays
    BY DEF PaymentsIn
  <2> QED
    BY <1>1, <2>1, <2>2, <2>3
<1>7. N = Own(u) => Cardinality(H) = ActiveRentals(u)
  BY DEF ActiveRentals
<1>8. H \in SUBSET N
  OBVIOUS
<1> HIDE DEF A, B, H
<1>9. IsFiniteSet(B) /\ \A p \in B : Due[p] \in Nat
  BY <1>6, ReportConstants, FS_Subset
<1>10. SumOver(Due, A) <= SumOver(Due, B)
  BY <1>6, <1>9, SumOfPart
<1>11. Sum(Due, A) \in Nat /\ Sum(Due, A) <= Sum(Due, B)
  BY <1>6, <1>10, PaymentsNear, SumIs
<1>12. /\ Cardinality(N) \in Nat /\ Cardinality(N) <= Cardinality(Own(u))
       /\ Cardinality(H) \in Nat
  <2>1. IsFiniteSet(N)
    BY <1>0, <1>1, FS_Subset
  <2> QED
    BY <1>0, <1>1, <1>8, <2>1, SizeOfPart
<1> QED
  BY <1>1, <1>2, <1>5, <1>6, <1>7, <1>11, <1>12

\* A profile is off by what changed since.
LEMMA ProfileNearKept ==
  ASSUME ReportsTypeOK, ProfileNear, [ReportsNext]_repVars
  PROVE  ProfileNear'
<1>0. /\ writes \in Nat /\ Largest(Due) \in Nat /\ PaidBy(Viewer) \in Nat
      /\ ActiveRentals(Viewer) \in Nat /\ Cardinality(Own(Viewer)) \in Nat
      /\ RecentCap \in Nat
  <2>1. Figure("rentals") \in Nat
    BY FigureMoves DEF Figures
  <2> QED
    BY <2>1, ReportConstants, ReportsAssumption, PaidMoves, OwnGrows DEF ReportsTypeOK, Figure
<1>1. CASE TablesMove
  <2>1. /\ got' = got /\ writes' = writes + 1 /\ Heard("profile")' = Heard("profile")
        /\ Viewer' = Viewer
    BY <1>1, HeardStays, SameScreen DEF TablesMove
  <2> DEFINE d    == Largest(Due)
             paid == PaidBy(Viewer)
             late == PaidBy(Viewer)'
             out  == ActiveRentals(Viewer)
             then == ActiveRentals(Viewer)'
             own  == Cardinality(Own(Viewer))
             more == Cardinality(Own(Viewer)')
  <2>2. late \in Nat /\ late <= paid + d /\ paid <= late + d
    <3>1. \A u : /\ PaidBy(u)' \in Nat /\ PaidBy(u)' <= PaidBy(u) + d
                 /\ PaidBy(u) <= PaidBy(u)' + d
      BY <1>1, PaidMoves
    <3>2. late = Sum(Due, {p \in PaymentsIn({"PAID"})' : Renter[Of[p]] = Viewer})
      BY <2>1 DEF PaidBy
    <3>3. PICK u : u = Viewer
      OBVIOUS
    <3>4. late = PaidBy(u)' /\ paid = PaidBy(u)
      BY <3>2, <3>3 DEF PaidBy
    <3> QED
      BY <3>1, <3>4
  <2>3. then \in Nat /\ then <= out + 1 /\ out <= then + 1
    BY <1>1, FigureMoves DEF Figures, Figure, StepOf
  <2>4. more \in Nat /\ own <= more
    <3>1. PICK u : u = Viewer
      OBVIOUS
    <3>2. Own(Viewer)' = Own(u)' /\ Own(Viewer) = Own(u)
      BY <2>1, <3>1 DEF Own
    <3> QED
      BY <1>1, <3>2, OwnGrows
  <2>5. ASSUME Heard("profile"), NEW p, p = got["profile"]
        PROVE  /\ p.totalSpend \in Nat /\ p.activeReservations \in Nat
               /\ more <= RecentCap =>
                    /\ (p.totalSpend - late) \in -((writes + 1) * d)..((writes + 1) * d)
                    /\ (p.activeReservations - then) \in -((writes + 1) * 1)..((writes + 1) * 1)
               /\ p.totalSpend <= late + (writes + 1) * d
               /\ p.reservationCount \in Nat /\ p.reservationCount <= more
    <3>1. /\ p.totalSpend \in Nat /\ p.activeReservations \in Nat
          /\ own <= RecentCap =>
               /\ (p.totalSpend - paid) \in -(writes * d)..(writes * d)
               /\ (p.activeReservations - out) \in -(writes * 1)..(writes * 1)
          /\ p.totalSpend <= paid + writes * d
          /\ p.reservationCount \in Nat /\ p.reservationCount <= own
      BY <2>5 DEF ProfileNear, Differ
    <3> DEFINE a == p.totalSpend
               b == p.activeReservations
    <3>2. d \in Nat /\ paid \in Nat /\ out \in Nat /\ own \in Nat /\ a \in Nat /\ b \in Nat
      BY <1>0, <3>1
    <3> HIDE DEF d, paid, late, out, then, own, more
    <3>3. more <= RecentCap => own <= RecentCap
      BY <1>0, <2>4, <3>2
    <3>4. ASSUME more <= RecentCap
          PROVE  /\ (a - late) \in -((writes + 1) * d)..((writes + 1) * d)
                 /\ (b - then) \in -((writes + 1) * 1)..((writes + 1) * 1)
      <4>1. (a - paid) \in -(writes * d)..(writes * d)
        BY <3>1, <3>3, <3>4
      <4>2. (b - out) \in -(writes * 1)..(writes * 1)
        BY <3>1, <3>3, <3>4
      <4> HIDE DEF a, b
      <4>3. (a - late) \in -((writes + 1) * d)..((writes + 1) * d)
        BY <1>0, <2>2, <3>2, <4>1, DifferenceGrows
      <4>4. (b - then) \in -((writes + 1) * 1)..((writes + 1) * 1)
        BY <1>0, <2>3, <3>2, <4>2, DifferenceGrows
      <4> QED
        BY <4>3, <4>4
    <3>5. a <= late + (writes + 1) * d
      <4>1. a <= paid + writes * d
        BY <3>1
      <4> HIDE DEF a
      <4> QED
        BY <1>0, <2>2, <3>2, <4>1, ExcessGrows
    <3>6. p.reservationCount <= more
      BY <2>4, <3>1, <3>2
    <3> QED
      BY <3>1, <3>4, <3>5, <3>6
  <2> QED
    BY <2>1, <2>5 DEF ProfileNear, Differ
<1>2. CASE PageReloads
  BY <1>2, NothingHeard DEF ProfileNear
<1>3. CASE Hears
  <2>1. /\ writes' = writes /\ TablesStay /\ Kind' = Kind /\ Viewer' = Viewer
        /\ \A q : Heard(q)' => Kept(q) \/ News(q)
    BY <1>3, SameScreen DEF Hears, TablesStay, Heard
  <2>2. /\ PaidBy(Viewer)' = PaidBy(Viewer) /\ ActiveRentals(Viewer)' = ActiveRentals(Viewer)
        /\ Own(Viewer)' = Own(Viewer)
    BY <2>1 DEF TablesStay, PaidBy, PaymentsIn, ActiveRentals, Own, Rows
  <2>3. CASE Kept("profile")
    BY <2>1, <2>2, <2>3 DEF Kept, ProfileNear, Differ
  <2>4. CASE News("profile")
    <3>1. got'["profile"] = Profile(Viewer)
      BY <2>4 DEF News, AnswersTo
    <3> DEFINE p == Profile(Viewer)
    <3>2. /\ p.totalSpend \in Nat /\ p.activeReservations \in Nat /\ p.reservationCount \in Nat
          /\ p.totalSpend <= PaidBy(Viewer) /\ p.reservationCount <= Cardinality(Own(Viewer))
          /\ Cardinality(Own(Viewer)) <= RecentCap =>
               p.totalSpend = PaidBy(Viewer) /\ p.activeReservations = ActiveRentals(Viewer)
      BY FreshProfile
    <3>3. /\ (PaidBy(Viewer) - PaidBy(Viewer)) \in -(writes * Largest(Due))..(writes * Largest(Due))
          /\ (ActiveRentals(Viewer) - ActiveRentals(Viewer)) \in -(writes * 1)..(writes * 1)
          /\ writes * Largest(Due) \in Nat
      BY <1>0, EqualsDiffer
    <3> HIDE DEF p
    <3>4. p.totalSpend <= PaidBy(Viewer) + writes * Largest(Due)
      <4>1. PICK n \in Nat : n = writes * Largest(Due)
        BY <3>3
      <4>2. p.totalSpend <= PaidBy(Viewer) + n
        BY <1>0, <3>2, <4>1
      <4> QED
        BY <4>1, <4>2
    <3>5. got'["profile"] = p
      BY <3>1 DEF p
    <3> QED
      BY <2>1, <2>2, <3>2, <3>3, <3>4, <3>5 DEF ProfileNear, Differ
  <2> QED
    BY <2>1, <2>3, <2>4 DEF ProfileNear
<1> QED
  BY <1>1, <1>2, <1>3, ThreeCases

-----------------------------------------------------------------------------
\* Screens: the ranking

\* The units hired of a product, and how they move
LEMMA UnitsMove ==
  ASSUME NEW p
  PROVE  /\ UnitsRented(p) \in Nat /\ (TablesStay => UnitsRented(p)' = UnitsRented(p))
         /\ p \in Products => (p \in Rented <=> UnitsRented(p) # 0)
         /\ TablesMove => /\ UnitsRented(p)' \in Nat
                          /\ UnitsRented(p)' <= UnitsRented(p) + Largest(Units)
<1> DEFINE A == {r \in Res : resStatus[r] \in BILLABLE /\ Item[r] = p}
           B == {r \in Res : resStatus'[r] \in BILLABLE /\ Item[r] = p}
<1>1. UnitsRented(p) = Sum(Units, A)
  <2>1. {r \in In(BILLABLE) : Item[r] = p} = A
    BY DEF In
  <2> HIDE DEF A
  <2> QED
    BY <2>1 DEF UnitsRented
<1>2. UnitsRented(p)' = Sum(Units, B)
  <2>1. {r \in In(BILLABLE) : Item[r] = p}' = B
    BY DEF In
  <2> HIDE DEF B
  <2> QED
    BY <2>1 DEF UnitsRented
<1>3. A \in SUBSET Res /\ B \in SUBSET Res
  OBVIOUS
<1>4. TablesMove => \E x \in Res : A \ {x} = B \ {x}
  BY OneRow
<1>5. TablesStay => B = A
  BY DEF TablesStay
<1>6. p \in Products => (p \in Rented <=> A # {})
  BY DEF Rented, In
<1> HIDE DEF A, B
<1>7. Sum(Units, A) \in Nat
  BY <1>3, BookingsNear
<1>8. A # {} <=> Sum(Units, A) # 0
  <2>1. CASE A = {}
    BY <2>1, SumOfNone, SumIs
  <2>2. CASE A # {}
    <3>1. PICK r \in A : TRUE
      BY <2>2
    <3>2. IsFiniteSet(A) /\ \A x \in A : Units[x] \in Nat /\ Units[x] # 0
      BY <1>3, ReportConstants, FS_Subset
    <3>3. SumOver(Units, A) = Units[r] + SumOver(Units, A \ {r})
      BY <3>2, SumSplits
    <3>4. SumOver(Units, A \ {r}) \in Nat
      <4>1. IsFiniteSet(A \ {r})
        BY <3>2, FS_Subset
      <4> QED
        BY <3>2, <4>1, SumOfNats
    <3>5. SumOver(Units, A) # 0
      BY <3>2, <3>3, <3>4
    <3> QED
      BY <2>2, <3>5, SumIs
  <2> QED
    BY <2>1, <2>2
<1>9. ASSUME TablesMove
      PROVE  Sum(Units, B) \in Nat /\ Sum(Units, B) <= Sum(Units, A) + Largest(Units)
  <2>1. PICK x \in Res : A \ {x} = B \ {x}
    BY <1>4, <1>9
  <2> QED
    BY <1>3, <2>1, BookingsNear
<1> QED
  BY <1>1, <1>2, <1>5, <1>6, <1>7, <1>8, <1>9

\* What holds of the top of a ranking when it is read
LEMMA FreshRanking ==
  ASSUME NEW f \in Rankings, NEW top, top = TopOf(f)
  PROVE  /\ \A k \in DOMAIN top :
              /\ k \in Nat /\ 1 \in DOMAIN top
              /\ top[k].units \in Nat \ {0} /\ top[k].units <= top[1].units
         /\ \A p \in Products : (\A k \in DOMAIN top : top[k].product # p) =>
              \A k \in DOMAIN top : UnitsRented(p) <= top[k].units
<1> DEFINE n == Cardinality(Rented)
           D == {i \in 1..n : i <= TopCap}
<1>1. n \in Nat /\ Rented \subseteq Products /\ TopCap \in Nat \ {0}
  <2>1. Rented \in SUBSET Products
    BY DEF Rented
  <2> QED
    BY <2>1, ReportConstants, ReportsAssumption, SizeOfPart
<1>2. /\ f \in [1..n -> Rented] /\ \A p \in Rented : \E i \in 1..n : f[i] = p
      /\ \A i, j \in 1..n : i < j => UnitsRented(f[i]) >= UnitsRented(f[j])
  BY DEF Rankings, Bijection, Injection, Surjection
<1> HIDE DEF n
<1>3. top = [k \in D |-> [product |-> f[k], units |-> UnitsRented(f[k])]]
  BY <1>2 DEF TopOf
<1>4. DOMAIN top = D /\ \A k \in D : top[k].product = f[k] /\ top[k].units = UnitsRented(f[k])
  BY <1>3
<1>5. ASSUME NEW k \in D
      PROVE  /\ k \in Nat /\ 1 \in D
             /\ UnitsRented(f[k]) \in Nat \ {0} /\ UnitsRented(f[k]) <= UnitsRented(f[1])
  <2>1. k \in 1..n /\ k <= TopCap /\ 1 \in 1..n /\ 1 \in D
    BY <1>1
  <2>2. f[k] \in Rented /\ f[1] \in Rented
    BY <1>2, <2>1
  <2>3. UnitsRented(f[k]) \in Nat \ {0} /\ UnitsRented(f[1]) \in Nat
    BY <1>1, <2>2, UnitsMove
  <2>4. k = 1 \/ UnitsRented(f[1]) >= UnitsRented(f[k])
    BY <1>1, <1>2, <2>1
  <2> QED
    BY <2>1, <2>3, <2>4
<1>6. ASSUME NEW p \in Products, \A k \in D : f[k] # p, NEW k \in D
      PROVE  UnitsRented(p) <= UnitsRented(f[k])
  <2>1. UnitsRented(p) \in Nat /\ UnitsRented(f[k]) \in Nat
    BY UnitsMove
  <2>2. CASE p \notin Rented
    BY <2>1, <2>2, UnitsMove
  <2>3. CASE p \in Rented
    <3>1. PICK i \in 1..n : f[i] = p
      BY <1>2, <2>3
    <3>2. i \notin D
      BY <1>6, <3>1
    <3>3. k \in 1..n /\ k < i
      BY <1>1, <3>1, <3>2
    <3> QED
      BY <1>2, <2>1, <3>1, <3>3
  <2> QED
    BY <2>2, <2>3
<1> QED
  BY <1>4, <1>5, <1>6

\* What the ranking leaves out was hired no more, up to what changed since.
LEMMA RankingNearKept ==
  ASSUME ReportsTypeOK, RankingNear, [ReportsNext]_repVars
  PROVE  RankingNear'
<1>0. writes \in Nat /\ Largest(Units) \in Nat
  BY ReportConstants DEF ReportsTypeOK
<1>1. CASE TablesMove
  <2>1. got' = got /\ writes' = writes + 1 /\ Heard("grouped")' = Heard("grouped")
    BY <1>1, HeardStays DEF TablesMove
  <2>2. ASSUME Heard("grouped"), NEW top, top = got["grouped"], NEW p \in Products,
               \A k \in DOMAIN top : top[k].product # p, NEW k \in DOMAIN top
        PROVE  UnitsRented(p)' <= top[k].units + (writes + 1) * Largest(Units)
    <3> DEFINE a == UnitsRented(p)'
               b == UnitsRented(p)
               c == top[k].units
               d == Largest(Units)
    <3>1. b <= c + writes * d /\ c \in Nat
      BY <2>2 DEF RankingNear
    <3>2. a \in Nat /\ b \in Nat /\ a <= b + d /\ d \in Nat
      BY <1>0, <1>1, UnitsMove
    <3> HIDE DEF a, b, c, d
    <3>3. PICK m \in Nat : m = writes * d
      BY <1>0, <3>2, EqualsDiffer
    <3>4. (writes + 1) * d = m + d
      BY <1>0, <3>2, <3>3, SMT
    <3>5. a <= c + (writes + 1) * d
      BY <3>1, <3>2, <3>3, <3>4
    <3> QED
      BY <3>5 DEF a, c, d
  <2> QED
    BY <2>1, <2>2 DEF RankingNear
<1>2. CASE PageReloads
  BY <1>2, NothingHeard DEF RankingNear
<1>3. CASE Hears
  <2>1. /\ writes' = writes /\ TablesStay /\ Kind' = Kind
        /\ \A q : Heard(q)' => Kept(q) \/ News(q)
    BY <1>3, SameScreen DEF Hears, TablesStay, Heard
  <2>2. \A p : UnitsRented(p)' = UnitsRented(p) /\ UnitsRented(p) \in Nat
    BY <2>1, UnitsMove
  <2>3. CASE Kept("grouped")
    BY <2>1, <2>2, <2>3 DEF Kept, RankingNear
  <2>4. CASE News("grouped")
    <3>1. PICK f \in Rankings : got'["grouped"] = TopOf(f)
      BY <2>4 DEF News, AnswersTo
    <3> DEFINE top == TopOf(f)
    <3>2. /\ \A k \in DOMAIN top :
               /\ k \in Nat /\ 1 \in DOMAIN top
               /\ top[k].units \in Nat \ {0} /\ top[k].units <= top[1].units
          /\ \A p \in Products : (\A k \in DOMAIN top : top[k].product # p) =>
               \A k \in DOMAIN top : UnitsRented(p) <= top[k].units
      BY FreshRanking
    <3>3. got'["grouped"] = top
      BY <3>1
    <3> HIDE DEF top
    <3>4. PICK m \in Nat : m = writes * Largest(Units)
      BY <1>0, EqualsDiffer
    <3>5. ASSUME NEW p \in Products, \A k \in DOMAIN top : top[k].product # p,
                 NEW k \in DOMAIN top
          PROVE  UnitsRented(p)' <= top[k].units + writes' * Largest(Units)
      <4>1. UnitsRented(p) <= top[k].units /\ top[k].units \in Nat
        BY <3>2, <3>5
      <4>2. UnitsRented(p) <= top[k].units + m
        BY <2>2, <3>4, <4>1
      <4> QED
        BY <2>1, <2>2, <3>4, <4>2
    <3> QED
      BY <3>2, <3>3, <3>5 DEF RankingNear
  <2> QED
    BY <2>1, <2>3, <2>4 DEF RankingNear
<1> QED
  BY <1>1, <1>2, <1>3, ThreeCases

-----------------------------------------------------------------------------
\* Screens: the quick actions

\* Nothing becomes pending again, nor is taken back.
LEMMA DecidedStays ==
  ASSUME ReportsTypeOK, [ReportsNext]_repVars, NEW r \in Res,
         resStatus[r] \notin {NoStatus, "PENDING"}
  PROVE  resStatus'[r] \notin {NoStatus, "PENDING"}
<1>0. resStatus \in [Res -> Status \cup {NoStatus}]
  BY DEF ReportsTypeOK
<1>1. \A s \in Status : ValidTransition(resStatus[r], s) => s \notin {NoStatus, "PENDING"}
  BY <1>0 DEF ValidTransition, Transitions, Status, NoStatus
<1>2. CASE resStatus' = resStatus
  BY <1>2
<1>3. ASSUME NEW b \in Res, Book(b) PROVE resStatus'[r] \notin {NoStatus, "PENDING"}
  BY <1>0, <1>3 DEF Book
<1>4. ASSUME NEW b \in Res, NEW s \in Status, ValidTransition(resStatus[b], s),
             resStatus' = [resStatus EXCEPT ![b] = s]
      PROVE  resStatus'[r] \notin {NoStatus, "PENDING"}
  BY <1>0, <1>1, <1>4
<1>5. ASSUME NEW a \in acts, QuickStored(a) PROVE resStatus'[r] \notin {NoStatus, "PENDING"}
  <2>1. a.row \in Res /\ a.to \in Status
    BY DEF ReportsTypeOK, PageTypeOK, QuickTargets, Status
  <2> QED
    BY <1>4, <1>5, <2>1 DEF QuickStored
<1>6. ASSUME NEW b \in Res, NEW s \in Status, Move(b, s)
      PROVE  resStatus'[r] \notin {NoStatus, "PENDING"}
  BY <1>4, <1>6 DEF Move
<1>7. ASSUME \/ UNCHANGED repVars
             \/ \E q \in Queries[Kind] : Answer(q)
             \/ Fail(StatsQueries) \/ Fail({"list"}) \/ Fail({"catalog"})
             \/ \E l \in flights : OtherLands(l)
             \/ \E b \in Res, s \in QuickTargets : QuickClick(b, s)
             \/ \E a \in acts : QuickFails(a) \/ QuickDone(a) \/ QuickAlert(a)
             \/ \E p \in Pays : Refund(p) \/ \E outcome \in {"PAID", "FAILED"} : Pay(p, outcome)
             \/ \E p \in Shelf, n \in Stocks : Restock(p, n)
      PROVE  resStatus' = resStatus
  BY <1>7 DEF repVars, tables, Answer, Fail, OtherLands, QuickClick, QuickFails, QuickDone,
              QuickAlert, Refund, Pay, Restock
<1> QED
  BY <1>2, <1>3, <1>5, <1>6, <1>7 DEF ReportsNext, QuickActions

\* What is decided by what a step of the page tells it
LEMMA DecidedMoves ==
  ASSUME ReportsTypeOK, [ReportsNext]_repVars
  PROVE  \/ Decided' \subseteq Decided /\ told' = told /\ latest' = latest /\ followed' = followed
         \/ \E a \in acts : QuickDone(a) /\ Decided' \subseteq Decided
         \/ \E a \in acts : /\ QuickStored(a) /\ Decided' \subseteq Decided \cup {a.row}
                           /\ told' = told /\ latest' = latest /\ followed' = followed
<1>1. CASE /\ acts' = acts /\ told' = told /\ latest' = latest /\ followed' = followed
  BY <1>1 DEF Decided
<1>2. ASSUME NEW r \in Res, NEW s \in QuickTargets, QuickClick(r, s)
      PROVE  Decided' \subseteq Decided /\ told' = told /\ latest' = latest /\ followed' = followed
  <2>1. PICK n : n = [no |-> clicks, row |-> r, to |-> s, result |-> Missing]
    OBVIOUS
  <2>2. acts' = acts \cup {n}
    BY <1>2, <2>1 DEF QuickClick
  <2>3. n.result # "done"
    BY <2>1, ReportsAssumption
  <2> QED
    BY <1>2, <2>2, <2>3 DEF QuickClick, Decided
<1>3. ASSUME NEW a \in acts, NEW result \in {"done", "error"}, AnswerAct(a, result)
      PROVE  \E b : /\ b.row = a.row /\ b.result = result
                    /\ acts' = (acts \ {a}) \cup {b}
  <2>1. PICK b : b = [a EXCEPT !.result = result]
    OBVIOUS
  <2>2. a \in [no : 0..MaxLoads, row : Res, to : QuickTargets,
               result : {Missing, "done", "error"}]
    BY DEF ReportsTypeOK, PageTypeOK
  <2>3. b.row = a.row /\ b.result = result
    BY <2>1, <2>2
  <2> QED
    BY <1>3, <2>1, <2>3 DEF AnswerAct
<1>4. ASSUME NEW a \in acts, QuickStored(a)
      PROVE  /\ Decided' \subseteq Decided \cup {a.row}
             /\ told' = told /\ latest' = latest /\ followed' = followed
  <2>1. PICK b : b.row = a.row /\ acts' = (acts \ {a}) \cup {b}
    BY <1>3, <1>4 DEF QuickStored
  <2> QED
    BY <1>4, <2>1 DEF QuickStored, Decided
<1>5. ASSUME NEW a \in acts, QuickFails(a)
      PROVE  Decided' \subseteq Decided /\ told' = told /\ latest' = latest /\ followed' = followed
  <2>1. PICK b : b.result = "error" /\ acts' = (acts \ {a}) \cup {b}
    BY <1>3, <1>5 DEF QuickFails
  <2> QED
    BY <1>5, <2>1 DEF QuickFails, Decided
<1>6. ASSUME NEW a \in acts, QuickDone(a) PROVE Decided' \subseteq Decided
  BY <1>6 DEF QuickDone, Decided
<1>7. ASSUME NEW a \in acts, QuickAlert(a)
      PROVE  Decided' \subseteq Decided /\ told' = told /\ latest' = latest /\ followed' = followed
  BY <1>7 DEF QuickAlert, Decided
<1>8. ASSUME \/ UNCHANGED repVars
             \/ \E q \in Queries[Kind] : Answer(q)
             \/ Fail(StatsQueries) \/ Fail({"list"}) \/ Fail({"catalog"})
             \/ \E l \in flights : OtherLands(l)
             \/ \E b \in Res : Book(b) \/ \E s \in Status : Move(b, s)
             \/ \E p \in Pays : Refund(p) \/ \E outcome \in {"PAID", "FAILED"} : Pay(p, outcome)
             \/ \E p \in Shelf, n \in Stocks : Restock(p, n)
      PROVE  acts' = acts /\ told' = told /\ latest' = latest /\ followed' = followed
  BY <1>8 DEF repVars, pageVars, Answer, Fail, OtherLands, Book, Move, Refund, Pay, Restock
<1> QED
  BY <1>1, <1>2, <1>4, <1>5, <1>6, <1>7, <1>8 DEF ReportsNext, QuickActions

\* What the page was told shows in the list that it asks for last.
LEMMA OwnActionsNearKept ==
  ASSUME ReportsTypeOK, OwnActionsNear, [ReportsNext]_repVars
  PROVE  OwnActionsNear'
<1>0. /\ told \subseteq Decided /\ Decided \subseteq Res /\ latest \in Nat
      /\ resStatus \in [Res -> Status \cup {NoStatus}]
  BY DEF Decided, ReportsTypeOK, PageTypeOK
<1>1. \A r \in Decided : resStatus'[r] \notin {NoStatus, "PENDING"}
  BY <1>0, DecidedStays DEF OwnActionsNear
<1>2. \A r \in Decided' : resStatus'[r] \notin {NoStatus, "PENDING"}
  <2>1. ASSUME NEW a \in acts, QuickStored(a)
        PROVE  resStatus'[a.row] \notin {NoStatus, "PENDING"}
    <3>1. a.row \in Res /\ a.to \notin {NoStatus, "PENDING"}
      BY DEF ReportsTypeOK, PageTypeOK, QuickTargets, NoStatus
    <3> QED
      BY <1>0, <2>1, <3>1 DEF QuickStored
  <2> QED
    BY <1>1, <2>1, DecidedMoves
<1>3. ASSUME Kind' \in Acting, followed' = latest', Heard("list")'
      PROVE  told' \cap ListHolding("PENDING")' = {}
  <2>1. Kind' = Kind
    BY ThreeCases, SameScreen
  <2>2. ASSUME NEW a \in acts, QuickDone(a) PROVE FALSE
    <3>1. latest' = latest + 1 /\ followed' = followed
      BY <2>2 DEF QuickDone, LoadAgain
    <3>2. got' = Blank(Kind) /\ Kind \in Kinds
      BY <1>3, <2>2, <3>1 DEF QuickDone, LoadAgain, ReportsTypeOK, Kind
    <3> QED
      BY <1>3, <2>1, <3>2, OpenQueries DEF Heard, Answered
  <2>3. told' = told /\ latest' = latest /\ followed' = followed
    BY <2>2, DecidedMoves
  <2>4. CASE TablesMove
    <3>1. Heard("list") /\ got' = got
      BY <1>3, <2>4, HeardStays
    <3> QED
      BY <1>3, <2>1, <2>3, <3>1 DEF OwnActionsNear, ListHolding, ListRows
  <2>5. CASE PageReloads
    BY <1>3, <2>5, NothingHeard
  <2>6. CASE Hears
    <3>1. Kept("list") \/ News("list")
      BY <1>3, <2>1, <2>6 DEF Hears, Heard
    <3>2. CASE Kept("list")
      BY <1>3, <2>1, <2>3, <3>2 DEF Kept, OwnActionsNear, ListHolding, ListRows
    <3>3. CASE News("list")
      <4>1. \A r \in ListRows' : got'["list"][r] = resStatus[r]
        BY <2>6, <3>3, FreshList DEF Hears
      <4> QED
        BY <1>0, <2>3, <4>1 DEF OwnActionsNear, ListHolding
    <3> QED
      BY <3>1, <3>2, <3>3
  <2> QED
    BY <2>4, <2>5, <2>6, ThreeCases
<1> QED
  BY <1>2, <1>3 DEF OwnActionsNear

-----------------------------------------------------------------------------
\* Screens: the theorems

\* Nothing is off before anything is heard.
LEMMA NothingOffFirst == ReportsInit => AnswersNear
<1> SUFFICES ASSUME ReportsInit PROVE AnswersNear
  OBVIOUS
<1>1. \A q : ~Heard(q)
  BY NothingHeardFirst
<1>2. FailuresTogether
  <2>1. Kind \in Kinds /\ got = Blank(Kind)
    BY DEF ReportsInit, Kind
  <2>2. \A q \in Queries[Kind] : got[q] = Missing
    BY <2>1, OpenQueries
  <2> QED
    BY <2>2, ReportsAssumption DEF FailuresTogether
<1>3. OwnActionsNear
  BY <1>1 DEF ReportsInit, Decided, OwnActionsNear
<1> QED
  BY <1>1, <1>2, <1>3 DEF AnswersNear, FiguresNear, ListNear, SummaryNear, StockNear,
                          TillNear, RankingNear, SpendNear, ProfileNear

\* Whatever a page has been answered, and in whatever order, is off by no more
\* than what the tables changed since.
THEOREM AnswersStayNear == ReportsSpec => [](ReportsTypeOK /\ AnswersNear)
<1>1. ReportsInit => ReportsTypeOK /\ AnswersNear
  BY ReportsTypedFirst, NothingOffFirst
<1>2. ReportsTypeOK /\ AnswersNear /\ [ReportsNext]_repVars => ReportsTypeOK' /\ AnswersNear'
  BY ReportsTypesKept, FiguresNearKept, FailuresTogetherKept, ListNearKept, SummaryNearKept,
     StockNearKept, TillNearKept, RankingNearKept, SpendNearKept, ProfileNearKept,
     OwnActionsNearKept
     DEF AnswersNear
<1> QED
  BY <1>1, <1>2, PTL DEF ReportsSpec

-----------------------------------------------------------------------------
\* Screens: what they show

\* The rows of the tables, and what has been heard when every answer has come
LEMMA ScreenRows ==
  ASSUME ReportsTypeOK
  PROVE  /\ writes \in Nat /\ Kind \in Kinds
         /\ In(BILLABLE) = Rows \ In({"REJECTED", "CANCELLED"})
         /\ Kind # "mine" => /\ Listable = Rows /\ \A s \in Status : Holding(s) = In({s})
                             /\ Earning = Rows \ In({"REJECTED", "CANCELLED"})
         /\ Complete => \A q \in Queries[Kind] :
              (Kind \in Lenient => got[q] # Failed) => Heard(q)
<1>1. writes \in Nat /\ Kind \in Kinds
  BY ReportsAssumption DEF ReportsTypeOK, Kind
<1>2. \A r \in Res : resStatus[r] \in Status \cup {NoStatus}
  BY DEF ReportsTypeOK
<1>3. In(BILLABLE) = Rows \ In({"REJECTED", "CANCELLED"})
  BY <1>2 DEF In, BILLABLE, Rows, Status, NoStatus
<1>4. Kind # "mine" => /\ Listable = Rows /\ \A s \in Status : Holding(s) = In({s})
                       /\ Earning = Rows \ In({"REJECTED", "CANCELLED"})
  BY <1>2 DEF Listable, Holding, Earning, In, Rows, Status, NoStatus
<1>5. Complete => \A q \in Queries[Kind] : (Kind \in Lenient => got[q] # Failed) => Heard(q)
  BY DEF Complete, Heard
<1> QED
  BY <1>1, <1>3, <1>4, <1>5

\* The page's own tallies are those of the list that it has got, or none.
LEMMA ListShown ==
  ASSUME ReportsTypeOK, Complete, Kind \in {"kpis", "desk", "mine"}
  PROVE  /\ got["list"] # Failed =>
              /\ Heard("list") /\ DOMAIN List = ListRows /\ List = got["list"]
              /\ \A s : Tally(s) = Cardinality(ListHolding(s))
              /\ ListRevenue = Sum(Price, ListEarning)
         /\ got["list"] = Failed => DOMAIN List = {} /\ \A s : Tally(s) = 0
<1>1. "list" \in Queries[Kind] /\ Kind \in Lenient
  BY DEF Queries, Lenient
<1>2. CASE got["list"] # Failed
  <2>1. Heard("list") /\ List = got["list"]
    BY <1>1, <1>2, ScreenRows DEF List
  <2>2. DOMAIN List = ListRows /\ \A s : {r \in DOMAIN List : List[r] = s} = ListHolding(s)
    BY <2>1 DEF ListRows, ListHolding
  <2>3. {r \in DOMAIN List : List[r] \notin {"REJECTED", "CANCELLED"}} = ListEarning
    BY <2>1 DEF ListRows, ListEarning
  <2> QED
    BY <1>2, <2>1, <2>2, <2>3 DEF Tally, ListRevenue
<1>3. CASE got["list"] = Failed
  <2> DEFINE none == {}
  <2>1. DOMAIN List = none
    BY <1>3 DEF List
  <2>2. \A s : {r \in DOMAIN List : List[r] = s} = none
    BY <2>1
  <2> QED
    BY <1>3, <2>1, <2>2, FS_EmptySet DEF Tally
<1> QED
  BY <1>2, <1>3

\* The admin's cards
LEMMA CardsAgreeHolds == ReportsTypeOK /\ AnswersNear => CardsAgree
<1> SUFFICES ASSUME ReportsTypeOK, AnswersNear, Kind = "kpis", Complete,
                    got["pending"] = Failed => WholeList
             PROVE  /\ Differ(AdminCards.pending, Now("PENDING"), 1)
                    /\ Differ(AdminCards.active, Now("ACTIVE"), 1)
                    /\ Differ(AdminCards.revenue,
                              Sum(Price, Rows \ In({"REJECTED", "CANCELLED"})), Largest(Price))
  BY DEF CardsAgree
<1>1. /\ {"pending", "active", "revenue"} \subseteq Queries[Kind] \cap Figures \cap StatsQueries
      /\ Kind \in Lenient
  BY DEF Queries, Figures, StatsQueries, Lenient
<1>2. /\ AdminCards.pending = Card("pending", Tally("PENDING"))
      /\ AdminCards.active = Card("active", Tally("ACTIVE"))
      /\ AdminCards.revenue = Card("revenue", ListRevenue)
  BY DEF AdminCards
<1>3. /\ Figure("pending") = Now("PENDING") /\ StepOf("pending") = 1
      /\ Figure("active") = Now("ACTIVE") /\ StepOf("active") = 1
      /\ Figure("revenue") = Sum(Price, Rows \ In({"REJECTED", "CANCELLED"}))
      /\ StepOf("revenue") = Largest(Price)
  BY ScreenRows DEF Figure, StepOf, Now
<1>4. CASE got["pending"] # Failed
  <2>1. got["active"] # Failed /\ got["revenue"] # Failed
    BY <1>1, <1>4 DEF AnswersNear, FailuresTogether
  <2>2. Heard("pending") /\ Heard("active") /\ Heard("revenue")
    BY <1>1, <1>4, <2>1, ScreenRows
  <2>3. \A q \in {"pending", "active", "revenue"} : Differ(got[q], Figure(q), StepOf(q))
    BY <1>1, <2>2 DEF AnswersNear, FiguresNear
  <2> QED
    BY <1>2, <1>3, <1>4, <2>1, <2>3 DEF Card
<1>5. CASE got["pending"] = Failed
  <2>1. got["active"] = Failed /\ got["revenue"] = Failed
    BY <1>1, <1>5 DEF AnswersNear, FailuresTogether
  <2>2. /\ Heard("list") /\ Cardinality(ListRows) < ListCap
        /\ \A s : Tally(s) = Cardinality(ListHolding(s))
        /\ ListRevenue = Sum(Price, ListEarning)
    BY <1>5, ListShown DEF WholeList
  <2>3. /\ \A s \in Status : Differ(Cardinality(ListHolding(s)), Cardinality(Holding(s)), 1)
        /\ Differ(Sum(Price, ListEarning), Sum(Price, Earning), Largest(Price))
    BY <2>2 DEF AnswersNear, ListNear
  <2>4. /\ \A s \in Status : Cardinality(Holding(s)) = Now(s)
        /\ Earning = Rows \ In({"REJECTED", "CANCELLED"})
    BY ScreenRows DEF Now
  <2>5. {"PENDING", "ACTIVE"} \subseteq Status
    BY DEF Status
  <2> QED
    BY <1>2, <1>5, <2>1, <2>2, <2>3, <2>4, <2>5 DEF Card
<1> QED
  BY <1>4, <1>5

\* The cards of the other roles
LEMMA TalliesAgreeHolds == ReportsTypeOK /\ AnswersNear => TalliesAgree
<1> SUFFICES ASSUME ReportsTypeOK, AnswersNear, Kind = "desk", Complete,
                    NEW s \in DOMAIN StaffCards
             PROVE  /\ StaffCards[s] <= Now(s) + writes
                    /\ WholeList => Differ(StaffCards[s], Now(s), 1)
                    /\ s \in DOMAIN WarehouseCards => WarehouseCards[s] = StaffCards[s]
  BY DEF TalliesAgree
<1>1. s \in Status /\ StaffCards[s] = Tally(s)
  BY DEF StaffCards, Status
<1>2. s \in DOMAIN WarehouseCards => WarehouseCards[s] = Tally(s)
  BY DEF WarehouseCards
<1>3. Now(s) = Cardinality(Holding(s)) /\ Now(s) \in Nat /\ writes \in Nat
  <2>1. In({s}) \in SUBSET Res /\ In({s}) \ {Res} = In({s}) \ {Res}
    BY DEF In
  <2>2. Cardinality(In({s})) \in Nat
    BY <2>1, BookingsNear
  <2> QED
    BY <1>1, <2>2, ScreenRows DEF Now
<1>4. CASE got["list"] # Failed
  <2>1. Heard("list") /\ Tally(s) = Cardinality(ListHolding(s)) /\ DOMAIN List = ListRows
    BY <1>4, ListShown
  <2>2. /\ Cardinality(ListHolding(s)) <= Cardinality(Holding(s)) + writes
        /\ Cardinality(ListRows) < ListCap =>
             Differ(Cardinality(ListHolding(s)), Cardinality(Holding(s)), 1)
    BY <1>1, <2>1 DEF AnswersNear, ListNear
  <2> QED
    BY <1>1, <1>2, <1>3, <2>1, <2>2 DEF WholeList
<1>5. CASE got["list"] = Failed
  <2>1. Tally(s) = 0 /\ ~WholeList
    BY <1>5, ListShown DEF WholeList
  <2> QED
    BY <1>1, <1>2, <1>3, <2>1
<1> QED
  BY <1>4, <1>5

\* The quick actions
LEMMA QuickActionsHold == ReportsTypeOK /\ AnswersNear => QuickActionsApply
<1> SUFFICES ASSUME ReportsTypeOK, AnswersNear, Kind \in Acting, Complete,
                    writes = 0, NEW r \in PendingRows, NEW s \in QuickTargets
             PROVE  ValidTransition(resStatus[r], s)
  BY DEF QuickActionsApply
<1>0. Kind \in {"kpis", "desk", "mine"}
  BY DEF Acting
<1>1. got["list"] # Failed
  BY <1>0, ListShown DEF PendingRows
<1>2. Heard("list") /\ r \in ListRows /\ got["list"][r] = "PENDING"
  BY <1>0, <1>1, ListShown DEF PendingRows
<1>3. resStatus[r] = "PENDING"
  BY <1>2 DEF AnswersNear, ListNear
<1> QED
  BY <1>3 DEF ValidTransition, Transitions, QuickTargets

\* What the page was told of its own actions
LEMMA OwnActionsHold == ReportsTypeOK /\ AnswersNear => OwnActionsShow
<1> SUFFICES ASSUME ReportsTypeOK, AnswersNear, Kind \in Acting, Complete, followed = latest
             PROVE  told \cap PendingRows = {}
  BY DEF OwnActionsShow
<1>0. Kind \in {"kpis", "desk", "mine"}
  BY DEF Acting
<1>1. CASE got["list"] # Failed
  <2>1. Heard("list") /\ PendingRows = ListHolding("PENDING")
    BY <1>0, <1>1, ListShown DEF PendingRows, ListHolding
  <2> QED
    BY <2>1 DEF AnswersNear, OwnActionsNear
<1>2. CASE got["list"] = Failed
  BY <1>0, <1>2, ListShown DEF PendingRows
<1> QED
  BY <1>1, <1>2

\* Sets that are hardly apart have hardly more than each other.
LEMMA ApartBounds ==
  ASSUME NEW S, IsFiniteSet(S), NEW a \in SUBSET S, NEW b \in SUBSET S, NEW c, c \subseteq Apart(a, b)
  PROVE  Cardinality(c) \in Nat /\ Cardinality(c) <= Cardinality(Apart(a, b))
<1>1. Apart(a, b) \in SUBSET S
  BY DEF Apart
<1>2. IsFiniteSet(Apart(a, b))
  BY <1>1, FS_Subset
<1> QED
  BY <1>2, SizeOfPart

\* The alerts of the stock
LEMMA StockAgreesHolds == ReportsTypeOK /\ AnswersNear => StockAgrees
<1> DEFINE low   == {p \in Shelf : Low(stock[p])}
           units == Sum(Catalog, DOMAIN Catalog)
           M     == Max(Stocks)
<1> SUFFICES ASSUME ReportsTypeOK, AnswersNear, Kind = "stock", Complete
             PROVE  /\ Cardinality(LowItems \ low) <= writes
                    /\ WholeCatalog /\ Optimal => Cardinality(low) <= writes
                    /\ got["low"] # Failed =>
                         /\ Cardinality(LowItems \ got["low"]) <= writes
                         /\ units <= got["units"] + writes * M
                         /\ WholeCatalog =>
                              /\ Cardinality(got["low"] \ LowItems) <= writes
                              /\ Differ(got["units"], units, M)
  BY DEF StockAgrees
<1>0. low = LowNow /\ writes \in Nat /\ M \in Nat /\ IsFiniteSet(Shelf) /\ low \in SUBSET Shelf
  BY ScreenRows, ReportConstants, StockMoves DEF LowNow
<1>1. {"catalog", "low", "units"} \subseteq Queries[Kind] /\ Kind \in Lenient
  BY DEF Queries, Lenient
<1>2. ASSUME got["low"] # Failed
      PROVE  /\ Heard("low") /\ Heard("units") /\ got["units"] \in Nat
             /\ got["low"] \in SUBSET Shelf
  <2>1. "low" \in StatsQueries /\ {"low", "units"} \subseteq Queries[Kind]
    BY <1>1 DEF StatsQueries
  <2>2. got["units"] # Failed
    BY <1>2, <2>1 DEF AnswersNear, FailuresTogether
  <2>3. Heard("units") /\ Heard("low")
    BY <1>1, <1>2, <2>2, ScreenRows
  <2> QED
    BY <2>3 DEF AnswersNear, StockNear, FiguresNear, Figures
<1>3. CASE got["catalog"] # Failed
  <2>1. Heard("catalog") /\ Catalog = got["catalog"]
    BY <1>1, <1>3, ScreenRows DEF Catalog
  <2>2. /\ Listed = Newest(Shelf, ListCap) /\ got["catalog"] \in [Listed -> Stocks]
        /\ Cardinality(Apart(LowListed, LowNow \cap Listed)) <= writes
        /\ Heard("low") => Cardinality(Apart(got["low"] \cap Listed, LowListed)) <= writes
        /\ Heard("units") => /\ ListedUnits <= got["units"] + writes * M
                             /\ Listed = Shelf => Differ(got["units"], ListedUnits, M)
    BY <2>1 DEF AnswersNear, StockNear
  <2>3. DOMAIN Catalog = Listed /\ LowItems = LowListed /\ units = ListedUnits
    BY <2>1, <2>2 DEF LowItems, LowListed, Low, Listed, ListedUnits
  <2>4. Listed \in SUBSET Shelf /\ LowListed \in SUBSET Listed /\ (WholeCatalog => Listed = Shelf)
    BY <2>2, <2>3, CatalogRows DEF WholeCatalog, LowListed
  <2>5. Cardinality(LowItems \ low) <= writes
    <3>1. LowItems \ low \subseteq Apart(LowListed, LowNow \cap Listed)
      BY <1>0, <2>3 DEF Apart
    <3>2. LowListed \in SUBSET Shelf /\ LowNow \cap Listed \in SUBSET Shelf
      BY <1>0, <2>4
    <3>3. /\ Cardinality(LowItems \ low) \in Nat
          /\ Cardinality(LowItems \ low) <= Cardinality(Apart(LowListed, LowNow \cap Listed))
      BY <1>0, <3>1, <3>2, ApartBounds
    <3>4. Cardinality(Apart(LowListed, LowNow \cap Listed)) \in Nat
      BY <1>0, <3>2, ApartBounds
    <3> QED
      BY <1>0, <2>2, <3>3, <3>4
  <2>6. ASSUME WholeCatalog, Optimal PROVE Cardinality(low) <= writes
    <3>1. Apart(LowListed, LowNow \cap Listed) = low
      BY <1>0, <2>3, <2>4, <2>6 DEF Apart, Optimal
    <3> QED
      BY <2>2, <3>1
  <2>7. ASSUME got["low"] # Failed
        PROVE  /\ Cardinality(LowItems \ got["low"]) <= writes
               /\ units <= got["units"] + writes * M
               /\ WholeCatalog => /\ Cardinality(got["low"] \ LowItems) <= writes
                                  /\ Differ(got["units"], units, M)
    <3> DEFINE a == got["low"] \cap Listed
    <3>1. a \in SUBSET Shelf /\ LowListed \in SUBSET Shelf
      BY <2>4
    <3>2. LowItems \ got["low"] \subseteq Apart(a, LowListed)
      BY <2>3 DEF Apart
    <3>3. WholeCatalog => got["low"] \ LowItems \subseteq Apart(a, LowListed)
      BY <1>2, <2>3, <2>4, <2>7 DEF Apart
    <3>4. Cardinality(Apart(a, LowListed)) <= writes
      BY <1>2, <2>2, <2>7
    <3>5. Cardinality(Apart(a, LowListed)) \in Nat
      <4> HIDE DEF a
      <4> QED
        BY <1>0, <3>1, ApartBounds
    <3>6. Cardinality(LowItems \ got["low"]) <= writes
      <4> HIDE DEF a
      <4>1. /\ Cardinality(LowItems \ got["low"]) \in Nat
            /\ Cardinality(LowItems \ got["low"]) <= Cardinality(Apart(a, LowListed))
        BY <1>0, <3>1, <3>2, ApartBounds
      <4> QED
        BY <1>0, <3>4, <3>5, <4>1
    <3>7. WholeCatalog => Cardinality(got["low"] \ LowItems) <= writes
      <4> HIDE DEF a
      <4>1. WholeCatalog =>
              /\ Cardinality(got["low"] \ LowItems) \in Nat
              /\ Cardinality(got["low"] \ LowItems) <= Cardinality(Apart(a, LowListed))
        BY <1>0, <3>1, <3>3, ApartBounds
      <4> QED
        BY <1>0, <3>4, <3>5, <4>1
    <3> QED
      BY <1>2, <2>2, <2>3, <2>4, <2>7, <3>6, <3>7
  <2> QED
    BY <2>5, <2>6, <2>7
<1>4. CASE got["catalog"] = Failed
  <2>1. Catalog = [p \in {} |-> 0] /\ ~WholeCatalog
    BY <1>4 DEF Catalog, WholeCatalog
  <2>2. DOMAIN Catalog = {} /\ LowItems = {} /\ LowItems \ low = {}
        /\ LowItems \ got["low"] = {}
    BY <2>1 DEF LowItems
  <2>3. units = 0 /\ Cardinality({}) = 0
    BY <2>2, SumIs, SumOfNone, FS_EmptySet
  <2>4. PICK m \in Nat : m = writes * M
    <3> HIDE DEF M
    <3> QED
      BY <1>0, EqualsDiffer
  <2>5. Cardinality(LowItems \ low) <= writes
    BY <1>0, <2>2, <2>3
  <2>6. ASSUME got["low"] # Failed
        PROVE  Cardinality(LowItems \ got["low"]) <= writes /\ units <= got["units"] + writes * M
    <3>1. units <= got["units"] + m
      BY <1>2, <2>3, <2>4, <2>6
    <3> QED
      BY <1>0, <2>2, <2>3, <2>4, <3>1
  <2> QED
    BY <2>1, <2>5, <2>6
<1> QED
  BY <1>3, <1>4

\* A share of a whole is at most all of it.
LEMMA ShareBounded ==
  ASSUME NEW d \in Nat \ {0}, NEW u \in Nat, u <= d
  PROVE  (100 * u) \div d <= 100
BY SMT

\* The ranking
LEMMA RankingIsTopHolds == ReportsTypeOK /\ AnswersNear => RankingIsTop
<1> DEFINE top == got["grouped"]
           listed == {Bars[k].product : k \in DOMAIN Bars}
<1> SUFFICES ASSUME ReportsTypeOK, AnswersNear, Kind = "ranking", Complete,
                    got["grouped"] # Failed, NEW k \in DOMAIN Bars
             PROVE  /\ Bars[k].share <= 100
                    /\ \A p \in Rented \ listed :
                         UnitsRented(p) <= top[k].units + writes * Largest(Units)
  BY DEF RankingIsTop
<1>1. "grouped" \in Queries[Kind]
  BY DEF Queries
<1>2. Heard("grouped")
  BY <1>1, ScreenRows
<1>3. /\ \A j \in DOMAIN top :
           /\ j \in Nat /\ 1 \in DOMAIN top
           /\ top[j].units \in Nat \ {0} /\ top[j].units <= top[1].units
      /\ \A p \in Products : (\A j \in DOMAIN top : top[j].product # p) =>
           \A j \in DOMAIN top : UnitsRented(p) <= top[j].units + writes * Largest(Units)
  BY <1>2 DEF AnswersNear, RankingNear
<1>4. DOMAIN Bars = DOMAIN top
  BY DEF Bars
<1>5. \A j \in DOMAIN top : /\ Bars[j].product = top[j].product
                            /\ Bars[j].share = (100 * top[j].units) \div top[1].units
  BY DEF Bars
<1>6. Bars[k].share <= 100
  <2>1. /\ top[k].units \in Nat /\ top[1].units \in Nat \ {0}
        /\ top[k].units <= top[1].units
    BY <1>3, <1>4
  <2> QED
    BY <1>4, <1>5, <2>1, ShareBounded
<1>7. ASSUME NEW p \in Rented \ listed
      PROVE  UnitsRented(p) <= top[k].units + writes * Largest(Units)
  <2>1. p \in Products /\ \A j \in DOMAIN top : top[j].product # p
    BY <1>4, <1>5, <1>7 DEF Rented
  <2> QED
    BY <1>3, <1>4, <2>1
<1> QED
  BY <1>6, <1>7

\* The customer's dashboard
LEMMA SummaryAgreesHolds == ReportsTypeOK /\ AnswersNear => SummaryAgrees
<1> SUFFICES ASSUME ReportsTypeOK, AnswersNear, Kind = "mine", Complete
             PROVE  /\ WholeList => Differ(got["requests"], Tally("PENDING"), 1)
                    /\ CustomerCards.active <= got["rentals"] + writes
                    /\ CustomerCards.total <= Cardinality(Own(Viewer))
  BY DEF SummaryAgrees
<1>1. {"rentals", "requests", "list"} \subseteq Queries[Kind]
  BY DEF Queries
<1>2. got["rentals"] # Failed /\ got["requests"] # Failed
  BY <1>1 DEF AnswersNear, FailuresTogether
<1>3. Heard("rentals") /\ Heard("requests") /\ {"rentals", "requests"} \subseteq Figures
  BY <1>1, <1>2, ScreenRows DEF Figures
<1>4. /\ CustomerCards.active = Tally("ACTIVE")
      /\ CustomerCards.total = Cardinality(DOMAIN List)
  BY DEF CustomerCards
<1>5. /\ got["rentals"] \in Nat /\ writes \in Nat
      /\ Own(Viewer) \in SUBSET Res /\ IsFiniteSet(Own(Viewer)) /\ Cardinality(Own(Viewer)) \in Nat
  BY <1>3, ScreenRows, OwnGrows DEF AnswersNear, FiguresNear
<1>6. CASE got["list"] # Failed
  <2>1. Heard("list") /\ DOMAIN List = ListRows /\ \A s : Tally(s) = Cardinality(ListHolding(s))
    BY <1>6, ListShown
  <2>2. /\ Cardinality(ListHolding("ACTIVE")) <= got["rentals"] + writes
        /\ Cardinality(ListRows) < ListCap =>
             Differ(got["requests"], Cardinality(ListHolding("PENDING")), 1)
    BY <1>3, <2>1 DEF AnswersNear, SummaryNear
  <2>3. ListRows \subseteq Own(Viewer)
    BY <2>1 DEF AnswersNear, ListNear, Listable
  <2>4. Cardinality(ListRows) <= Cardinality(Own(Viewer))
    BY <1>5, <2>3, SizeOfPart
  <2> QED
    BY <1>4, <2>1, <2>2, <2>4 DEF WholeList
<1>7. CASE got["list"] = Failed
  <2> DEFINE none == {}
  <2>1. DOMAIN List = none /\ Tally("ACTIVE") = 0 /\ ~WholeList
    BY <1>7, ListShown DEF WholeList
  <2>2. Cardinality(none) = 0
    BY FS_EmptySet
  <2>3. CustomerCards.active = 0 /\ CustomerCards.total = 0
    BY <1>4, <2>1, <2>2
  <2> QED
    BY <1>5, <2>1, <2>3
<1> QED
  BY <1>6, <1>7

\* The till
LEMMA TillBalancesHolds == ReportsTypeOK /\ AnswersNear => TillBalances
<1> SUFFICES ASSUME ReportsTypeOK, AnswersNear, Kind = "till", Complete
             PROVE  /\ Differ(got["collected"] + got["refunded"],
                              Sum(Due, PaymentsIn({"PAID", "REFUNDED"})), Largest(Due))
                    /\ Differ(got["rows"], Sum(got["tabs"], DOMAIN got["tabs"]), 1)
  BY DEF TillBalances
<1>1. {"rows", "tabs", "collected", "refunded"} \subseteq Queries[Kind] /\ Kind \notin Lenient
  BY DEF Queries, Lenient
<1>2. Heard("collected") /\ Heard("refunded") /\ Heard("tabs") /\ Heard("rows")
  BY <1>1, ScreenRows
<1> QED
  BY <1>2 DEF AnswersNear, TillNear

\* The directory
LEMMA SpendIsTheirsHolds == ReportsTypeOK /\ AnswersNear => SpendIsTheirs
<1> SUFFICES ASSUME ReportsTypeOK, AnswersNear, Kind = "directory", Complete,
                    NEW u \in got["users"]
             PROVE  Differ(SpendOf(u), PaidBy(u), Largest(Due))
  BY DEF SpendIsTheirs
<1>1. {"spend", "owners"} \subseteq Queries[Kind] /\ Kind \notin Lenient
  BY DEF Queries, Lenient
<1>2. Heard("spend") /\ Heard("owners")
  BY <1>1, ScreenRows
<1> DEFINE paid == DOMAIN got["spend"]
<1>3. /\ \A r \in paid : got["owners"][r] = Renter[r]
      /\ Differ(Sum(got["spend"], SpendRowsOf(u)), PaidBy(u), Largest(Due))
  BY <1>2 DEF AnswersNear, SpendNear
<1>4. {r \in paid : got["owners"][r] = u} = SpendRowsOf(u)
  BY <1>3 DEF SpendRowsOf
<1>5. SpendOf(u) = Sum(got["spend"], SpendRowsOf(u))
  BY <1>4 DEF SpendOf
<1> QED
  BY <1>3, <1>5

\* The profile
LEMMA ProfileAgreesHolds == ReportsTypeOK /\ AnswersNear => ProfileAgrees
<1> SUFFICES ASSUME ReportsTypeOK, AnswersNear, Kind = "profile", Complete PROVE ProfileAgrees
  BY DEF ProfileAgrees
<1>1. "profile" \in Queries[Kind] /\ Kind \notin Lenient
  BY DEF Queries, Lenient
<1>2. Heard("profile")
  BY <1>1, ScreenRows
<1> QED
  BY <1>2 DEF AnswersNear, ProfileNear, ProfileAgrees

\* No screen contradicts the tables, or another screen, by more than what the
\* tables changed while it loaded.
THEOREM ScreensNeverDisagree == ReportsSpec => []ScreensAgree
<1>1. ReportsTypeOK /\ AnswersNear => ScreensAgree
  BY CardsAgreeHolds, TalliesAgreeHolds, QuickActionsHold, OwnActionsHold, StockAgreesHolds,
     RankingIsTopHolds,
     SummaryAgreesHolds, TillBalancesHolds, SpendIsTheirsHolds, ProfileAgreesHolds
     DEF ScreensAgree
<1> QED
  BY <1>1, AnswersStayNear, PTL

=============================================================================
