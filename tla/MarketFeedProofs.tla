-------------------------- MODULE MarketFeedProofs --------------------------
(***************************************************************************)
(* Theorems about the market-data path for every tape, page size, limit of *)
(* attempts and number of faults: types, what the files on disk promise    *)
(* and what the engine has taken of them.                                  *)
(*                                                                         *)
(* Until two calls have published one temporary file between them, a call  *)
(* puts its own file in place, however the two processes interleave        *)
(* (CleanReplace), and a row that was on file stays there or is known to   *)
(* be lost (Keeps), so that an hour once accounted for stays so.  What is  *)
(* pending is described by what it will account for: the file of a         *)
(* backfill or of the ingestion misses no unaccounted hour below its       *)
(* newest row (Leaves), and a live candle may skip only what lies beyond   *)
(* the backfills' reach.  That every candle is one the exchange published  *)
(* holds of a mix of two files as well.                                    *)
(*                                                                         *)
(* The structure the engine builds is a fold over its candles, which is    *)
(* unrolled one candle at a time (DetectAllAppend): what a run over all of *)
(* them gives is what the running engine holds (Rebuilt).  A block that    *)
(* formed while it ran is followed from its break on (Follows).  The break *)
(* itself must not invalidate its block, so the pivots the detectors track *)
(* are kept within the bars they were taken from (PivotsAre).              *)
(***************************************************************************)
EXTENDS MarketFeed, TLAPS, FiniteSetTheorems, SequenceTheorems, WellFoundedInduction

-----------------------------------------------------------------------------
(* Sets of hours.                                                          *)

\* A set of numbers has a least one.
LEMMA LeastExists ==
    ASSUME NEW S \in SUBSET Nat, S # {}
    PROVE  \E m \in S : \A k \in S : m <= k
<1> DEFINE R == OpToRel(<, Nat)
<1>1. IsWellFoundedOn(R, Nat)
  BY NatLessThanWellFounded
<1>2. \A x, y \in Nat : <<y, x>> \in R <=> y < x
  BY DEF OpToRel
<1> HIDE DEF R
<1>3. PICK m \in S : \A k \in S : ~(<<k, m>> \in R)
  BY <1>1, WFMin
<1>4. \A k \in S : k \in Nat /\ m \in Nat
  OBVIOUS
<1>5. \A k \in S : ~(k < m)
  BY <1>2, <1>3, <1>4
<1>6. \A k \in S : m <= k
  BY <1>4, <1>5
<1> QED
  BY <1>6

\* The newest of some hours.
LEMMA MaxHourFacts ==
    ASSUME NEW n \in Nat, NEW S \in SUBSET (1..n)
    PROVE  /\ MaxHour(S) \in 0..n
           /\ S = {} => MaxHour(S) = 0
           /\ S # {} => MaxHour(S) \in S
           /\ \A k \in S : k <= MaxHour(S)
<1>1. CASE S = {}
  BY <1>1 DEF MaxHour
<1>2. CASE S # {}
  <2> DEFINE T == {n - k : k \in S}
  <2>a. \A k \in S : k \in Int /\ 1 <= k /\ k <= n
    OBVIOUS
  <2>b. \A k \in S : n - k \in Nat
    BY <2>a
  <2>1. T \in SUBSET Nat /\ T # {}
    BY <1>2, <2>b
  <2>2. PICK m \in T : \A k \in T : m <= k
    BY <2>1, LeastExists
  <2>3. PICK g \in S : m = n - g
    BY <2>2
  <2>4. \A k \in S : n - k \in T
    OBVIOUS
  <2> HIDE DEF T
  <2>5. ASSUME NEW k \in S PROVE k <= g
    <3>1. m <= n - k
      BY <2>2, <2>4
    <3>2. k \in Int /\ g \in Int
      BY <2>a
    <3> QED
      BY <2>3, <3>1, <3>2
  <2>6. MaxHour(S) = CHOOSE h \in S : \A k \in S : k <= h
    BY <1>2 DEF MaxHour
  <2>7. MaxHour(S) \in S /\ \A k \in S : k <= MaxHour(S)
    BY <2>5, <2>6
  <2>8. MaxHour(S) \in 0..n
    <3> DEFINE x == MaxHour(S)
    <3>1. x \in Int /\ 1 <= x /\ x <= n
      BY <2>7, <2>a
    <3> HIDE DEF x
    <3>2. x \in 0..n
      BY <3>1
    <3> QED
      BY <3>2 DEF x
  <2> QED
    BY <1>2, <2>7, <2>8
<1> QED
  BY <1>1, <1>2

\* The numbers of a file's metadata are bounded by the hours it may hold.
LEMMA DescribeTyped ==
    ASSUME NEW n \in Nat, NEW file, DOMAIN file \subseteq 1..n
    PROVE  Describe(file) \in [count: 0..n, last: 0..n, gaps: 0..n]
<1>1. IsFiniteSet(1..n) /\ Cardinality(1..n) = n
  BY FS_Interval
<1>2. ASSUME NEW S \in SUBSET (1..n) PROVE Cardinality(S) \in 0..n
  <2>1. IsFiniteSet(S) /\ Cardinality(S) <= n
    BY <1>1, FS_Subset
  <2> QED
    BY <2>1, FS_CardinalityType
<1>3. DetectGaps(file) \in SUBSET (1..n)
  BY DEF DetectGaps
<1>4. MaxHour(DOMAIN file) \in 0..n
  BY MaxHourFacts
<1> QED
  BY <1>2, <1>3, <1>4 DEF Describe

-----------------------------------------------------------------------------
(* The rows of a file.                                                     *)

\* How many hours of a set come before one.
Before(S, h) == {k \in S : k < h}

\* The n-th hour of a file exists, for every n up to their number.
LEMMA NthExists ==
    ASSUME NEW n \in Nat, NEW S \in SUBSET (1..n)
    PROVE  /\ IsFiniteSet(S) /\ Cardinality(S) \in Nat
           /\ \A h, k \in S : h < k => Cardinality(Before(S, h)) < Cardinality(Before(S, k))
           /\ \A h \in S : Cardinality(Before(S, h)) \in 0..(Cardinality(S) - 1)
           /\ \A i \in 1..Cardinality(S) : \E h \in S : Cardinality(Before(S, h)) = i - 1
<1>0. IsFiniteSet(1..n)
  BY FS_Interval
<1>1. IsFiniteSet(S) /\ Cardinality(S) \in Nat
  <2>1. IsFiniteSet(S)
    BY <1>0, FS_Subset
  <2> QED
    BY <2>1, FS_CardinalityType
<1>2. \A h \in S : /\ Before(S, h) \in SUBSET S /\ h \notin Before(S, h)
                   /\ IsFiniteSet(Before(S, h)) /\ Cardinality(Before(S, h)) \in Nat
  <2> TAKE h \in S
  <2>1. Before(S, h) \in SUBSET S /\ h \notin Before(S, h)
    BY DEF Before
  <2>2. IsFiniteSet(Before(S, h))
    BY <1>1, <2>1, FS_Subset
  <2> QED
    BY <2>1, <2>2, FS_CardinalityType
<1>3. \A h \in S : IsFiniteSet(Before(S, h) \cup {h})
                   /\ Cardinality(Before(S, h) \cup {h}) = Cardinality(Before(S, h)) + 1
  BY <1>2, FS_AddElement
<1>4. ASSUME NEW h \in S, NEW k \in S, h < k
      PROVE  Cardinality(Before(S, h)) < Cardinality(Before(S, k))
  <2>0. \A x \in S : x \in Int
    OBVIOUS
  <2>1. Before(S, h) \cup {h} \in SUBSET Before(S, k)
    <3>1. Before(S, h) \in SUBSET Before(S, k)
      <4>1. h \in Int /\ k \in Int
        BY <2>0
      <4>2. ASSUME NEW x \in Before(S, h) PROVE x \in Before(S, k)
        <5>1. x \in S /\ x < h /\ x \in Int
          BY <2>0 DEF Before
        <5>2. x < k
          BY <1>4, <4>1, <5>1
        <5> QED
          BY <5>1, <5>2 DEF Before
      <4> QED
        BY <4>2
    <3>2. h \in Before(S, k)
      BY <1>4 DEF Before
    <3> QED
      BY <3>1, <3>2
  <2>2. Cardinality(Before(S, h) \cup {h}) <= Cardinality(Before(S, k))
    BY <1>2, <2>1, FS_Subset
  <2> QED
    BY <1>2, <1>3, <2>2
<1>5. ASSUME NEW h \in S PROVE Cardinality(Before(S, h)) \in 0..(Cardinality(S) - 1)
  <2>1. Before(S, h) \cup {h} \in SUBSET S
    BY <1>2
  <2>2. Cardinality(Before(S, h) \cup {h}) <= Cardinality(S)
    BY <1>1, <2>1, FS_Subset
  <2> QED
    BY <1>1, <1>2, <1>3, <2>2
<1>6. ASSUME NEW i \in 1..Cardinality(S)
      PROVE  \E h \in S : Cardinality(Before(S, h)) = i - 1
  <2> DEFINE T == 0..(Cardinality(S) - 1)
             f == [h \in S |-> Cardinality(Before(S, h))]
  <2>0. 0 \in Int /\ Cardinality(S) - 1 \in Int /\ 0 <= Cardinality(S) - 1
    BY <1>1, <1>6
  <2>1. IsFiniteSet(T) /\ Cardinality(T) = Cardinality(S)
    <3>1. IsFiniteSet(T) /\ Cardinality(T) = (Cardinality(S) - 1) - 0 + 1
      BY <2>0, FS_Interval
    <3> QED
      BY <1>1, <3>1
  <2>2. f \in [S -> T]
    BY <1>5
  <2>3. \A h, k \in S : f[h] = f[k] => h = k
    <3> TAKE h, k \in S
    <3>1. h \in Int /\ k \in Int
      OBVIOUS
    <3>2. h < k \/ k < h \/ h = k
      BY <3>1
    <3> QED
      BY <1>2, <1>4, <3>2
  <2>4. f \in Injection(S, T)
    BY <2>2, <2>3 DEF Injection, IsInjective
  <2> HIDE DEF f, T
  <2>5. f \in Surjection(S, T)
    BY <2>1, <2>4, FS_Injection
  <2>6. i - 1 \in T
    BY <1>1, <1>6 DEF T
  <2>7. \E h \in S : f[h] = i - 1
    BY <2>5, <2>6 DEF Surjection
  <2> QED
    BY <2>7 DEF f
<1> QED
  BY <1>1, <1>4, <1>5, <1>6

\* The rows of a file name its hours, each once and in order.
LEMMA RowsFacts ==
    ASSUME NEW n \in Nat, NEW file, DOMAIN file \subseteq 1..n
    PROVE  /\ Len(Rows(file)) \in Nat /\ DOMAIN Rows(file) = 1..Len(Rows(file))
           /\ Rows(file) = [i \in 1..Len(Rows(file)) |-> Rows(file)[i]]
           /\ \A i \in DOMAIN Rows(file) :
                  /\ Rows(file)[i].hour \in DOMAIN file
                  /\ Rows(file)[i] = Row(file[Rows(file)[i].hour], Rows(file)[i].hour)
           /\ \A i, j \in DOMAIN Rows(file) :
                  i < j => Rows(file)[i].hour < Rows(file)[j].hour
           /\ HoursOf(Rows(file)) = DOMAIN file
<1> DEFINE S == DOMAIN file
           nth(i) == CHOOSE h \in S : Cardinality({k \in S : k < h}) = i - 1
           r == Rows(file)
           c == Cardinality(S)
<1>1. r = [i \in 1..c |-> Row(file[nth(i)], nth(i))]
  BY DEF Rows
<1>2. /\ c \in Nat
      /\ \A h, k \in S : h < k => Cardinality(Before(S, h)) < Cardinality(Before(S, k))
      /\ \A h \in S : Cardinality(Before(S, h)) \in 0..(c - 1)
      /\ \A i \in 1..c : \E h \in S : Cardinality(Before(S, h)) = i - 1
  BY NthExists
<1>3. \A i \in 1..c : nth(i) \in S /\ Cardinality(Before(S, nth(i))) = i - 1
  BY <1>2 DEF Before
<1> HIDE DEF nth
<1>4. Len(r) = c /\ DOMAIN r = 1..c /\ r = [i \in 1..c |-> r[i]]
  BY <1>1, <1>2
<1>5. \A i \in 1..c : r[i].hour = nth(i) /\ r[i] = Row(file[nth(i)], nth(i))
  BY <1>1 DEF Row
<1> HIDE DEF r, c, S
<1>6. \A h, k \in S : h \in Int /\ k \in Int
  BY DEF S
<1>7. ASSUME NEW h \in S, NEW k \in S,
             Cardinality(Before(S, h)) = Cardinality(Before(S, k))
      PROVE  h = k
  <2>1. h < k \/ k < h \/ h = k
    BY <1>6
  <2> QED
    BY <1>2, <1>7, <2>1
<1>8. ASSUME NEW i \in 1..c, NEW j \in 1..c, i < j PROVE nth(i) < nth(j)
  <2>1. /\ nth(i) \in Int /\ nth(j) \in Int /\ nth(i) \in S /\ nth(j) \in S
        /\ Cardinality(Before(S, nth(i))) = i - 1
        /\ Cardinality(Before(S, nth(j))) = j - 1
    BY <1>3, <1>6
  <2>2. ~(nth(j) < nth(i)) /\ nth(i) # nth(j)
    BY <1>2, <1>8, <2>1
  <2> QED
    BY <2>1, <2>2
<1>9. HoursOf(r) = S
  <2>1. HoursOf(r) = {r[i].hour : i \in 1..c}
    BY <1>4 DEF HoursOf
  <2>2. ASSUME NEW h \in S PROVE \E i \in 1..c : r[i].hour = h
    <3> DEFINE i == Cardinality(Before(S, h)) + 1
    <3>1. i \in 1..c /\ i - 1 = Cardinality(Before(S, h))
      BY <1>2
    <3> HIDE DEF i
    <3>2. nth(i) = h
      BY <1>3, <1>7, <3>1
    <3> QED
      BY <1>5, <3>1, <3>2
  <2> QED
    BY <1>3, <1>5, <2>1, <2>2
<1> QED
  BY <1>2, <1>3, <1>4, <1>5, <1>8, <1>9 DEF r, S

-----------------------------------------------------------------------------
(* The inductive invariant.                                                *)

CandleFields == {"low", "high", "close", "wild", "valid", "inYear"}

\* The candle of a row.
CandleOf(row) == [f \in CandleFields |-> row[f]]

\* What rows, handlers and engines are made of.
AllRows == {Row(c, h) : c \in Candles, h \in Nat}
CallFields == {"stage", "file", "loaded", "temp"}
EngineFields == DOMAIN NoEngine
Clients == [phase: Phases, running: BOOLEAN, attempts: Nat, processed: SUBSET Nat, last: Nat]
Jobs == [kind: {"none", "live", "backfill"}, feed: Seq(AllRows)]
Costs == [jumped: SUBSET Nat, cut: SUBSET Nat, lost: SUBSET Nat, unfed: SUBSET Nat,
          amended: SUBSET Nat, torn: BOOLEAN, mixed: BOOLEAN, covered: Nat]

\* Every variable holds a value of its kind; the year of the file ends once.
TapeTyped ==
    /\ tape \in Seq(Candles) /\ now \in 0..Len(tape) /\ faults \in Nat
    /\ \A h, k \in 1..Len(tape) : h < k /\ tape[k].inYear => tape[h].inYear
    /\ \A h \in 1..Len(tape) : tape[h].valid => InOrder(tape[h])

UpsertTyped ==
    /\ upsert = [w \in Writers |-> upsert[w]]
    /\ \A w \in Writers : /\ upsert[w] = [f \in CallFields |-> upsert[w][f]]
                          /\ upsert[w].stage \in Stages

EngineTyped ==
    /\ engine = [f \in EngineFields |-> engine[f]]
    /\ engine.ready \in BOOLEAN /\ engine.last \in 0..now
    /\ engine.candles \in Seq(AllRows)

HolesTyped ==
    /\ holes \in Costs
    /\ {holes.jumped, holes.cut, holes.lost, holes.unfed, holes.amended}
           \subseteq SUBSET (1..now)
    /\ holes.covered \in 0..now

Typed ==
    /\ TapeTyped /\ UpsertTyped /\ EngineTyped /\ HolesTyped
    /\ meta \in [count: 0..now, last: 0..now, gaps: 0..now]
    /\ legible \in [csv: BOOLEAN, meta: BOOLEAN]
    /\ client \in Clients /\ job \in Jobs

\* A call that has not replaced the file yet.
Waiting(w) == upsert[w].stage \in {"loaded", "writing"}

\* A handler is at work in the phase of its kind, and only then is the client in a call
\* of the upsert.
HandlersInPhase ==
    /\ job.kind = "none" => job = NoJob /\ upsert["client"].stage = "idle"
    /\ job.kind # "none" => job.feed # <<>>
    /\ job.kind = "live" => client.phase = "up"
    /\ job.kind = "backfill" => client.phase = "backfill"
    /\ client.phase = "backfill" => job.kind = "backfill"
    /\ \/ client.attempts <= MaxAttempts
       \/ client.phase = "gaveUp" /\ client.attempts = MaxAttempts + 1
    /\ client.processed \subseteq 1..now /\ client.last \in {0} \cup client.processed

\* A candle is the one the exchange published for its hour, unless corrected since.
Genuine(candle, h) ==
    /\ h \in 1..now /\ tape[h].valid /\ tape[h].inYear
    /\ candle \in Candles /\ InOrder(candle)
    /\ candle = tape[h] \/ h \in holes.amended

FileIsGenuine(file) ==
    /\ file = [h \in DOMAIN file |-> file[h]]
    /\ \A h \in DOMAIN file : Genuine(file[h], h)

RowIsGenuine(row) == Genuine(CandleOf(row), row.hour)

FilesAreGenuine ==
    /\ FileIsGenuine(csv)
    /\ \A w \in Writers : /\ FileIsGenuine(upsert[w].file)
                          /\ \A file \in upsert[w].temp : FileIsGenuine(file)
    /\ \A i \in DOMAIN job.feed : RowIsGenuine(job.feed[i])
    /\ \A i \in DOMAIN engine.candles : RowIsGenuine(engine.candles[i])

\* Nothing torn: the file is the one of the call that replaced it, and described when
\* that call is over.
MetaFollowsFile ==
    ~holes.torn =>
        /\ \A w \in Writers : Behind(w) => csv = upsert[w].file
        /\ (\A w \in Writers : ~Behind(w)) => meta = Describe(csv)

\* On file, or known to be lost from it.
Stored(h) == h \in DOMAIN csv \/ h \in holes.lost

\* What was handed on was stored before.
HandedOnAfterStored ==
    /\ \A w \in Writers : upsert[w].loaded \subseteq DOMAIN upsert[w].file
    /\ Waiting("client") =>
           DOMAIN upsert["client"].file = upsert["client"].loaded \cup HoursOf(job.feed)
    /\ ~Waiting("client") => \A h \in HoursOf(job.feed) : Stored(h)
    /\ \A h \in client.processed : Stored(h)
    /\ \A h \in HoursOf(engine.candles) : Stored(h)

\* An hour that is on no file for a reason, if it is not.
Accounted(h) ==
    \/ Stored(h)
    \/ h \in holes.jumped \cup holes.cut
    \/ ~tape[h].valid \/ ~tape[h].inYear

\* Every hour before one that was stored is accounted for, and will be when the file of
\* a backfill or of the ingestion is in place.
HoursAreAccounted ==
    /\ \A h \in 1..now : Stored(h) => \A k \in 1..h : Accounted(k)
    /\ \A w \in Writers :
           Waiting(w) /\ (w = "ingestion" \/ job.kind = "backfill") =>
               \A h \in DOMAIN upsert[w].file : \A k \in 1..h :
                   k \in DOMAIN upsert[w].file \/ Accounted(k)
    /\ \A k \in 1..holes.covered :
           \/ Accounted(k)
           \/ /\ job.kind = "backfill" /\ Waiting("client")
              /\ k \in DOMAIN upsert["client"].file

\* The engine has taken, passed over or is about to see every row of the file.
RowsAreTaken ==
    client.phase # "off" =>
        LET taken == HoursOf(engine.candles) \cup holes.unfed
        IN  IF Waiting("client")
            THEN DOMAIN csv \subseteq taken /\ upsert["client"].loaded \subseteq taken
            ELSE DOMAIN csv \subseteq taken \cup HoursOf(job.feed)

\* The engine's candles ascend to the last it has taken.
EngineAscends ==
    /\ \A i, j \in DOMAIN engine.candles :
           i < j => engine.candles[i].hour < engine.candles[j].hour
    /\ \A i \in DOMAIN engine.candles : engine.candles[i].hour <= engine.last

\* What the files promise as long as no mix of two has been published; then they parse.
FileInv ==
    /\ MetaFollowsFile /\ HandedOnAfterStored /\ HoursAreAccounted /\ RowsAreTaken
    /\ legible.csv

FeedInv ==
    /\ Typed /\ HandlersInPhase /\ FilesAreGenuine /\ EngineAscends
    /\ holes.mixed \/ FileInv

-----------------------------------------------------------------------------
(* Rows, files and calls.                                                  *)

\* A row gives back its hour and its candle.
LEMMA RowOfCandle ==
    ASSUME NEW c \in Candles, NEW h
    PROVE  Row(c, h).hour = h /\ CandleOf(Row(c, h)) = c
<1>1. c = [f \in CandleFields |-> c[f]]
  BY DEF Candles, CandleFields
<1>2. DOMAIN c = CandleFields
  BY <1>1
<1>3. Row(c, h) = [f \in CandleFields \cup {"hour"} |-> IF f = "hour" THEN h ELSE c[f]]
  BY <1>2 DEF Row
<1>4. "hour" \notin CandleFields
  BY DEF CandleFields
<1>5. \A f \in CandleFields : Row(c, h)[f] = c[f]
  BY <1>3, <1>4
<1>6. CandleOf(Row(c, h)) = [f \in CandleFields |-> c[f]]
  BY <1>5 DEF CandleOf
<1> QED
  BY <1>1, <1>3, <1>6

\* The rows of a genuine file are genuine rows, in order, one for each of its hours.
LEMMA GenuineRows ==
    ASSUME NEW file, FileIsGenuine(file), now \in Nat
    PROVE  /\ DOMAIN file \subseteq 1..now
           /\ Rows(file) \in Seq(AllRows)
           /\ \A i \in DOMAIN Rows(file) : RowIsGenuine(Rows(file)[i])
           /\ \A i, j \in DOMAIN Rows(file) :
                  i < j => Rows(file)[i].hour < Rows(file)[j].hour
           /\ HoursOf(Rows(file)) = DOMAIN file
<1> DEFINE r == Rows(file)
<1>1. DOMAIN file \subseteq 1..now /\ \A h \in DOMAIN file : file[h] \in Candles
  BY DEF FileIsGenuine, Genuine
<1>2. /\ Len(r) \in Nat /\ DOMAIN r = 1..Len(r) /\ r = [i \in 1..Len(r) |-> r[i]]
      /\ \A i \in DOMAIN r : r[i].hour \in DOMAIN file /\ r[i] = Row(file[r[i].hour], r[i].hour)
      /\ \A i, j \in DOMAIN r : i < j => r[i].hour < r[j].hour
      /\ HoursOf(r) = DOMAIN file
  BY <1>1, RowsFacts
<1> HIDE DEF r
<1>3. \A i \in DOMAIN r : r[i] \in AllRows
  <2> TAKE i \in DOMAIN r
  <2>1. r[i].hour \in Nat /\ file[r[i].hour] \in Candles
    BY <1>1, <1>2
  <2> QED
    BY <1>2, <2>1 DEF AllRows
<1>4. r \in Seq(AllRows)
  BY <1>2, <1>3
<1>5. ASSUME NEW i \in DOMAIN r PROVE RowIsGenuine(r[i])
  <2>1. r[i].hour \in DOMAIN file /\ CandleOf(r[i]) = file[r[i].hour]
    BY <1>1, <1>2, RowOfCandle
  <2> QED
    BY <2>1 DEF FileIsGenuine, RowIsGenuine
<1> QED
  BY <1>1, <1>2, <1>4, <1>5 DEF r

\* What the exchange published is genuine when it is readable and of the year.
LEMMA PublishedIsGenuine ==
    ASSUME TapeTyped, NEW hours \in SUBSET (1..now), Readable(hours), InPartition(hours)
    PROVE  FileIsGenuine(Published(hours)) /\ DOMAIN Published(hours) = hours
<1>1. \A h \in hours : tape[h] \in Candles /\ (tape[h].valid => InOrder(tape[h]))
  <2>1. /\ tape \in Seq(Candles) /\ Len(tape) \in Nat /\ now \in 0..Len(tape)
        /\ \A h \in 1..Len(tape) : tape[h].valid => InOrder(tape[h])
    BY DEF TapeTyped
  <2>2. \A h \in hours : h \in 1..Len(tape)
    BY <2>1
  <2> QED
    BY <2>1, <2>2
<1> QED
  BY <1>1 DEF FileIsGenuine, Genuine, Published, Readable, InPartition

\* Merging keeps every hour of both, and is genuine when both are.
LEMMA MergedFacts ==
    ASSUME NEW new
    PROVE  /\ DOMAIN Merged(new) = DOMAIN new \cup DOMAIN csv
           /\ Merged(new) = csv => DOMAIN new \subseteq DOMAIN csv
           /\ FileIsGenuine(csv) /\ FileIsGenuine(new) => FileIsGenuine(Merged(new))
<1>1. Merged(new) = [x \in DOMAIN new \cup DOMAIN csv |->
                        IF x \in DOMAIN new THEN new[x] ELSE csv[x]]
  BY DEF Merged, Over
<1>2. DOMAIN Merged(new) = DOMAIN new \cup DOMAIN csv
  BY <1>1
<1>3. Merged(new) = csv => DOMAIN new \subseteq DOMAIN csv
  BY <1>2
<1>4. ASSUME FileIsGenuine(csv), FileIsGenuine(new) PROVE FileIsGenuine(Merged(new))
  <2>1. \A h \in DOMAIN Merged(new) : Genuine(Merged(new)[h], h)
    BY <1>1, <1>4 DEF FileIsGenuine
  <2> QED
    BY <1>1, <2>1 DEF FileIsGenuine
<1> QED
  BY <1>2, <1>3, <1>4

\* What the steps of a call leave to another one: its file, and how far it is.
SameCall(x) ==
    /\ upsert'[x].file = upsert[x].file /\ upsert'[x].loaded = upsert[x].loaded
    /\ Waiting(x)' <=> Waiting(x)
    /\ Behind(x)' <=> Behind(x)
    /\ upsert'[x].stage = "idle" <=> upsert[x].stage = "idle"
Others(w) == \A x \in Writers : x # w => SameCall(x)

\* What the calls have in their temporary files they, or others, had to write before.
TempsOfCalls ==
    \A x \in Writers : \A file \in upsert'[x].temp :
        file = NoFile \/ \E y \in Writers : file = upsert[y].file \/ file \in upsert[y].temp

Begun(w, new) ==
    /\ \A x \in Writers : x # w => upsert'[x] = upsert[x]
    /\ \/ upsert'[w] = Idle /\ Merged(new) = csv
       \/ upsert'[w] = [stage |-> "loaded", file |-> Merged(new), loaded |-> DOMAIN csv,
                        temp |-> {}]
Opened == UpsertTyped' /\ TempsOfCalls /\ \A x \in Writers : SameCall(x)
Ended(w) == UpsertTyped' /\ TempsOfCalls /\ Others(w) /\ upsert'[w] = Idle
PutInPlace(w) ==
    /\ UpsertTyped' /\ TempsOfCalls /\ Others(w)
    /\ Waiting(w) /\ ~Waiting(w)' /\ Behind(w)'
    /\ upsert[w].stage # "idle" /\ upsert'[w].stage # "idle"
    /\ upsert'[w].file = upsert[w].file /\ upsert'[w].loaded = upsert[w].loaded

\* A record with the fields of a call is a call.
LEMMA CallsAreCalls ==
    /\ Idle = [f \in CallFields |-> Idle[f]]
    /\ Idle.stage = "idle" /\ Idle.loaded = {} /\ Idle.temp = {} /\ DOMAIN Idle.file = {}
    /\ Idle.file = [h \in {} |-> 0]
    /\ \A s, f, l, t :
          LET c == [stage |-> s, file |-> f, loaded |-> l, temp |-> t]
          IN  c = [k \in CallFields |-> c[k]]
BY DEF Idle, NoFile, CallFields

\* A call that is idle neither waits nor is behind.
LEMMA IdleCalls ==
    ASSUME UpsertTyped, NEW w \in Writers
    PROVE  /\ upsert[w].stage = "idle" => ~Waiting(w) /\ ~Behind(w)
           /\ Waiting(w) => ~Behind(w)
           /\ upsert[w].stage = "idle" \/ Waiting(w) \/ Behind(w)
           /\ upsert'[w] = Idle => /\ upsert'[w].stage = "idle" /\ ~Waiting(w)' /\ ~Behind(w)'
                                   /\ upsert'[w].loaded = {} /\ DOMAIN upsert'[w].file = {}
           /\ upsert'[w] = upsert[w] => SameCall(w)
BY CallsAreCalls DEF UpsertTyped, Stages, Waiting, Behind, SameCall

\* A call begins, or finds nothing to write.
LEMMA BeginFacts ==
    ASSUME UpsertTyped, NEW w \in Writers, NEW new, Begin(w, new)
    PROVE  UpsertTyped' /\ Begun(w, new)
<1> DEFINE call == [stage |-> "loaded", file |-> Merged(new), loaded |-> DOMAIN csv,
                    temp |-> {}]
<1>1. upsert' = [upsert EXCEPT ![w] = IF Merged(new) = csv THEN Idle ELSE call]
  BY DEF Begin
<1>2. call = [f \in CallFields |-> call[f]] /\ call.stage = "loaded"
  BY CallsAreCalls
<1>3. \A x \in Writers : upsert'[x] = IF x = w
                                      THEN IF Merged(new) = csv THEN Idle ELSE call
                                      ELSE upsert[x]
  BY <1>1 DEF UpsertTyped
<1>4. upsert' = [x \in Writers |-> upsert'[x]]
  BY <1>1 DEF UpsertTyped
<1>5. Begun(w, new)
  BY <1>3 DEF Begun
<1> HIDE DEF call
<1>6. ASSUME NEW x \in Writers
      PROVE  upsert'[x] = [f \in CallFields |-> upsert'[x][f]] /\ upsert'[x].stage \in Stages
  <2>1. CASE x # w
    BY <1>3, <2>1 DEF UpsertTyped
  <2>2. CASE x = w /\ Merged(new) = csv
    BY <1>3, <2>2, CallsAreCalls DEF Stages
  <2>3. CASE x = w /\ Merged(new) # csv
    BY <1>2, <1>3, <2>3 DEF Stages
  <2> QED
    BY <2>1, <2>2, <2>3
<1> QED
  BY <1>4, <1>5, <1>6 DEF UpsertTyped

\* There are two writers.
LEMMA OtherFacts ==
    ASSUME NEW w \in Writers
    PROVE  Other(w) \in Writers /\ Other(w) # w /\ \A x \in Writers : x = w \/ x = Other(w)
<1>1. \E x \in Writers : x # w
  BY DEF Writers
<1>2. Other(w) \in Writers /\ Other(w) # w
  BY <1>1 DEF Other
<1> QED
  BY <1>2 DEF Writers

\* A call that goes on with its file.
Staged(c, stage, temp) == [c EXCEPT !.stage = stage, !.temp = temp]

\* It stays a call, and the same to the file.
LEMMA SetStage ==
    ASSUME UpsertTyped, NEW w \in Writers, NEW stage, NEW temp
    PROVE  /\ Staged(upsert[w], stage, temp)
                  = [f \in CallFields |-> Staged(upsert[w], stage, temp)[f]]
           /\ Staged(upsert[w], stage, temp).stage = stage
           /\ Staged(upsert[w], stage, temp).file = upsert[w].file
           /\ Staged(upsert[w], stage, temp).loaded = upsert[w].loaded
           /\ Staged(upsert[w], stage, temp).temp = temp
<1> DEFINE c == upsert[w]
           call == [c EXCEPT !.stage = stage, !.temp = temp]
<1>1. c = [f \in CallFields |-> c[f]] /\ DOMAIN c = CallFields
      /\ CallFields = {"stage", "file", "loaded", "temp"}
  BY DEF UpsertTyped, CallFields
<1> HIDE DEF c
<1>2. /\ call = [f \in CallFields |-> call[f]] /\ call.stage = stage /\ call.temp = temp
      /\ call.file = c.file /\ call.loaded = c.loaded
  BY <1>1
<1>3. Staged(c, stage, temp) = call
  BY DEF Staged
<1> HIDE DEF call
<1> QED
  BY <1>2, <1>3 DEF c

\* A temporary file is opened: the calls go on with the files they had to write.
LEMMA OpenFacts ==
    ASSUME UpsertTyped, NEW w \in Writers, Open(w)
    PROVE  Opened /\ UNCHANGED <<now, tape, csv, meta, legible, client, job, engine, faults, holes>>
<1> DEFINE stage == IF upsert[w].stage = "loaded" THEN "writing" ELSE "describing"
           other == upsert[Other(w)]
           both == {NoFile, upsert[w].file, other.file} \cup other.temp
           on(x) == Staged(upsert[x], stage, both)
           alone == Staged(upsert[w], stage, {upsert[w].file})
<1>1. /\ upsert[w].stage \in {"loaded", "replaced"}
      /\ UNCHANGED <<now, tape, csv, meta, legible, client, job, engine, faults, holes>>
  BY DEF Open
<1>2. CASE other.stage = stage /\ upsert' = [x \in Writers |-> on(x)]
  <2>1. Other(w) \in Writers /\ \A x \in Writers : x = w \/ x = Other(w)
    BY OtherFacts
  <2>2. ASSUME NEW x \in Writers
        PROVE  /\ upsert'[x] = [f \in CallFields |-> upsert'[x][f]]
               /\ upsert'[x].stage = stage /\ upsert'[x].file = upsert[x].file
               /\ upsert'[x].loaded = upsert[x].loaded /\ upsert'[x].temp = both
    <3>1. upsert'[x] = on(x)
      BY <1>2
    <3> HIDE DEF stage, both
    <3> QED
      BY <3>1, SetStage
  <2>3. \A x \in Writers : upsert[x].stage \in {stage, IF stage = "writing" THEN "loaded" ELSE "replaced"}
    BY <1>1, <1>2, <2>1
  <2>4. stage \in {"writing", "describing"}
    OBVIOUS
  <2>5. upsert' = [x \in Writers |-> upsert'[x]]
    BY <1>2
  <2>6. TempsOfCalls
    BY <2>1, <2>2 DEF TempsOfCalls
  <2> HIDE DEF stage, both, on, other
  <2>7. \A x \in Writers : SameCall(x) /\ upsert'[x].stage \in Stages
    BY <2>2, <2>3, <2>4 DEF SameCall, Waiting, Behind, Stages
  <2>8. UpsertTyped'
    BY <2>2, <2>5, <2>7 DEF UpsertTyped
  <2> QED
    BY <1>1, <2>6, <2>7, <2>8 DEF Opened
<1>3. CASE upsert' = [upsert EXCEPT ![w].stage = stage, ![w].temp = {upsert[w].file}]
  <2>1. \A x \in Writers : upsert'[x] = IF x = w THEN alone ELSE upsert[x]
    BY <1>3 DEF UpsertTyped, Staged
  <2>2. upsert' = [x \in Writers |-> upsert'[x]]
    BY <1>3 DEF UpsertTyped
  <2>3. stage \in {"writing", "describing"}
        /\ upsert[w].stage = IF stage = "writing" THEN "loaded" ELSE "replaced"
    BY <1>1
  <2> HIDE DEF stage
  <2>4. /\ alone = [f \in CallFields |-> alone[f]] /\ alone.stage = stage
        /\ alone.file = upsert[w].file /\ alone.loaded = upsert[w].loaded
        /\ alone.temp = {upsert[w].file}
    BY SetStage
  <2> HIDE DEF alone
  <2>5. ASSUME NEW x \in Writers
        PROVE  /\ upsert'[x] = [f \in CallFields |-> upsert'[x][f]]
               /\ SameCall(x) /\ upsert'[x].stage \in Stages
    <3>1. CASE x = w
      BY <2>1, <2>3, <2>4, <3>1 DEF SameCall, Waiting, Behind, Stages
    <3>2. CASE x # w
      BY <2>1, <3>2 DEF SameCall, Waiting, Behind, UpsertTyped
    <3> QED
      BY <3>1, <3>2
  <2>6. TempsOfCalls
    BY <2>1, <2>4 DEF TempsOfCalls
  <2>7. UpsertTyped'
    BY <2>2, <2>5 DEF UpsertTyped
  <2> QED
    BY <1>1, <2>5, <2>6, <2>7 DEF Opened
<1>4. \/ other.stage = stage /\ upsert' = [x \in Writers |-> on(x)]
      \/ upsert' = [upsert EXCEPT ![w].stage = stage, ![w].temp = {upsert[w].file}]
  BY DEF Open, Staged
<1> HIDE DEF stage, other, both, on
<1> QED
  BY <1>2, <1>3, <1>4

\* A call moves on; another that has the same temporary file open loses that only.
Leaving(w, call) ==
    \A x \in Writers : \/ upsert'[x] = IF x = w THEN call ELSE upsert[x]
                       \/ x # w /\ upsert'[x] = [upsert[x] EXCEPT !.temp = {}]

\* Every call stays one, and those that stay are the same to the file.
LEMMA LeavingFacts ==
    ASSUME UpsertTyped, NEW w \in Writers, NEW call,
           call = [f \in CallFields |-> call[f]], call.stage \in Stages, call.temp = {},
           upsert' = [x \in Writers |-> upsert'[x]], Leaving(w, call)
    PROVE  UpsertTyped' /\ TempsOfCalls /\ Others(w) /\ upsert'[w] = call
<1>1. upsert'[w] = call
  BY DEF Leaving
<1>2. ASSUME NEW x \in Writers, x # w
      PROVE  /\ upsert'[x] = [f \in CallFields |-> upsert'[x][f]]
             /\ upsert'[x].stage = upsert[x].stage /\ upsert'[x].file = upsert[x].file
             /\ upsert'[x].loaded = upsert[x].loaded
             /\ upsert'[x].temp \in {{}, upsert[x].temp}
  <2> DEFINE c == upsert[x]
             d == [c EXCEPT !.temp = {}]
  <2>1. c = [f \in CallFields |-> c[f]] /\ DOMAIN c = CallFields
        /\ CallFields = {"stage", "file", "loaded", "temp"}
    BY DEF UpsertTyped, CallFields
  <2>2. upsert'[x] = c \/ upsert'[x] = d
    BY <1>2 DEF Leaving
  <2> HIDE DEF c
  <2>3. /\ d = [f \in CallFields |-> d[f]] /\ d.stage = c.stage /\ d.file = c.file
        /\ d.loaded = c.loaded /\ d.temp = {}
    BY <2>1
  <2> HIDE DEF d
  <2>4. /\ upsert'[x] = [f \in CallFields |-> upsert'[x][f]]
        /\ upsert'[x].stage = c.stage /\ upsert'[x].file = c.file
        /\ upsert'[x].loaded = c.loaded /\ upsert'[x].temp \in {{}, c.temp}
    BY <2>1, <2>2, <2>3
  <2> QED
    BY <2>4 DEF c
<1>3. Others(w)
  BY <1>2 DEF Others, SameCall, Waiting, Behind
<1>4. TempsOfCalls
  <2>1. ASSUME NEW x \in Writers, NEW file \in upsert'[x].temp PROVE file \in upsert[x].temp
    BY <1>1, <1>2, <2>1
  <2> QED
    BY <2>1 DEF TempsOfCalls
<1>5. \A x \in Writers : upsert'[x] = [f \in CallFields |-> upsert'[x][f]]
                         /\ upsert'[x].stage \in Stages
  BY <1>1, <1>2 DEF UpsertTyped
<1> QED
  BY <1>1, <1>3, <1>4, <1>5 DEF UpsertTyped

\* Renaming or deleting a temporary file takes it from the other call.
LEMMA MovedLeaves ==
    ASSUME UpsertTyped, NEW w \in Writers, NEW call, upsert' = Moved(w, call)
    PROVE  upsert' = [x \in Writers |-> upsert'[x]] /\ Leaving(w, call)
BY DEF Moved, Gone, Leaving

\* A call ends: described, failed or with its process.
LEMMA EndFacts ==
    ASSUME UpsertTyped, NEW w \in Writers, SaveMeta(w) \/ WriteFails(w) \/ Finish(w)
    PROVE  Ended(w)
<1>1. upsert' = [x \in Writers |-> upsert'[x]] /\ Leaving(w, Idle)
  <2>1. CASE SaveMeta(w)
    BY <2>1, MovedLeaves DEF SaveMeta
  <2>2. CASE WriteFails(w)
    BY <2>2 DEF WriteFails, Gone, Leaving
  <2>3. CASE Finish(w)
    BY <2>3 DEF Finish, Leaving, UpsertTyped
  <2> QED
    BY <2>1, <2>2, <2>3
<1>2. Idle = [f \in CallFields |-> Idle[f]] /\ Idle.stage \in Stages /\ Idle.temp = {}
  BY CallsAreCalls DEF Stages
<1> QED
  BY <1>1, <1>2, LeavingFacts DEF Ended

\* A call has replaced the file.
LEMMA ReplaceFacts ==
    ASSUME UpsertTyped, NEW w \in Writers, Replace(w)
    PROVE  PutInPlace(w)
<1> DEFINE call == Staged(upsert[w], "replaced", {})
<1>1. upsert' = Moved(w, call) /\ upsert[w].stage = "writing"
  BY DEF Replace, Staged
<1>2. /\ call = [f \in CallFields |-> call[f]] /\ call.stage = "replaced"
      /\ call.file = upsert[w].file /\ call.loaded = upsert[w].loaded /\ call.temp = {}
  BY SetStage
<1> HIDE DEF call
<1>3. UpsertTyped' /\ TempsOfCalls /\ Others(w) /\ upsert'[w] = call
  BY <1>1, <1>2, MovedLeaves, LeavingFacts DEF Stages
<1> QED
  BY <1>1, <1>2, <1>3 DEF PutInPlace, Waiting, Behind

\* As long as no mix of two files is published, a call puts its own in place.
LEMMA CleanReplace ==
    ASSUME Typed, FilesAreGenuine, NEW w \in Writers, Replace(w), ~holes'.mixed
    PROVE  csv' = upsert[w].file /\ legible'.csv
<1>1. now \in Nat /\ holes \in Costs /\ legible \in [csv: BOOLEAN, meta: BOOLEAN]
  BY DEF Typed, TapeTyped, HolesTyped
<1>2. upsert[w].temp = {upsert[w].file}
  BY <1>1 DEF Replace, Mixed, Costs
<1> DEFINE f == upsert[w].file
<1>3. f = [h \in DOMAIN f |-> f[h]] /\ DOMAIN f \subseteq 1..now
  BY DEF FilesAreGenuine, FileIsGenuine, Genuine
<1>4. PICK h \in 0..now : csv' = Spliced(f, f, h)
  <2>1. csv' \in Left({f}) /\ legible' = [legible EXCEPT !.csv = TRUE]
    BY <1>2 DEF Replace, Mixed
  <2> HIDE DEF f
  <2> QED
    BY <2>1 DEF Left
<1>5. legible'.csv
  BY <1>1, <1>2 DEF Replace, Mixed
<1> HIDE DEF f
<1>6. Spliced(f, f, h) = f
  <2> DEFINE a == {k \in DOMAIN f : k <= h}
             b == {k \in DOMAIN f : k > h}
  <2>1. a \cup b = DOMAIN f
    BY <1>1, <1>3
  <2>2. Spliced(f, f, h) = [k \in a \cup b |-> IF k \in a THEN f[k] ELSE f[k]]
    BY DEF Spliced, Over
  <2> QED
    BY <1>3, <2>1, <2>2
<1> QED
  BY <1>4, <1>5, <1>6 DEF f

\* What two calls leave of their files is made of their rows.
LEMMA LeftIsGenuine ==
    ASSUME FilesAreGenuine, NEW w \in Writers, NEW file \in Left(upsert[w].temp)
    PROVE  FileIsGenuine(file)
<1>1. PICK pair \in upsert[w].temp \X upsert[w].temp, h \in 0..now :
          file = Spliced(pair[1], pair[2], h)
  BY DEF Left
<1> DEFINE a == pair[1]
           b == pair[2]
<1>2. FileIsGenuine(a) /\ FileIsGenuine(b)
  BY DEF FilesAreGenuine
<1>3. file = Spliced(a, b, h)
  BY <1>1
<1> HIDE DEF a, b
<1> DEFINE x == {k \in DOMAIN a : k <= h}
           y == {k \in DOMAIN b : k > h}
<1>4. file = [k \in x \cup y |-> IF k \in x THEN a[k] ELSE b[k]]
  BY <1>3 DEF Spliced, Over
<1>5. \A k \in x : Genuine(a[k], k)
  BY <1>2 DEF FileIsGenuine
<1>6. \A k \in y : Genuine(b[k], k)
  BY <1>2 DEF FileIsGenuine
<1> HIDE DEF x, y
<1> QED
  BY <1>4, <1>5, <1>6 DEF FileIsGenuine

-----------------------------------------------------------------------------
(* The candles the engine has taken.                                       *)

IsEngine(e) == e = [f \in EngineFields |-> e[f]]

\* What the engine is before it is initialised.
LEMMA NoEngineFacts ==
    /\ IsEngine(NoEngine)
    /\ EngineFields = {"ready", "candles", "parsed", "obs", "last", "internal", "swing"}
    /\ NoEngine.ready = FALSE /\ NoEngine.candles = <<>> /\ NoEngine.last = 0
BY DEF IsEngine, EngineFields, NoEngine

\* A candle is appended if it is newer than the last, and changes nothing otherwise.
LEMMA ProcessNewFacts ==
    ASSUME NEW e, IsEngine(e), e.candles \in Seq(AllRows), NEW c \in AllRows
    PROVE  /\ IsEngine(ProcessNew(e, c)) /\ ProcessNew(e, c).ready = e.ready
           /\ \/ ProcessNew(e, c) = e
              \/ /\ c.hour > e.last /\ ProcessNew(e, c) # e
                 /\ ProcessNew(e, c).candles = Append(e.candles, c)
                 /\ ProcessNew(e, c).last = c.hour
<1> DEFINE n == ProcessNew(e, c)
           p == ProcessCandle(e, c)
<1>1. /\ DOMAIN e = EngineFields
      /\ EngineFields = {"ready", "candles", "parsed", "obs", "last", "internal", "swing"}
  BY NoEngineFacts DEF IsEngine
<1>2. IsEngine(p) /\ p.ready = e.ready /\ p.candles = Append(e.candles, c) /\ p.last = c.hour
  <2> DEFINE candles == Append(e.candles, c)
             at == Len(candles)
             parsed == Append(e.parsed, Parsed(c, at))
             internal == DetectorStep(e.internal, parsed, InternalLength)
             swing == DetectorStep(e.swing, parsed, SwingLength)
             obs == e.obs \o BlocksOf(parsed, internal.breaks, internal.d, "internal", TRUE)
                          \o BlocksOf(parsed, swing.breaks, swing.d, "swing", TRUE)
             aged == [k \in DOMAIN obs |-> Aged(obs[k], c, at)]
  <2>1. p = IF ~Enough(at)
            THEN [e EXCEPT !.candles = candles, !.last = c.hour]
            ELSE [e EXCEPT !.candles = candles, !.parsed = parsed, !.last = c.hour,
                           !.internal = internal.d, !.swing = swing.d, !.obs = aged]
    BY DEF ProcessCandle
  <2> HIDE DEF aged, obs, swing, internal, parsed, at, candles, p
  <2>2. CASE ~Enough(at)
    BY <1>1, <2>1, <2>2 DEF IsEngine, candles
  <2>3. CASE Enough(at)
    BY <1>1, <2>1, <2>3 DEF IsEngine, candles
  <2> QED
    BY <2>2, <2>3
<1>3. n = IF e.ready /\ c.hour > e.last THEN p ELSE e
  BY DEF ProcessNew
<1> HIDE DEF n, p
<1>4. CASE e.ready /\ c.hour > e.last
  <2>1. Append(e.candles, c) # e.candles
    <3>1. Len(Append(e.candles, c)) = Len(e.candles) + 1 /\ Len(e.candles) \in Nat
      BY LenProperties
    <3> QED
      BY <3>1
  <2> QED
    BY <1>2, <1>3, <1>4, <2>1 DEF n
<1>5. CASE ~(e.ready /\ c.hour > e.last)
  BY <1>3, <1>5 DEF n
<1> QED
  BY <1>4, <1>5

\* An engine built from a file has taken its rows, up to the last.
LEMMA InitializeFacts ==
    ASSUME NEW cs \in Seq(AllRows)
    PROVE  /\ IsEngine(Initialize(cs)) /\ Initialize(cs).ready \in BOOLEAN
           /\ Initialize(cs).candles = cs
           /\ cs = <<>> => Initialize(cs).last = 0
           /\ cs # <<>> => Initialize(cs).last = Last(cs).hour
<1> DEFINE fields == {"ready", "candles", "parsed", "obs", "last", "internal", "swing"}
<1>1. EngineFields = fields /\ DOMAIN NoEngine = fields
  BY NoEngineFacts DEF IsEngine
<1>2. CASE cs = <<>>
  BY <1>2, NoEngineFacts DEF Initialize
<1>3. CASE cs # <<>> /\ Enough(Len(cs))
  <2>1. Initialize(cs) = InitializeLong(cs)
    BY <1>3 DEF Initialize
  <2> DEFINE series == Series(cs)
             internal == DetectAll(series, InternalLength)
             swing == DetectAll(series, SwingLength)
             obs == BlocksOf(series, internal.breaks, internal.d, "internal", FALSE)
                        \o BlocksOf(series, swing.breaks, swing.d, "swing", FALSE)
             e == InitializeLong(cs)
  <2>2. e = [ready |-> TRUE, candles |-> cs, parsed |-> series, last |-> Last(cs).hour,
             internal |-> internal.d, swing |-> swing.d, obs |-> obs]
    BY DEF InitializeLong
  <2> HIDE DEF obs, swing, internal, series, e
  <2>3. IsEngine(e) /\ e.ready = TRUE /\ e.candles = cs /\ e.last = Last(cs).hour
    BY <1>1, <2>2 DEF IsEngine
  <2> QED
    BY <1>3, <2>1, <2>3 DEF e
<1>4. CASE cs # <<>> /\ ~Enough(Len(cs))
  <2> DEFINE e == NoEngine
             i == Initialize(cs)
  <2>1. i = [e EXCEPT !.ready = TRUE, !.candles = cs, !.last = Last(cs).hour]
    BY <1>4 DEF Initialize, InitializeShort
  <2>2. e = [f \in fields |-> e[f]]
    BY <1>1, NoEngineFacts DEF IsEngine
  <2> HIDE DEF e, i
  <2>3. IsEngine(i) /\ i.ready = TRUE /\ i.candles = cs /\ i.last = Last(cs).hour
    BY <1>1, <2>1, <2>2 DEF IsEngine
  <2> QED
    BY <1>4, <2>3 DEF i
<1> QED
  BY <1>2, <1>3, <1>4

-----------------------------------------------------------------------------
(* What a fetch answers and what a message or a backfill begins.           *)

\* A page size is a number.
LEMMA Pages1 == PageSize \in Nat /\ MaxAttempts \in Nat /\ 0 < MaxAttempts
BY FeedAssumption

\* An hour from the first one asked for is fetched, cut off, or of another year.
LEMMA FetchFacts ==
    ASSUME now \in Nat, NEW from \in Nat, 0 < from, NEW pages \in Pages(from)
    PROVE  /\ FetchedFrom(from, pages) \in SUBSET (1..now)
           /\ CutOff(from, pages) \in SUBSET (1..now)
           /\ InPartition(FetchedFrom(from, pages))
           /\ \A h \in 1..now :
                  \/ h < from \/ ~tape[h].inYear
                  \/ h \in FetchedFrom(from, pages) \cup CutOff(from, pages)
<1>1. pages \in Int /\ 0 <= pages
  BY DEF Pages
<1> DEFINE k == pages * PageSize
<1>2. k \in Int /\ 0 <= k
  BY <1>1, Pages1
<1>3. /\ CutOff(from, pages) = from..(now - k)
      /\ FetchedFrom(from, pages) = {h \in from..now : h > now - k /\ tape[h].inYear}
  BY DEF CutOff, FetchedFrom, Reached, InPartition
<1> HIDE DEF k
<1>4. InPartition(FetchedFrom(from, pages))
  BY <1>3 DEF InPartition
<1>5. ASSUME NEW h \in 1..now
      PROVE  \/ h < from \/ ~tape[h].inYear
             \/ h \in FetchedFrom(from, pages) \cup CutOff(from, pages)
  <2>1. h \in Int /\ now - k \in Int
    BY <1>2
  <2> QED
    BY <1>3, <1>5, <2>1
<1>6. FetchedFrom(from, pages) \in SUBSET (1..now)
  BY <1>3
<1>7. CutOff(from, pages) \in SUBSET (1..now)
  <2>1. ASSUME NEW h \in from..(now - k) PROVE h \in 1..now
    BY <1>2, <2>1
  <2> QED
    BY <1>3, <2>1
<1> QED
  BY <1>4, <1>5, <1>6, <1>7

\* A handler begins with the genuine candles of some hours.
Starting(kind, hours) ==
    /\ hours \in SUBSET (1..now) /\ hours # {}
    /\ FileIsGenuine(Published(hours)) /\ DOMAIN Published(hours) = hours
    /\ UpsertTyped' /\ Begun("client", Published(hours))
    /\ job = NoJob /\ job' = [kind |-> kind, feed |-> Rows(Published(hours))]

\* A live candle that passes every check begins a handler of its own.
LEMMA HandleMessageFacts ==
    ASSUME Typed, HandleMessage
    PROVE  /\ \E hours \in SUBSET (1..now) : Starting("live", hours)
           /\ client.phase = "up"
           /\ UNCHANGED <<now, tape, csv, meta, legible, client, engine, faults, holes>>
<1>1. PICK frame \in Frames :
          LET h == frame.hour
              new == [k \in {h} |-> Quoted(frame)]
          IN  /\ client.phase = "up" /\ job = NoJob
              /\ Accepted(frame) /\ Closed(frame)
              /\ h \notin client.processed
              /\ Readable({h}) /\ InPartition({h})
              /\ Begin("client", new)
              /\ job' = [kind |-> "live", feed |-> Rows(new)]
  BY DEF HandleMessage
<1> DEFINE h == frame.hour
           hours == {h}
<1>2. h \in 1..now
  <2>1. h \in Hours /\ h <= now
    BY <1>1 DEF Frames, Closed
  <2>2. Hours = 1..Len(tape) /\ now \in Int
    BY DEF Hours, Typed, TapeTyped
  <2> QED
    BY <2>1, <2>2
<1>3. [k \in {h} |-> Quoted(frame)] = Published(hours)
  BY <1>1 DEF Quoted, Accepted, Published
<1>4. FileIsGenuine(Published(hours)) /\ DOMAIN Published(hours) = hours
  BY <1>1, <1>2, PublishedIsGenuine DEF Typed
<1>5. UpsertTyped' /\ Begun("client", Published(hours))
  BY <1>1, <1>3, BeginFacts DEF Typed, Writers
<1>6. Starting("live", hours)
  BY <1>1, <1>2, <1>3, <1>4, <1>5 DEF Starting
<1>7. hours \in SUBSET (1..now)
  BY <1>2
<1> QED
  BY <1>1, <1>6, <1>7 DEF HandleMessage

\* What a backfill asks for starts after the watermark; it begins a handler or dials.
Reaching(from, pages, hours) ==
    /\ from = client.last + 1 /\ pages \in Pages(from)
    /\ hours = FetchedFrom(from, pages) \ client.processed
    /\ holes' = [holes EXCEPT
           !.cut = @ \cup (IF client.last = 0 THEN {} ELSE CutOff(from, pages)),
           !.covered = IF client.last # 0 /\ Readable(hours) THEN now ELSE 0]

\* A backfill begins a handler with what it fetched, or goes on to dial.
LEMMA BackfillFacts ==
    ASSUME Typed, HandlersInPhase, Backfill
    PROVE  /\ client.phase = "waiting" /\ job = NoJob
           /\ faults' \in Nat
           /\ UNCHANGED <<now, tape, csv, meta, legible, engine>>
           /\ \E from \in Nat : \E pages \in Pages(from) : \E hours \in SUBSET (1..now) :
                 /\ 0 < from /\ Reaching(from, pages, hours)
                 /\ \/ /\ client' = [client EXCEPT !.phase = "backfill"]
                       /\ client.last # 0
                       /\ Starting("backfill", hours)
                    \/ /\ client' = [client EXCEPT !.phase = "dialing"]
                       /\ client.last # 0 => hours = {} \/ ~Readable(hours) \/ ~legible.csv
                       /\ UNCHANGED <<upsert, job>>
<1> DEFINE from == client.last + 1
<1>1. from \in Nat /\ 0 < from /\ faults \in Nat /\ now \in Nat
  BY DEF Typed, Clients, TapeTyped
<1>2. client.phase = "waiting" /\ UNCHANGED <<now, tape, csv, meta, legible, engine>>
  BY DEF Backfill
<1>3. job = NoJob
  BY <1>2 DEF HandlersInPhase, Typed, Jobs
<1>4. PICK pages \in Pages(from) :
          LET hours == FetchedFrom(from, pages) \ client.processed
              starts == client.last # 0 /\ hours # {} /\ Readable(hours) /\ legible.csv
          IN  /\ Works(client.last = 0 \/ CutOff(from, pages) = {})
              /\ client' = [client EXCEPT !.phase = IF starts THEN "backfill" ELSE "dialing"]
              /\ IF starts
                 THEN Begin("client", Published(hours))
                      /\ job' = [kind |-> "backfill", feed |-> Rows(Published(hours))]
                 ELSE UNCHANGED <<upsert, job>>
              /\ holes' = [holes EXCEPT
                     !.cut = @ \cup (IF client.last = 0 THEN {} ELSE CutOff(from, pages)),
                     !.covered = IF client.last # 0 /\ Readable(hours) THEN now ELSE 0]
  BY DEF Backfill
<1> DEFINE hours == FetchedFrom(from, pages) \ client.processed
           starts == client.last # 0 /\ hours # {} /\ Readable(hours) /\ legible.csv
<1>5. faults' \in Nat
  BY <1>1, <1>4 DEF Works, Fault
<1>6. hours \in SUBSET (1..now) /\ InPartition(hours)
  BY <1>1, FetchFacts DEF InPartition
<1>7. Reaching(from, pages, hours)
  BY <1>4 DEF Reaching
<1>8. CASE starts
  <2>1. FileIsGenuine(Published(hours)) /\ DOMAIN Published(hours) = hours
    BY <1>6, <1>8, PublishedIsGenuine DEF Typed
  <2>2. Begin("client", Published(hours))
        /\ job' = [kind |-> "backfill", feed |-> Rows(Published(hours))]
        /\ client' = [client EXCEPT !.phase = "backfill"]
    BY <1>4, <1>8
  <2>3. UpsertTyped' /\ Begun("client", Published(hours))
    BY <2>2, BeginFacts DEF Typed, Writers
  <2>4. Starting("backfill", hours) /\ client.last # 0
    BY <1>3, <1>6, <1>8, <2>1, <2>2, <2>3 DEF Starting
  <2> HIDE DEF hours, starts
  <2> QED
    BY <1>1, <1>2, <1>3, <1>5, <1>6, <1>7, <2>2, <2>4
<1>9. CASE ~starts
  <2>1. /\ client' = [client EXCEPT !.phase = "dialing"]
        /\ UNCHANGED <<upsert, job>>
        /\ client.last # 0 => hours = {} \/ ~Readable(hours) \/ ~legible.csv
    BY <1>4, <1>9
  <2> HIDE DEF hours, starts
  <2> QED
    BY <1>1, <1>2, <1>3, <1>5, <1>6, <1>7, <2>1
<1> QED
  BY <1>8, <1>9

\* The ingestion begins a call with what it fetched, or has nothing to write.
LEMMA IngestionFacts ==
    ASSUME Typed, FilesAreGenuine, RunIngestion
    PROVE  /\ upsert["ingestion"] = Idle
           /\ faults' \in Nat
           /\ UNCHANGED <<now, tape, csv, meta, legible, client, job, engine>>
           /\ \E pages \in Pages(MaxHour(DOMAIN csv) + 1) : \E hours \in SUBSET (1..now) :
                 /\ hours = FetchedFrom(MaxHour(DOMAIN csv) + 1, pages)
                 /\ holes' = [holes EXCEPT
                        !.cut = @ \cup CutOff(MaxHour(DOMAIN csv) + 1, pages)]
                 /\ \/ UNCHANGED upsert
                    \/ /\ FileIsGenuine(Published(hours)) /\ DOMAIN Published(hours) = hours
                       /\ UpsertTyped' /\ Begun("ingestion", Published(hours))
<1> DEFINE from == MaxHour(DOMAIN csv) + 1
<1>1. now \in Nat /\ faults \in Nat /\ DOMAIN csv \in SUBSET (1..now)
  BY DEF Typed, TapeTyped, FilesAreGenuine, FileIsGenuine, Genuine
<1>2. from \in Nat /\ 0 < from
  <2>1. MaxHour(DOMAIN csv) \in 0..now
    BY <1>1, MaxHourFacts
  <2> QED
    BY <1>1, <2>1
<1>3. /\ upsert["ingestion"] = Idle /\ Fault
      /\ UNCHANGED <<now, tape, csv, meta, legible, client, job, engine>>
  BY DEF RunIngestion
<1>4. PICK pages \in Pages(from) :
          LET hours == FetchedFrom(from, pages)
          IN  /\ IF Readable(hours)
                 THEN Begin("ingestion", Published(hours)) ELSE UNCHANGED upsert
              /\ holes' = [holes EXCEPT !.cut = @ \cup CutOff(from, pages)]
  BY DEF RunIngestion
<1> DEFINE hours == FetchedFrom(from, pages)
<1>5. hours \in SUBSET (1..now) /\ InPartition(hours)
  BY <1>1, <1>2, FetchFacts
<1>6. faults' \in Nat
  BY <1>1, <1>3 DEF Fault
<1>7. CASE Readable(hours)
  <2>1. FileIsGenuine(Published(hours)) /\ DOMAIN Published(hours) = hours
    BY <1>5, <1>7, PublishedIsGenuine DEF Typed
  <2>2. UpsertTyped' /\ Begun("ingestion", Published(hours))
    BY <1>4, <1>7, BeginFacts DEF Typed, Writers
  <2> QED
    BY <1>3, <1>4, <1>5, <1>6, <2>1, <2>2
<1>8. CASE ~Readable(hours)
  BY <1>3, <1>4, <1>5, <1>6, <1>8
<1> QED
  BY <1>7, <1>8

-----------------------------------------------------------------------------
(* Nothing that accounts for an hour is ever taken back.                   *)

\* The costs of a state, in terms of its hours.
CostsWithin(costs) ==
    /\ costs \in Costs
    /\ costs.jumped \in SUBSET (1..now) /\ costs.cut \in SUBSET (1..now)
    /\ costs.lost \in SUBSET (1..now) /\ costs.unfed \in SUBSET (1..now)
    /\ costs.amended \in SUBSET (1..now) /\ costs.covered \in 0..now

\* What a step may do to them.
CostsGrow ==
    /\ CostsWithin(holes')
    /\ holes.jumped \subseteq holes'.jumped /\ holes.cut \subseteq holes'.cut
    /\ holes.amended \subseteq holes'.amended /\ holes.lost \subseteq holes'.lost
    /\ holes.mixed => holes'.mixed

\* The hours a live candle skips have closed.
LEMMA JumpedFacts ==
    ASSUME now \in Nat, FilesAreGenuine
    PROVE  Jumped \in SUBSET (1..now)
<1>1. /\ DOMAIN csv \in SUBSET (1..now)
      /\ DOMAIN upsert["client"].file \in SUBSET (1..now)
  BY DEF FilesAreGenuine, FileIsGenuine, Genuine, Writers
<1>2. MaxHour(DOMAIN csv) \in 0..now /\ MaxHour(DOMAIN upsert["client"].file) \in 0..now
  BY <1>1, MaxHourFacts
<1> DEFINE a == MaxHour(DOMAIN csv)
           b == MaxHour(DOMAIN upsert["client"].file)
<1>3. \A h \in (a + 1)..(b - 1) : h \in 1..now
  <2> HIDE DEF a, b
  <2>1. a \in Int /\ 0 <= a /\ b \in Int /\ b <= now
    BY <1>2 DEF a, b
  <2> TAKE h \in (a + 1)..(b - 1)
  <2>2. h \in Int /\ a + 1 <= h /\ h <= b - 1
    BY <2>1
  <2>3. 1 <= h /\ h <= now
    BY <2>1, <2>2
  <2> QED
    BY <2>2, <2>3
<1> QED
  BY <1>3 DEF Jumped

\* The hours a handler works through have closed.
LEMMA FeedHours ==
    ASSUME FilesAreGenuine, job \in Jobs
    PROVE  HoursOf(job.feed) \in SUBSET (1..now)
BY DEF FilesAreGenuine, RowIsGenuine, Genuine, HoursOf

\* Whatever a call publishes is made of genuine rows.
LEMMA ReplacedFile ==
    ASSUME FilesAreGenuine, NEW w \in Writers, Replace(w)
    PROVE  FileIsGenuine(csv')
<1>1. FileIsGenuine(NoFile)
  BY DEF FileIsGenuine, NoFile
<1> QED
  BY <1>1, LeftIsGenuine DEF Replace

\* No step takes back a reason.
LEMMA CostsStep ==
    ASSUME Typed, HandlersInPhase, FilesAreGenuine, [Next]_vars
    PROVE  CostsGrow \/ HourCloses
<1>1. /\ now \in Nat /\ CostsWithin(holes) /\ holes \in Costs
      /\ DOMAIN csv \in SUBSET (1..now)
      /\ \A w \in Writers : DOMAIN upsert[w].file \in SUBSET (1..now)
      /\ HoursOf(job.feed) \in SUBSET (1..now) /\ UpsertTyped
  <2>1. HoursOf(job.feed) \in SUBSET (1..now)
    BY FeedHours DEF Typed
  <2>2. now \in Nat
    BY DEF Typed, TapeTyped
  <2>3. /\ DOMAIN csv \in SUBSET (1..now)
        /\ \A w \in Writers : DOMAIN upsert[w].file \in SUBSET (1..now)
    BY DEF FilesAreGenuine, FileIsGenuine, Genuine
  <2> QED
    BY <2>1, <2>2, <2>3 DEF Typed, HolesTyped, CostsWithin
<1>0. (\A S \in SUBSET (1..now) : S \in SUBSET Nat) /\ \A n \in 0..now : n \in Nat
  BY <1>1
<1>2. CASE UNCHANGED holes
  BY <1>1, <1>2 DEF CostsGrow
<1>3. CASE Amend
  <2>1. /\ now > 0
        /\ holes' = [holes EXCEPT !.amended = @ \cup {now}]
    BY <1>3 DEF Amend
  <2> QED
    BY <1>1, <2>1 DEF CostsGrow, CostsWithin, Costs
<1>4. ASSUME NEW w \in Writers, Replace(w) PROVE CostsGrow
  <2> DEFINE n == DOMAIN csv \ (upsert[w].loaded \cup DOMAIN csv')
             t == holes.torn \/ upsert[Other(w)].stage # "idle"
             j == IF w = "client" THEN holes.jumped \cup Jumped ELSE holes.jumped
             u == IF w = "ingestion" THEN holes.unfed \cup (DOMAIN csv' \ DOMAIN csv)
                  ELSE holes.unfed
             x == holes.mixed \/ Mixed(w)
  <2>1. holes' = [holes EXCEPT !.mixed = x, !.lost = @ \cup n, !.torn = t, !.jumped = j,
                               !.unfed = u]
    BY <1>4 DEF Replace
  <2>a. DOMAIN csv' \in SUBSET (1..now)
    BY <1>4, ReplacedFile DEF FileIsGenuine, Genuine
  <2>2. n \in SUBSET (1..now) /\ u \in SUBSET (1..now) /\ j \in SUBSET (1..now)
        /\ holes.jumped \subseteq j
    BY <1>1, <2>a, JumpedFacts DEF CostsWithin
  <2>3. t \in BOOLEAN /\ x \in BOOLEAN /\ (holes.mixed => x)
    BY <1>1 DEF Costs
  <2> HIDE DEF n, t, j, u, x
  <2>5. /\ holes'.lost = holes.lost \cup n /\ holes'.torn = t /\ holes'.mixed = x
        /\ holes'.jumped = j /\ holes'.unfed = u
        /\ holes'.cut = holes.cut /\ holes'.amended = holes.amended
        /\ holes'.covered = holes.covered
    BY <1>1, <2>1 DEF Costs
  <2>6. holes' \in Costs
    BY <1>1, <1>0, <2>1, <2>2, <2>3 DEF Costs
  <2> QED
    BY <1>1, <2>2, <2>3, <2>5, <2>6 DEF CostsGrow, CostsWithin
<1>5. ASSUME NEW w \in Writers, SaveMeta(w) PROVE CostsGrow
  <2>1. PICK t \in BOOLEAN : holes' = [holes EXCEPT !.torn = t]
    <3> DEFINE t == (holes.torn /\ csv # upsert[w].file) \/ Behind(Other(w)) \/ Mixed(w)
    <3>1. t \in BOOLEAN
      BY <1>1 DEF Costs, Behind, Mixed
    <3>2. holes' = [holes EXCEPT !.torn = t]
      BY <1>5 DEF SaveMeta
    <3> HIDE DEF t
    <3> QED
      BY <3>1, <3>2
  <2> QED
    BY <1>1, <2>1 DEF CostsGrow, CostsWithin, Costs
<1>6. ASSUME NEW w \in Writers, WriteFails(w) PROVE CostsGrow
  <2> DEFINE t == holes.torn \/ Behind(w)
             c == IF w = "client" /\ job.kind = "backfill" THEN 0 ELSE holes.covered
             u == IF w = "client" /\ Behind(w)
                  THEN holes.unfed \cup HoursOf(job.feed) ELSE holes.unfed
  <2>1. holes' = [holes EXCEPT !.torn = t, !.covered = c, !.unfed = u]
    BY <1>6 DEF WriteFails
  <2>2. t \in BOOLEAN /\ c \in 0..now /\ u \in SUBSET (1..now)
    BY <1>1 DEF CostsWithin, Costs, Behind
  <2> HIDE DEF t, c, u
  <2>3. /\ holes'.torn = t /\ holes'.covered = c /\ holes'.unfed = u
        /\ holes'.mixed = holes.mixed
        /\ holes'.jumped = holes.jumped /\ holes'.lost = holes.lost
        /\ holes'.cut = holes.cut /\ holes'.amended = holes.amended
    BY <1>1, <2>1 DEF Costs
  <2>4. holes' \in Costs
    BY <1>1, <1>0, <2>1, <2>2 DEF Costs
  <2> QED
    BY <1>1, <2>1, <2>2, <2>3, <2>4 DEF CostsGrow, CostsWithin
<1>7. CASE RunIngestion
  <2>1. PICK pages \in Pages(MaxHour(DOMAIN csv) + 1) :
            holes' = [holes EXCEPT !.cut = @ \cup CutOff(MaxHour(DOMAIN csv) + 1, pages)]
    BY <1>7, IngestionFacts
  <2>2. MaxHour(DOMAIN csv) + 1 \in Nat /\ 0 < MaxHour(DOMAIN csv) + 1
    <3>1. MaxHour(DOMAIN csv) \in 0..now
      BY <1>1, MaxHourFacts
    <3> QED
      BY <1>1, <3>1
  <2>3. CutOff(MaxHour(DOMAIN csv) + 1, pages) \in SUBSET (1..now)
    BY <1>1, <2>2, FetchFacts
  <2> QED
    BY <1>1, <2>1, <2>3 DEF CostsGrow, CostsWithin, Costs
<1>8. CASE Backfill
  <2>a. PICK from \in Nat : \E pages \in Pages(from) : \E hours \in SUBSET (1..now) :
            0 < from /\ Reaching(from, pages, hours)
    BY <1>8, BackfillFacts
  <2>1. PICK pages \in Pages(from) : \E hours \in SUBSET (1..now) :
            0 < from /\ Reaching(from, pages, hours)
    BY <2>a
  <2>b. PICK hours \in SUBSET (1..now) : 0 < from /\ Reaching(from, pages, hours)
    BY <2>1
  <2> DEFINE c == IF client.last = 0 THEN {} ELSE CutOff(from, pages)
             n == IF client.last # 0 /\ Readable(hours) THEN now ELSE 0
  <2>2. holes' = [holes EXCEPT !.cut = @ \cup c, !.covered = n]
    BY <1>8, <2>b, BackfillFacts DEF Reaching
  <2>3. c \in SUBSET (1..now) /\ n \in 0..now
    BY <1>1, <2>b, FetchFacts
  <2> HIDE DEF c, n
  <2>4. /\ holes'.cut = holes.cut \cup c /\ holes'.covered = n
        /\ holes'.mixed = holes.mixed
        /\ holes'.jumped = holes.jumped /\ holes'.lost = holes.lost
        /\ holes'.unfed = holes.unfed /\ holes'.amended = holes.amended
    BY <1>1, <2>2 DEF Costs
  <2>5. holes' \in Costs
    BY <1>1, <1>0, <2>2, <2>3 DEF Costs
  <2> QED
    BY <1>1, <2>2, <2>3, <2>4, <2>5 DEF CostsGrow, CostsWithin
<1>9. CASE Feed
  <2> DEFINE h == Head(job.feed).hour
             seen == ProcessNew(engine, Head(job.feed))
             u == IF seen = engine THEN holes.unfed \cup {h} ELSE holes.unfed \ {h}
  <2>1. holes' = [holes EXCEPT !.unfed = u] /\ CanFeed
    BY <1>9 DEF Feed
  <2>2. h \in HoursOf(job.feed)
    <3>1. job.kind # "none" /\ job.feed # <<>> /\ job.feed \in Seq(AllRows)
      BY <2>1 DEF CanFeed, HandlersInPhase, Typed, Jobs
    <3>2. Len(job.feed) \in Nat /\ 1 \in DOMAIN job.feed /\ Head(job.feed) = job.feed[1]
      BY <3>1, EmptySeq, LenProperties
    <3> QED
      BY <3>2 DEF HoursOf
  <2>3. u \in SUBSET (1..now)
    BY <1>1, <2>2 DEF CostsWithin
  <2> HIDE DEF u
  <2> QED
    BY <1>1, <2>1, <2>3 DEF CostsGrow, CostsWithin, Costs
<1>10. CASE CallbackRaises
  <2>1. holes' = [holes EXCEPT !.unfed = @ \cup HoursOf(job.feed)]
    BY <1>10 DEF CallbackRaises
  <2> QED
    BY <1>1, <2>1 DEF CostsGrow, CostsWithin, Costs
<1>11. CASE Crash
  <2> DEFINE t == holes.torn \/ Behind("client")
  <2>1. holes' = [holes EXCEPT !.torn = t, !.unfed = {}, !.covered = 0]
    BY <1>11 DEF Crash
  <2>2. t \in BOOLEAN
    BY <1>1 DEF Costs, Behind
  <2> HIDE DEF t
  <2>3. /\ holes'.torn = t /\ holes'.covered = 0 /\ holes'.unfed = {}
        /\ holes'.mixed = holes.mixed
        /\ holes'.jumped = holes.jumped /\ holes'.lost = holes.lost
        /\ holes'.cut = holes.cut /\ holes'.amended = holes.amended
    BY <1>1, <2>1 DEF Costs
  <2>4. holes' \in Costs
    BY <1>1, <1>0, <2>1, <2>2 DEF Costs
  <2>5. {} \in SUBSET (1..now) /\ 0 \in 0..now
    BY <1>1
  <2> QED
    BY <1>1, <2>1, <2>3, <2>4, <2>5 DEF CostsGrow, CostsWithin
<1>12. CASE \/ Start \/ HandleMessage \/ ConnectionLost \/ Dial \/ Disconnect
            \/ UNCHANGED vars \/ \E w \in Writers : Open(w)
  <2>1. UNCHANGED holes
    BY <1>1, <1>12, HandleMessageFacts, OpenFacts DEF Start, ConnectionLost, Dial, Disconnect, vars
  <2> QED
    BY <1>2, <2>1
<1> QED
  BY <1>3, <1>4, <1>5, <1>6, <1>7, <1>8, <1>9, <1>10, <1>11, <1>12 DEF Next

\* The hours of the tape keep what decides whether they may be on file.
TapeLasts ==
    /\ now \in Nat /\ now' \in Nat /\ now <= now'
    /\ \A h \in 1..now : /\ tape'[h].valid = tape[h].valid
                         /\ tape'[h].inYear = tape[h].inYear
                         /\ tape'[h] = tape[h] \/ h \in holes'.amended

\* The tape moves only by an hour that closes and one that is corrected.
LEMMA TapeStep ==
    ASSUME Typed, HandlersInPhase, FilesAreGenuine, [Next]_vars
    PROVE  TapeTyped' /\ TapeLasts
<1>0. \A h \in 1..Len(tape) : tape[h].valid => InOrder(tape[h])
  BY DEF Typed, TapeTyped
<1>1. /\ tape \in Seq(Candles) /\ now \in Nat /\ now <= Len(tape) /\ faults \in Nat
      /\ Len(tape) \in Nat /\ tape = [i \in 1..Len(tape) |-> tape[i]]
      /\ \A h \in 1..Len(tape) : tape[h] \in Candles
      /\ \A h, k \in 1..Len(tape) : h < k /\ tape[k].inYear => tape[h].inYear
  <2>1. tape \in Seq(Candles) /\ now \in 0..Len(tape) /\ faults \in Nat
        /\ \A h, k \in 1..Len(tape) : h < k /\ tape[k].inYear => tape[h].inYear
    BY DEF Typed, TapeTyped
  <2>2. Len(tape) \in Nat /\ tape = [i \in 1..Len(tape) |-> tape[i]]
    BY <2>1, LenProperties
  <2>3. \A h \in 1..Len(tape) : tape[h] \in Candles
    BY <2>1, ElementOfSeq
  <2> QED
    BY <2>1, <2>2, <2>3
<1>2. CASE UNCHANGED <<now, tape>> /\ faults' \in Nat
  BY <1>0, <1>1, <1>2 DEF TapeLasts, TapeTyped, Typed
<1>3. CASE HourCloses
  <2>1. now < Len(tape) /\ now' = now + 1 /\ UNCHANGED <<tape, faults, holes>>
    BY <1>3 DEF HourCloses
  <2> QED
    BY <1>0, <1>1, <2>1 DEF TapeLasts, TapeTyped
<1>4. CASE Amend
  <2>1. PICK new \in Corrections : tape' = [tape EXCEPT ![now] = Corrected(@, new)]
    BY <1>4 DEF Amend
  <2> DEFINE c == Corrected(tape[now], new)
  <2>a. /\ tape' = [tape EXCEPT ![now] = c] /\ now > 0 /\ now' = now
        /\ holes' = [holes EXCEPT !.amended = @ \cup {now}] /\ faults' \in Nat
    <3>1. /\ now > 0 /\ now' = now
          /\ holes' = [holes EXCEPT !.amended = @ \cup {now}] /\ faults' \in Nat
      BY <1>1, <1>4 DEF Amend, Fault
    <3> QED
      BY <2>1, <3>1
  <2>2. now \in 1..Len(tape)
    BY <1>1, <2>a
  <2>3. c \in Candles /\ c.valid = tape[now].valid /\ c.inYear = tape[now].inYear /\ InOrder(c)
    <3>1. tape[now] \in Candles /\ new \in Candles /\ InOrder(new)
      BY <1>1, <2>2, FeedAssumption
    <3> QED
      BY <3>1 DEF Candles, Corrected, InOrder
  <2>4. now \in holes'.amended
    BY <2>a DEF Typed, HolesTyped, Costs
  <2> HIDE DEF c
  <2>5. tape' \in Seq(Candles) /\ Len(tape') = Len(tape)
        /\ \A h \in 1..Len(tape) : tape'[h] = IF h = now THEN c ELSE tape[h]
    BY <1>1, <2>a, <2>2, <2>3, ExceptSeq
  <2>6. \A h \in 1..Len(tape) : /\ tape'[h].valid = tape[h].valid
                                /\ tape'[h].inYear = tape[h].inYear
                                /\ tape'[h] = tape[h] \/ h = now
    BY <2>3, <2>5
  <2>7. TapeTyped'
    <3>1. \A h \in 1..Len(tape) : tape'[h].valid => InOrder(tape'[h])
      BY <1>0, <2>3, <2>5
    <3> QED
      BY <1>1, <2>a, <2>5, <2>6, <3>1 DEF TapeTyped
  <2> QED
    BY <1>1, <2>a, <2>4, <2>6, <2>7 DEF TapeLasts
<1>5. CASE Start \/ HandleMessage \/ Feed \/ CallbackRaises \/ ConnectionLost
  BY <1>1, <1>2, <1>5, HandleMessageFacts DEF Start, Feed, CallbackRaises, ConnectionLost, Fault
<1>6. CASE Backfill \/ RunIngestion
  BY <1>1, <1>2, <1>6, BackfillFacts, IngestionFacts
<1>7. CASE Dial \/ Disconnect \/ Crash \/ UNCHANGED vars
  BY <1>1, <1>2, <1>7 DEF Dial, Disconnect, Crash, Fault, vars
<1>8. ASSUME NEW w \in Writers, Open(w) \/ Replace(w) \/ SaveMeta(w) \/ WriteFails(w)
      PROVE  UNCHANGED <<now, tape>> /\ faults' \in Nat
  <2>1. CASE Open(w) \/ Replace(w) \/ SaveMeta(w)
    <3>1. UNCHANGED <<now, tape, faults>>
      BY <2>1, OpenFacts DEF Replace, SaveMeta, Typed
    <3> QED
      BY <1>1, <3>1
  <2>2. CASE WriteFails(w)
    <3>1. UNCHANGED <<now, tape>> /\ (UNCHANGED faults \/ Fault)
      BY <2>2 DEF WriteFails, Works
    <3> QED
      BY <1>1, <3>1 DEF Fault
  <2> QED
    BY <1>8, <2>1, <2>2
<1> QED
  BY <1>2, <1>3, <1>4, <1>5, <1>6, <1>7, <1>8 DEF Next

\* What is genuine in a state is so in the next.
Lasting ==
    /\ \A c, h : Genuine(c, h) => Genuine(c, h)'
    /\ \A file : FileIsGenuine(file) => FileIsGenuine(file)'
    /\ \A row : RowIsGenuine(row) => RowIsGenuine(row)'

\* Every step is lasting.
LEMMA LastingStep ==
    ASSUME Typed, HandlersInPhase, FilesAreGenuine, [Next]_vars
    PROVE  Lasting
<1>1. TapeLasts
  BY TapeStep
<1>2. holes.amended \subseteq holes'.amended
  BY CostsStep DEF CostsGrow, HourCloses
<1>3. ASSUME NEW c, NEW h, Genuine(c, h) PROVE Genuine(c, h)'
  <2>1. h \in 1..now /\ h \in 1..now'
    BY <1>1, <1>3 DEF Genuine, TapeLasts
  <2> QED
    BY <1>1, <1>2, <1>3, <2>1 DEF TapeLasts, Genuine
<1>4. ASSUME NEW file, FileIsGenuine(file) PROVE FileIsGenuine(file)'
  BY <1>3, <1>4 DEF FileIsGenuine
<1>5. ASSUME NEW row, RowIsGenuine(row) PROVE RowIsGenuine(row)'
  BY <1>3, <1>5 DEF RowIsGenuine
<1> QED
  BY <1>3, <1>4, <1>5 DEF Lasting

\* Only the renaming of a temporary file changes the file, or what is known of it.
LEMMA OnlyReplaceWrites ==
    ASSUME Typed, HandlersInPhase, FilesAreGenuine, [Next]_vars
    PROVE  \/ csv' = csv /\ legible'.csv = legible.csv /\ holes'.mixed = holes.mixed
           \/ \E w \in Writers : Replace(w)
<1> DEFINE Kept == csv' = csv /\ legible'.csv = legible.csv /\ holes'.mixed = holes.mixed
<1>1. holes \in Costs /\ UpsertTyped /\ legible \in [csv: BOOLEAN, meta: BOOLEAN]
  BY DEF Typed, HolesTyped
<1>2. CASE UNCHANGED <<csv, legible, holes>>
  BY <1>2
<1>3. ASSUME UNCHANGED <<csv, legible>>, holes'.mixed = holes.mixed PROVE Kept
  BY <1>3
<1>4. CASE HandleMessage
  BY <1>2, <1>4, HandleMessageFacts
<1>5. CASE Backfill
  <2>1. holes'.mixed = holes.mixed
    BY <1>1, <1>5, BackfillFacts DEF Reaching, Costs
  <2> QED
    BY <1>3, <1>5, <2>1, BackfillFacts
<1>6. CASE RunIngestion
  <2>1. holes'.mixed = holes.mixed
    BY <1>1, <1>6, IngestionFacts DEF Costs
  <2> QED
    BY <1>3, <1>6, <2>1, IngestionFacts
<1>7. CASE Feed \/ CallbackRaises
  <2>1. UNCHANGED <<csv, legible>> /\ \E u : holes' = [holes EXCEPT !.unfed = u]
    BY <1>7 DEF Feed, CallbackRaises
  <2>2. holes'.mixed = holes.mixed
    BY <1>1, <2>1 DEF Costs
  <2> QED
    BY <1>3, <2>1, <2>2
<1>8. CASE Amend \/ Crash
  <2>1. UNCHANGED <<csv, legible>> /\ holes'.mixed = holes.mixed
    BY <1>1, <1>8 DEF Amend, Crash, Costs
  <2> QED
    BY <1>3, <2>1
<1>9. ASSUME NEW w \in Writers, SaveMeta(w) PROVE Kept
  <2>1. csv' = csv /\ \E l : legible' = [legible EXCEPT !.meta = l]
    BY <1>9 DEF SaveMeta
  <2>2. \E t : holes' = [holes EXCEPT !.torn = t]
    BY <1>9 DEF SaveMeta
  <2>3. legible'.csv = legible.csv
    BY <1>1, <2>1
  <2>4. holes'.mixed = holes.mixed
    BY <1>1, <2>2 DEF Costs
  <2> QED
    BY <2>1, <2>3, <2>4
<1>10. ASSUME NEW w \in Writers, WriteFails(w) PROVE Kept
  <2>1. UNCHANGED <<csv, legible>> /\ \E t, c, u : holes' = [holes EXCEPT !.torn = t,
                                                   !.covered = c, !.unfed = u]
    BY <1>10 DEF WriteFails
  <2>2. holes'.mixed = holes.mixed
    BY <1>1, <2>1 DEF Costs
  <2> QED
    BY <1>3, <2>1, <2>2
<1>11. CASE \/ HourCloses \/ Start \/ ConnectionLost \/ Dial \/ Disconnect \/ UNCHANGED vars
            \/ \E w \in Writers : Open(w)
  <2>1. UNCHANGED <<csv, legible, holes>>
    BY <1>1, <1>11, OpenFacts DEF HourCloses, Start, ConnectionLost, Dial, Disconnect, vars
  <2> QED
    BY <1>2, <2>1
<1>12. CASE \E w \in Writers : Replace(w)
  BY <1>12
<1> HIDE DEF Kept
<1> QED
  BY <1>4, <1>5, <1>6, <1>7, <1>8, <1>9, <1>10, <1>11, <1>12 DEF Next, Kept

\* A file that is no mix parses, and no mix is ever forgotten.
LEMMA MixedStep ==
    ASSUME Typed, HandlersInPhase, FilesAreGenuine, [Next]_vars
    PROVE  /\ ~holes'.mixed => ~holes.mixed
           /\ ~holes'.mixed /\ legible.csv => legible'.csv
<1>1. ~holes'.mixed => ~holes.mixed
  BY CostsStep DEF CostsGrow, HourCloses
<1>2. ~holes'.mixed /\ legible.csv => legible'.csv
  BY OnlyReplaceWrites, CleanReplace
<1> QED
  BY <1>1, <1>2

\* What is stored or accounted for in a state is so in the next, unless two calls
\* published a mix of their files.
Keeps ==
    /\ \A h : Stored(h) => Stored(h)'
    /\ \A h \in 1..now : h \in 1..now' /\ (Accounted(h) => Accounted(h)')

\* No step takes it back.
LEMMA KeepsStep ==
    ASSUME Typed, HandlersInPhase, FilesAreGenuine, HandedOnAfterStored, [Next]_vars,
           ~holes'.mixed
    PROVE  Keeps
<1>1. TapeLasts
  BY TapeStep
<1>2. /\ holes.jumped \subseteq holes'.jumped /\ holes.cut \subseteq holes'.cut
      /\ holes.lost \subseteq holes'.lost
  BY CostsStep DEF CostsGrow, HourCloses
<1>3. ASSUME NEW w \in Writers, Replace(w)
      PROVE  DOMAIN csv \subseteq DOMAIN csv' \cup holes'.lost
  <2> DEFINE n == DOMAIN csv \ (upsert[w].loaded \cup DOMAIN csv')
  <2>1. upsert[w].loaded \subseteq DOMAIN csv'
    BY <1>3, CleanReplace DEF HandedOnAfterStored
  <2>2. holes'.lost = holes.lost \cup n
    BY <1>3 DEF Replace, Typed, HolesTyped, Costs
  <2> QED
    BY <2>1, <2>2
<1>4. \A h : Stored(h) => Stored(h)'
  BY <1>2, <1>3, OnlyReplaceWrites DEF Stored
<1>5. ASSUME NEW h \in 1..now PROVE h \in 1..now' /\ (Accounted(h) => Accounted(h)')
  <2>1. h \in 1..now'
    BY <1>1 DEF TapeLasts
  <2> QED
    BY <1>1, <1>2, <1>4, <2>1 DEF TapeLasts, Accounted
<1> QED
  BY <1>4, <1>5 DEF Keeps

-----------------------------------------------------------------------------
(* Types, phases and genuine files.                                        *)

\* A handler that may feed has a row, and its other rows after it.
LEMMA FeedFacts ==
    ASSUME Typed, HandlersInPhase, FilesAreGenuine, CanFeed
    PROVE  /\ job.kind \in {"live", "backfill"} /\ job.feed # <<>>
           /\ upsert["client"].stage = "idle"
           /\ Head(job.feed) \in AllRows /\ RowIsGenuine(Head(job.feed))
           /\ Head(job.feed).hour \in HoursOf(job.feed)
           /\ HoursOf(job.feed) \in SUBSET (1..now)
           /\ Tail(job.feed) \in Seq(AllRows)
           /\ \A i \in DOMAIN Tail(job.feed) : RowIsGenuine(Tail(job.feed)[i])
           /\ HoursOf(job.feed) = HoursOf(Tail(job.feed)) \cup {Head(job.feed).hour}
<1> DEFINE f == job.feed
<1>1. /\ job.kind \in {"live", "backfill"} /\ f # <<>> /\ f \in Seq(AllRows)
      /\ upsert["client"].stage = "idle"
  BY DEF CanFeed, HandlersInPhase, Typed, Jobs
<1>2. HoursOf(f) \in SUBSET (1..now) /\ \A i \in DOMAIN f : RowIsGenuine(f[i])
  BY FeedHours DEF Typed, FilesAreGenuine
<1> HIDE DEF f
<1>3. /\ Len(f) \in Nat /\ 0 < Len(f) /\ DOMAIN f = 1..Len(f) /\ Head(f) = f[1]
      /\ Tail(f) \in Seq(AllRows) /\ DOMAIN Tail(f) = 1..(Len(f) - 1)
      /\ \A i \in 1..(Len(f) - 1) : Tail(f)[i] = f[i + 1] /\ i + 1 \in 1..Len(f)
      /\ \A i \in 1..Len(f) : f[i] \in AllRows
  <2>1. /\ Len(f) \in Nat /\ DOMAIN f = 1..Len(f) /\ Len(f) # 0
        /\ \A i \in 1..Len(f) : f[i] \in AllRows
    BY <1>1, EmptySeq, LenProperties, ElementOfSeq
  <2>2. Tail(f) \in Seq(AllRows) /\ Len(Tail(f)) = Len(f) - 1
        /\ \A i \in 1..(Len(f) - 1) : Tail(f)[i] = f[i + 1]
    BY <1>1, HeadTailProperties
  <2>3. DOMAIN Tail(f) = 1..(Len(f) - 1)
    BY <2>1, <2>2, LenProperties
  <2> QED
    BY <1>1, <2>1, <2>2, <2>3
<1>4. 1 \in 1..Len(f)
  BY <1>3
<1>5. HoursOf(f) = HoursOf(Tail(f)) \cup {Head(f).hour}
  <2>1. ASSUME NEW h \in HoursOf(f) PROVE h \in HoursOf(Tail(f)) \cup {Head(f).hour}
    <3>1. PICK i \in 1..Len(f) : h = f[i].hour
      BY <1>3 DEF HoursOf
    <3>2. CASE i = 1
      BY <1>3, <3>1, <3>2
    <3>3. CASE i # 1
      <4>1. i - 1 \in 1..(Len(f) - 1) /\ (i - 1) + 1 = i
        BY <1>3, <3>3
      <4>2. Tail(f)[i - 1] = f[i]
        BY <1>3, <4>1
      <4> QED
        BY <1>3, <3>1, <4>1, <4>2 DEF HoursOf
    <3> QED
      BY <3>2, <3>3
  <2>2. HoursOf(Tail(f)) \subseteq HoursOf(f)
    BY <1>3 DEF HoursOf
  <2>3. Head(f).hour \in HoursOf(f)
    BY <1>3, <1>4 DEF HoursOf
  <2> QED
    BY <2>1, <2>2, <2>3
<1>6. /\ Head(f) \in AllRows /\ RowIsGenuine(Head(f)) /\ Head(f).hour \in HoursOf(f)
  BY <1>2, <1>3, <1>4, <1>5
<1>7. \A i \in DOMAIN Tail(f) : RowIsGenuine(Tail(f)[i])
  BY <1>2, <1>3
<1> QED
  BY <1>1, <1>2, <1>3, <1>5, <1>6, <1>7 DEF f

\* The rows a handler begins with.
LEMMA StartingFacts ==
    ASSUME Typed, NEW kind \in {"live", "backfill"}, NEW hours, Starting(kind, hours)
    PROVE  /\ job' \in Jobs /\ job'.kind = kind /\ job'.feed # <<>>
           /\ HoursOf(job'.feed) = hours
           /\ \A i \in DOMAIN job'.feed : RowIsGenuine(job'.feed[i])
<1> DEFINE r == Rows(Published(hours))
<1>1. /\ r \in Seq(AllRows) /\ HoursOf(r) = hours
      /\ \A i \in DOMAIN r : RowIsGenuine(r[i])
  BY GenuineRows DEF Starting, Typed, TapeTyped
<1>2. r # <<>>
  <2>1. HoursOf(<<>>) = {}
    BY DEF HoursOf
  <2> QED
    BY <1>1, <2>1 DEF Starting
<1>3. job' = [kind |-> kind, feed |-> r]
  BY DEF Starting
<1> QED
  BY <1>1, <1>2, <1>3 DEF Jobs

\* The calls keep their form.
LEMMA UpsertStep ==
    ASSUME Typed, HandlersInPhase, FilesAreGenuine, [Next]_vars
    PROVE  UpsertTyped'
<1>1. UpsertTyped
  BY DEF Typed
<1>2. CASE UNCHANGED upsert
  BY <1>1, <1>2 DEF UpsertTyped
<1>3. CASE HandleMessage
  BY <1>3, HandleMessageFacts DEF Starting
<1>4. CASE Backfill
  BY <1>2, <1>4, BackfillFacts DEF Starting
<1>5. CASE RunIngestion
  BY <1>2, <1>5, IngestionFacts
<1>6. ASSUME NEW w \in Writers, Open(w) \/ Replace(w) \/ SaveMeta(w) \/ WriteFails(w)
      PROVE  UpsertTyped'
  BY <1>1, <1>6, OpenFacts, ReplaceFacts, EndFacts DEF Opened, PutInPlace, Ended
<1>7. CASE Crash
  BY <1>1, <1>7, EndFacts DEF Crash, Writers, Ended
<1>8. CASE \/ HourCloses \/ Amend \/ Start \/ Feed \/ CallbackRaises \/ ConnectionLost
           \/ Dial \/ Disconnect \/ UNCHANGED vars
  BY <1>2, <1>8 DEF HourCloses, Amend, Start, Feed, CallbackRaises, ConnectionLost, Dial,
                    Disconnect, vars
<1> QED
  BY <1>3, <1>4, <1>5, <1>6, <1>7, <1>8 DEF Next

\* A call has in its temporary file what it or another had to write, or begins with none.
LEMMA TempsStep ==
    ASSUME Typed, HandlersInPhase, FilesAreGenuine, [Next]_vars
    PROVE  TempsOfCalls
<1>1. UpsertTyped /\ Idle.temp = {}
  BY CallsAreCalls DEF Typed
<1>2. ASSUME \A w \in Writers : upsert'[w] = upsert[w] \/ upsert'[w].temp = {}
      PROVE  TempsOfCalls
  BY <1>2 DEF TempsOfCalls
<1>3. ASSUME NEW w \in Writers, NEW new, Begun(w, new) PROVE TempsOfCalls
  <2>1. upsert'[w].temp = {}
    BY <1>1, <1>3 DEF Begun
  <2> QED
    BY <1>2, <1>3, <2>1 DEF Begun
<1>4. CASE HandleMessage
  BY <1>3, <1>4, HandleMessageFacts DEF Starting, Writers
<1>5. CASE Backfill
  BY <1>2, <1>3, <1>5, BackfillFacts DEF Starting, Writers
<1>6. CASE RunIngestion
  BY <1>2, <1>3, <1>6, IngestionFacts DEF Writers
<1>7. ASSUME NEW w \in Writers, Open(w) \/ Replace(w) \/ SaveMeta(w) \/ WriteFails(w)
      PROVE  TempsOfCalls
  BY <1>1, <1>7, OpenFacts, ReplaceFacts, EndFacts DEF Opened, PutInPlace, Ended
<1>8. CASE Crash
  BY <1>1, <1>8, EndFacts DEF Crash, Writers, Ended
<1>9. CASE \/ HourCloses \/ Amend \/ Start \/ Feed \/ CallbackRaises \/ ConnectionLost
           \/ Dial \/ Disconnect \/ UNCHANGED vars
  BY <1>2, <1>9 DEF HourCloses, Amend, Start, Feed, CallbackRaises, ConnectionLost, Dial,
                    Disconnect, vars
<1> QED
  BY <1>4, <1>5, <1>6, <1>7, <1>8, <1>9 DEF Next

\* The files in the calls, and in their temporary files, stay genuine.
LEMMA CallFilesStep ==
    ASSUME Typed, HandlersInPhase, FilesAreGenuine, [Next]_vars
    PROVE  /\ FileIsGenuine(csv)'
           /\ \A w \in Writers : /\ FileIsGenuine(upsert[w].file)'
                                 /\ \A file \in upsert'[w].temp : FileIsGenuine(file)'
<1>1. Lasting
  BY LastingStep
<1>2. /\ FileIsGenuine(csv)
      /\ \A w \in Writers : /\ FileIsGenuine(upsert[w].file)
                            /\ \A file \in upsert[w].temp : FileIsGenuine(file)
  BY DEF FilesAreGenuine
<1>3. FileIsGenuine(Idle.file) /\ FileIsGenuine(NoFile)
  BY CallsAreCalls DEF FileIsGenuine, NoFile
<1>a. FileIsGenuine(csv')
  BY <1>2, OnlyReplaceWrites, ReplacedFile
<1>4. FileIsGenuine(csv)'
  BY <1>1, <1>a DEF Lasting
<1>5. \A w \in Writers : \A file \in upsert'[w].temp : FileIsGenuine(file)
  BY <1>2, <1>3, TempsStep DEF TempsOfCalls
<1>6. ASSUME NEW w \in Writers, NEW new, FileIsGenuine(new), Begun(w, new), NEW x \in Writers
      PROVE  FileIsGenuine(upsert'[x].file)
  <2>1. CASE x # w
    BY <1>2, <1>6, <2>1 DEF Begun
  <2>2. FileIsGenuine(Merged(new))
    BY <1>2, <1>6, MergedFacts
  <2>3. CASE x = w
    BY <1>3, <1>6, <2>2, <2>3 DEF Begun
  <2> QED
    BY <2>1, <2>3
<1>7. \A x \in Writers : FileIsGenuine(upsert'[x].file)
  <2>0. UpsertTyped
    BY DEF Typed
  <2>1. CASE UNCHANGED upsert
    BY <1>2, <2>1
  <2>2. CASE HandleMessage
    BY <1>6, <2>2, HandleMessageFacts DEF Starting, Writers
  <2>3. CASE Backfill
    BY <1>6, <2>1, <2>3, BackfillFacts DEF Starting, Writers
  <2>4. CASE RunIngestion
    BY <1>6, <2>1, <2>4, IngestionFacts DEF Writers
  <2>5. ASSUME NEW w \in Writers, Open(w) \/ Replace(w), NEW x \in Writers
        PROVE  FileIsGenuine(upsert'[x].file)
    <3>1. upsert'[x].file = upsert[x].file
      BY <2>0, <2>5, OpenFacts, ReplaceFacts DEF Opened, PutInPlace, Others, SameCall
    <3> QED
      BY <1>2, <3>1
  <2>6. ASSUME NEW w \in Writers, SaveMeta(w) \/ WriteFails(w) \/ Finish(w), NEW x \in Writers
        PROVE  FileIsGenuine(upsert'[x].file)
    <3>1. upsert'[x].file = upsert[x].file \/ upsert'[x] = Idle
      BY <2>0, <2>6, EndFacts DEF Ended, Others, SameCall
    <3> QED
      BY <1>2, <1>3, <3>1
  <2>7. CASE Crash
    BY <2>6, <2>7 DEF Crash, Writers
  <2>8. CASE \/ HourCloses \/ Amend \/ Start \/ Feed \/ CallbackRaises \/ ConnectionLost
             \/ Dial \/ Disconnect \/ UNCHANGED vars
    BY <2>1, <2>8 DEF HourCloses, Amend, Start, Feed, CallbackRaises, ConnectionLost, Dial,
                      Disconnect, vars
  <2> QED
    BY <2>2, <2>3, <2>4, <2>5, <2>6, <2>7, <2>8 DEF Next
<1>8. \A x \in Writers : /\ FileIsGenuine(upsert[x].file)'
                         /\ \A file \in upsert'[x].temp : FileIsGenuine(file)'
  BY <1>1, <1>5, <1>7 DEF Lasting
<1> QED
  BY <1>4, <1>8

\* Appending a row.
LEMMA AppendFacts ==
    ASSUME NEW s \in Seq(AllRows), NEW c \in AllRows
    PROVE  /\ Len(s) \in Nat /\ DOMAIN s = 1..Len(s)
           /\ Append(s, c) \in Seq(AllRows) /\ DOMAIN Append(s, c) = 1..(Len(s) + 1)
           /\ \A i \in 1..(Len(s) + 1) : Append(s, c)[i] = IF i = Len(s) + 1 THEN c ELSE s[i]
           /\ HoursOf(Append(s, c)) = HoursOf(s) \cup {c.hour}
<1>1. /\ Len(s) \in Nat /\ DOMAIN s = 1..Len(s) /\ Append(s, c) \in Seq(AllRows)
      /\ DOMAIN Append(s, c) = 1..(Len(s) + 1)
      /\ \A i \in 1..(Len(s) + 1) : Append(s, c)[i] = IF i = Len(s) + 1 THEN c ELSE s[i]
  BY LenProperties, AppendProperties
<1>2. ASSUME NEW h \in HoursOf(s) \cup {c.hour} PROVE h \in HoursOf(Append(s, c))
  <2>1. CASE h = c.hour
    <3>1. Len(s) + 1 \in 1..(Len(s) + 1)
      BY <1>1
    <3> QED
      BY <1>1, <2>1, <3>1 DEF HoursOf
  <2>2. CASE h \in HoursOf(s)
    <3>1. PICK i \in 1..Len(s) : h = s[i].hour
      BY <1>1, <2>2 DEF HoursOf
    <3>2. i \in 1..(Len(s) + 1) /\ i # Len(s) + 1
      BY <1>1
    <3> QED
      BY <1>1, <3>1, <3>2 DEF HoursOf
  <2> QED
    BY <1>2, <2>1, <2>2
<1>3. ASSUME NEW h \in HoursOf(Append(s, c)) PROVE h \in HoursOf(s) \cup {c.hour}
  <2>1. PICK i \in 1..(Len(s) + 1) : h = Append(s, c)[i].hour
    BY <1>1 DEF HoursOf
  <2>2. i = Len(s) + 1 \/ i \in 1..Len(s)
    BY <1>1
  <2> QED
    BY <1>1, <2>1, <2>2 DEF HoursOf
<1> QED
  BY <1>1, <1>2, <1>3

\* How a step moves the engine.
EngineMoves ==
    \/ engine' = engine
    \/ engine' = NoEngine
    \/ engine' = Initialize(Rows(csv))
    \/ CanFeed /\ engine' = ProcessNew(engine, Head(job.feed))

\* The engine is built from the file, fed, or lost with its process.
LEMMA EngineMove ==
    ASSUME Typed, HandlersInPhase, FilesAreGenuine, [Next]_vars
    PROVE  EngineMoves
BY HandleMessageFacts, BackfillFacts, IngestionFacts
   DEF Next, EngineMoves, HourCloses, Amend, Start, Feed, CallbackRaises, ConnectionLost, Dial,
       Disconnect, Crash, Open, Replace, SaveMeta, WriteFails, vars

\* What an engine, and what is built from a genuine file or takes a genuine row, keeps.
SoundEngine(e) ==
    /\ IsEngine(e) /\ e.ready \in BOOLEAN /\ e.last \in 0..now
    /\ e.candles \in Seq(AllRows)
    /\ \A i \in DOMAIN e.candles : RowIsGenuine(e.candles[i])
    /\ \A i, j \in DOMAIN e.candles : i < j => e.candles[i].hour < e.candles[j].hour
    /\ \A i \in DOMAIN e.candles : e.candles[i].hour <= e.last

\* The engine after a step, in terms of the hours before it.
LEMMA SoundEngines ==
    ASSUME Typed, HandlersInPhase, FilesAreGenuine, EngineAscends
    PROVE  /\ SoundEngine(engine)
           /\ SoundEngine(NoEngine) /\ HoursOf(NoEngine.candles) = {}
           /\ SoundEngine(Initialize(Rows(csv)))
           /\ HoursOf(Initialize(Rows(csv)).candles) = DOMAIN csv
           /\ CanFeed =>
                LET seen == ProcessNew(engine, Head(job.feed))
                IN  /\ SoundEngine(seen)
                    /\ \/ seen = engine
                       \/ seen # engine /\ HoursOf(seen.candles) =
                              HoursOf(engine.candles) \cup {Head(job.feed).hour}
<1>1. now \in Nat /\ SoundEngine(engine)
  <2>1. now \in Nat
    BY DEF Typed, TapeTyped
  <2>2. EngineTyped /\ EngineAscends
        /\ \A i \in DOMAIN engine.candles : RowIsGenuine(engine.candles[i])
    BY DEF Typed, FilesAreGenuine
  <2> QED
    BY <2>1, <2>2 DEF EngineTyped, EngineAscends, SoundEngine, IsEngine
<1>2. SoundEngine(NoEngine) /\ HoursOf(NoEngine.candles) = {}
  <2>1. <<>> \in Seq(AllRows) /\ DOMAIN <<>> = {}
    BY EmptySeq
  <2>2. 0 \in 0..now
    BY <1>1
  <2> QED
    BY <2>1, <2>2, NoEngineFacts DEF SoundEngine, HoursOf
<1>3. SoundEngine(Initialize(Rows(csv))) /\ HoursOf(Initialize(Rows(csv)).candles) = DOMAIN csv
  <2> DEFINE r == Rows(csv)
             e == Initialize(r)
  <2>1. /\ r \in Seq(AllRows) /\ HoursOf(r) = DOMAIN csv /\ DOMAIN csv \subseteq 1..now
        /\ \A i \in DOMAIN r : RowIsGenuine(r[i])
        /\ \A i, j \in DOMAIN r : i < j => r[i].hour < r[j].hour
    BY <1>1, GenuineRows DEF FilesAreGenuine
  <2> HIDE DEF r
  <2>2. IsEngine(e) /\ e.ready \in BOOLEAN /\ e.candles = r
    BY <2>1, InitializeFacts
  <2>3. e.last \in 0..now /\ \A i \in DOMAIN r : r[i].hour <= e.last
    <3>1. CASE r = <<>>
      <4>1. e.last = 0 /\ DOMAIN r = {}
        <5>1. e.last = 0
          BY <2>1, <3>1, InitializeFacts
        <5>2. DOMAIN r = {}
          BY <3>1
        <5> QED
          BY <5>1, <5>2
      <4> QED
        BY <1>1, <4>1
    <3>2. CASE r # <<>>
      <4>1. Len(r) \in Nat /\ Len(r) # 0 /\ DOMAIN r = 1..Len(r) /\ e.last = r[Len(r)].hour
        BY <2>1, <3>2, InitializeFacts, EmptySeq, LenProperties DEF Last
      <4>2. \A i \in DOMAIN r : r[i].hour \in 1..now
        BY <2>1 DEF RowIsGenuine, Genuine
      <4>3. Len(r) \in DOMAIN r
        BY <4>1
      <4> HIDE DEF e
      <4>4. ASSUME NEW i \in DOMAIN r PROVE r[i].hour <= e.last
        <5>1. i < Len(r) \/ i = Len(r)
          BY <4>1
        <5>2. r[i].hour \in 1..now /\ r[Len(r)].hour \in 1..now
          BY <4>2, <4>3
        <5> QED
          BY <2>1, <4>1, <4>3, <5>1, <5>2
      <4>5. e.last \in 0..now
        BY <1>1, <4>1, <4>2, <4>3
      <4> QED
        BY <4>4, <4>5
    <3> QED
      BY <3>1, <3>2
  <2> QED
    BY <2>1, <2>2, <2>3 DEF SoundEngine, r
<1>4. ASSUME CanFeed
      PROVE  LET seen == ProcessNew(engine, Head(job.feed))
             IN  /\ SoundEngine(seen)
                 /\ \/ seen = engine
                    \/ seen # engine /\ HoursOf(seen.candles) =
                           HoursOf(engine.candles) \cup {Head(job.feed).hour}
  <2> DEFINE c == Head(job.feed)
             seen == ProcessNew(engine, c)
  <2>1. c \in AllRows /\ RowIsGenuine(c)
    BY <1>4, FeedFacts
  <2> HIDE DEF c
  <2>2. IsEngine(engine) /\ engine.candles \in Seq(AllRows)
    BY <1>1 DEF SoundEngine
  <2>3. /\ IsEngine(seen) /\ seen.ready = engine.ready
        /\ \/ seen = engine
           \/ /\ c.hour > engine.last /\ seen # engine
              /\ seen.candles = Append(engine.candles, c) /\ seen.last = c.hour
    BY <2>1, <2>2, ProcessNewFacts
  <2> HIDE DEF seen
  <2>4. CASE seen = engine
    BY <1>1, <2>4 DEF seen, c
  <2>5. CASE seen # engine
    <3> DEFINE s == engine.candles
    <3>1. /\ Len(s) \in Nat /\ DOMAIN s = 1..Len(s)
          /\ seen.candles \in Seq(AllRows) /\ DOMAIN seen.candles = 1..(Len(s) + 1)
          /\ \A i \in 1..(Len(s) + 1) : seen.candles[i] = IF i = Len(s) + 1 THEN c ELSE s[i]
          /\ HoursOf(seen.candles) = HoursOf(s) \cup {c.hour}
          /\ c.hour > engine.last /\ seen.last = c.hour
      <4>1. s \in Seq(AllRows)
        BY <2>2
      <4> HIDE DEF s
      <4>2. /\ Len(s) \in Nat /\ DOMAIN s = 1..Len(s)
            /\ Append(s, c) \in Seq(AllRows) /\ DOMAIN Append(s, c) = 1..(Len(s) + 1)
            /\ \A i \in 1..(Len(s) + 1) : Append(s, c)[i] = IF i = Len(s) + 1 THEN c ELSE s[i]
            /\ HoursOf(Append(s, c)) = HoursOf(s) \cup {c.hour}
        BY <2>1, <4>1, AppendFacts
      <4>3. seen.candles = Append(s, c) /\ c.hour > engine.last /\ seen.last = c.hour
        BY <2>3, <2>5 DEF s
      <4> QED
        BY <4>2, <4>3
    <3>2. /\ \A i \in DOMAIN s : RowIsGenuine(s[i])
          /\ \A i, j \in DOMAIN s : i < j => s[i].hour < s[j].hour
          /\ \A i \in DOMAIN s : s[i].hour <= engine.last
          /\ engine.last \in 0..now /\ engine.ready \in BOOLEAN
      BY <1>1 DEF SoundEngine
    <3>3. c.hour \in 1..now /\ \A i \in DOMAIN s : s[i].hour \in 1..now
      BY <2>1, <3>2 DEF RowIsGenuine, Genuine
    <3> HIDE DEF s
    <3>4. \A i \in 1..(Len(s) + 1) : i = Len(s) + 1 \/ i \in DOMAIN s
      BY <3>1
    <3>5. \A i \in 1..(Len(s) + 1) : RowIsGenuine(seen.candles[i])
      BY <2>1, <3>1, <3>2, <3>4
    <3>6. \A i \in 1..(Len(s) + 1) : seen.candles[i].hour <= seen.last
      <4> TAKE i \in 1..(Len(s) + 1)
      <4>1. CASE i = Len(s) + 1
        BY <3>1, <3>3, <4>1
      <4>2. CASE i # Len(s) + 1
        <5>1. i \in DOMAIN s /\ seen.candles[i] = s[i]
          BY <3>1, <3>4, <4>2
        <5> QED
          BY <3>1, <3>2, <3>3, <5>1
      <4> QED
        BY <4>1, <4>2
    <3>7. ASSUME NEW i \in 1..(Len(s) + 1), NEW j \in 1..(Len(s) + 1), i < j
          PROVE  seen.candles[i].hour < seen.candles[j].hour
      <4>1. i \in DOMAIN s /\ seen.candles[i] = s[i]
        BY <3>1, <3>7
      <4>2. CASE j = Len(s) + 1
        BY <3>1, <3>2, <3>3, <4>1, <4>2
      <4>3. CASE j # Len(s) + 1
        <5>1. j \in DOMAIN s /\ seen.candles[j] = s[j]
          BY <3>1, <4>3
        <5> QED
          BY <3>2, <3>7, <4>1, <5>1
      <4> QED
        BY <4>2, <4>3
    <3>8. seen.last \in 0..now
      BY <1>1, <3>1, <3>3
    <3>9. SoundEngine(seen)
      BY <2>3, <3>1, <3>2, <3>5, <3>6, <3>7, <3>8 DEF SoundEngine
    <3> QED
      BY <2>5, <3>1, <3>9 DEF s, seen, c
  <2> QED
    BY <2>4, <2>5
<1> QED
  BY <1>1, <1>2, <1>3, <1>4

\* Every step leaves a sound engine.
LEMMA EngineStep ==
    ASSUME Typed, HandlersInPhase, FilesAreGenuine, EngineAscends, [Next]_vars
    PROVE  /\ EngineTyped' /\ EngineAscends'
           /\ \A i \in DOMAIN engine'.candles : RowIsGenuine(engine.candles[i])'
<1>1. Lasting /\ now \in Nat /\ now' \in Nat /\ now <= now'
  BY LastingStep, TapeStep DEF TapeLasts
<1>2. SoundEngine(engine')
  BY EngineMove, SoundEngines DEF EngineMoves
<1>3. \A i \in DOMAIN engine'.candles : RowIsGenuine(engine.candles[i])'
  BY <1>1, <1>2 DEF Lasting, SoundEngine
<1>4. EngineTyped'
  BY <1>1, <1>2 DEF SoundEngine, EngineTyped, IsEngine
<1>5. EngineAscends'
  BY <1>2 DEF SoundEngine, EngineAscends
<1> QED
  BY <1>3, <1>4, <1>5

\* The handler's rows are rows of the file it will write, or what it has not yet handed on.
LEMMA JobStep ==
    ASSUME Typed, HandlersInPhase, FilesAreGenuine, [Next]_vars
    PROVE  job' \in Jobs /\ \A i \in DOMAIN job'.feed : RowIsGenuine(job.feed[i])'
<1>1. job \in Jobs /\ \A i \in DOMAIN job.feed : RowIsGenuine(job.feed[i])
  BY DEF Typed, FilesAreGenuine
<1>2. NoJob \in Jobs /\ DOMAIN NoJob.feed = {}
  <2>1. <<>> \in Seq(AllRows)
    BY EmptySeq
  <2> QED
    BY <2>1 DEF NoJob, Jobs
<1> DEFINE Sound == job' \in Jobs /\ \A i \in DOMAIN job'.feed : RowIsGenuine(job'.feed[i])
<1>0. SUFFICES Sound
  BY LastingStep DEF Lasting
<1>3. CASE UNCHANGED job \/ job' = NoJob
  BY <1>1, <1>2, <1>3
<1>4. CASE HandleMessage
  <2>1. PICK hours \in SUBSET (1..now) : Starting("live", hours)
    BY <1>4, HandleMessageFacts
  <2> QED
    BY <2>1, StartingFacts
<1>5. CASE Backfill
  <2>1. UNCHANGED job \/ \E hours \in SUBSET (1..now) : Starting("backfill", hours)
    BY <1>5, BackfillFacts
  <2>2. ASSUME NEW hours \in SUBSET (1..now), Starting("backfill", hours) PROVE Sound
    BY <2>2, StartingFacts
  <2> QED
    BY <1>3, <2>1, <2>2
<1>6. CASE Feed
  <2>1. CanFeed /\ (job' = NoJob \/ job' = [job EXCEPT !.feed = Tail(job.feed)])
    BY <1>6 DEF Feed
  <2>2. /\ Tail(job.feed) \in Seq(AllRows)
        /\ \A i \in DOMAIN Tail(job.feed) : RowIsGenuine(Tail(job.feed)[i])
    BY <2>1, FeedFacts
  <2>3. CASE job' = [job EXCEPT !.feed = Tail(job.feed)]
    <3>1. job'.feed = Tail(job.feed) /\ job' \in Jobs
      BY <1>1, <2>2, <2>3 DEF Jobs
    <3> QED
      BY <2>2, <3>1
  <2> QED
    BY <1>3, <2>1, <2>3
<1>7. CASE RunIngestion
  BY <1>3, <1>7, IngestionFacts
<1>8. CASE \/ HourCloses \/ Amend \/ Start \/ CallbackRaises \/ ConnectionLost \/ Dial
           \/ Disconnect \/ Crash \/ UNCHANGED vars
           \/ \E w \in Writers : Open(w) \/ Replace(w) \/ SaveMeta(w) \/ WriteFails(w)
  BY <1>3, <1>8 DEF HourCloses, Amend, Start, CallbackRaises, ConnectionLost, Dial, Disconnect,
                    Crash, Open, Replace, SaveMeta, WriteFails, vars
<1> QED
  BY <1>4, <1>5, <1>6, <1>7, <1>8 DEF Next

\* The metadata's numbers stay within the hours that have closed.
LEMMA MetaStep ==
    ASSUME Typed, HandlersInPhase, FilesAreGenuine, [Next]_vars
    PROVE  meta' \in [count: 0..now', last: 0..now', gaps: 0..now']
<1>1. now \in Nat /\ now' \in Nat /\ now <= now'
  BY TapeStep DEF TapeLasts
<1>2. meta' \in [count: 0..now, last: 0..now, gaps: 0..now]
  <2>1. CASE UNCHANGED meta
    BY <2>1 DEF Typed
  <2>2. ASSUME NEW w \in Writers, NEW file \in upsert[w].temp
        PROVE  Describe(file) \in [count: 0..now, last: 0..now, gaps: 0..now]
    <3>1. DOMAIN file \subseteq 1..now
      BY DEF FilesAreGenuine, FileIsGenuine, Genuine
    <3> QED
      BY <1>1, <3>1, DescribeTyped
  <2>3. ASSUME NEW w \in Writers, SaveMeta(w)
        PROVE  meta' \in [count: 0..now, last: 0..now, gaps: 0..now]
    <3>1. UNCHANGED meta \/ \E file \in upsert[w].temp : meta' = Describe(file)
      BY <2>3 DEF SaveMeta
    <3> QED
      BY <2>1, <2>2, <3>1
  <2> QED
    BY <2>1, <2>3, HandleMessageFacts, BackfillFacts, IngestionFacts
       DEF Next, HourCloses, Amend, Start, Feed, CallbackRaises, ConnectionLost, Dial,
           Disconnect, Crash, Open, Replace, WriteFails, vars
<1>3. 0..now \subseteq 0..now'
  BY <1>1
<1> QED
  BY <1>2, <1>3

\* Whether the files parse stays a yes or a no.
LEMMA LegibleStep ==
    ASSUME Typed, HandlersInPhase, FilesAreGenuine, [Next]_vars
    PROVE  legible' \in [csv: BOOLEAN, meta: BOOLEAN]
<1>1. legible \in [csv: BOOLEAN, meta: BOOLEAN]
  BY DEF Typed
<1>2. CASE UNCHANGED legible
  BY <1>1, <1>2
<1>3. ASSUME NEW w \in Writers, Replace(w) \/ SaveMeta(w)
      PROVE  legible' \in [csv: BOOLEAN, meta: BOOLEAN]
  <2>1. \E l \in BOOLEAN : \/ legible' = [legible EXCEPT !.csv = l]
                           \/ legible' = [legible EXCEPT !.meta = l]
    BY <1>3 DEF Replace, SaveMeta
  <2> QED
    BY <1>1, <2>1
<1> QED
  BY <1>2, <1>3, HandleMessageFacts, BackfillFacts, IngestionFacts
     DEF Next, HourCloses, Amend, Start, Feed, CallbackRaises, ConnectionLost, Dial,
         Disconnect, Crash, Open, WriteFails, vars

\* Trying again counts, and gives up past the last attempt.
LEMMA RetryFacts ==
    ASSUME NEW c \in Clients, c.attempts <= MaxAttempts
    PROVE  /\ Retry(c) \in Clients
           /\ Retry(c).processed = c.processed /\ Retry(c).last = c.last
           /\ \/ Retry(c).attempts <= MaxAttempts /\ Retry(c).phase = "waiting"
              \/ Retry(c).attempts = MaxAttempts + 1 /\ Retry(c).phase = "gaveUp"
<1>2. c.attempts \in Nat /\ MaxAttempts \in Nat /\ c.attempts + 1 \in Nat
  BY Pages1 DEF Clients
<1>1. /\ Retry(c).attempts = c.attempts + 1
      /\ Retry(c).phase = IF c.attempts + 1 > MaxAttempts THEN "gaveUp" ELSE "waiting"
      /\ Retry(c).processed = c.processed /\ Retry(c).last = c.last
      /\ Retry(c).running = c.running /\ Retry(c) \in Clients
  BY <1>2 DEF Retry, Clients, Phases
<1> QED
  BY <1>1, <1>2

\* What the client is before it starts, and what marking a candle does to it.
LEMMA MarkedFacts ==
    /\ NoClient \in Clients /\ NoClient.phase = "off" /\ NoClient.attempts = 0
    /\ NoClient.processed = {} /\ NoClient.last = 0
    /\ \A c \in Clients : \A h \in Nat :
           /\ Marked(c, h) \in Clients /\ Marked(c, h).last = h
           /\ Marked(c, h).processed = c.processed \cup {h}
           /\ Marked(c, h).phase = c.phase /\ Marked(c, h).attempts = c.attempts
    /\ \A c \in Clients :
           /\ Abandon(c, "live") = c
           /\ Abandon(c, "backfill") \in Clients /\ Abandon(c, "backfill").phase = "dialing"
           /\ Abandon(c, "backfill").processed = c.processed
           /\ Abandon(c, "backfill").last = c.last
           /\ Abandon(c, "backfill").attempts = c.attempts
<1>1. /\ NoClient \in Clients /\ NoClient.phase = "off" /\ NoClient.attempts = 0
      /\ NoClient.processed = {} /\ NoClient.last = 0
  BY DEF NoClient, Clients, Phases
<1>2. ASSUME NEW c \in Clients, NEW h \in Nat
      PROVE  /\ Marked(c, h) \in Clients /\ Marked(c, h).last = h
             /\ Marked(c, h).processed = c.processed \cup {h}
             /\ Marked(c, h).phase = c.phase /\ Marked(c, h).attempts = c.attempts
  BY DEF Marked, Clients
<1>3. ASSUME NEW c \in Clients
      PROVE  /\ Abandon(c, "live") = c
             /\ Abandon(c, "backfill") \in Clients /\ Abandon(c, "backfill").phase = "dialing"
             /\ Abandon(c, "backfill").processed = c.processed
             /\ Abandon(c, "backfill").last = c.last
             /\ Abandon(c, "backfill").attempts = c.attempts
  BY DEF Abandon, Clients, Phases
<1> QED
  BY <1>1, <1>2, <1>3

\* Every step leaves a handler in its phase; only what was just fed is marked.
LEMMA PhaseStep ==
    ASSUME Typed, HandlersInPhase, FilesAreGenuine, [Next]_vars
    PROVE  /\ client' \in Clients /\ HandlersInPhase'
           /\ \/ client'.processed \subseteq client.processed
              \/ CanFeed /\ client'.processed = client.processed \cup {Head(job.feed).hour}
<1> DEFINE OnlyFedIsMarked ==
               \/ client'.processed \subseteq client.processed
               \/ CanFeed /\ client'.processed = client.processed \cup {Head(job.feed).hour}
           Goal == client' \in Clients /\ HandlersInPhase' /\ OnlyFedIsMarked
<1> SUFFICES Goal
  OBVIOUS
<1>1. /\ client \in Clients /\ job \in Jobs /\ UpsertTyped /\ MaxAttempts \in Nat
      /\ NoJob.kind = "none" /\ "client" \in Writers
      /\ client.attempts \in Nat /\ client.processed \subseteq 1..now'
      /\ {} \subseteq 1..now'
  <2>1. client.processed \subseteq 1..now /\ 1..now \subseteq 1..now'
    BY TapeStep DEF TapeLasts, HandlersInPhase
  <2> QED
    BY <2>1, Pages1 DEF Typed, NoJob, Writers, Clients
<1>2. ASSUME UNCHANGED <<client, job>>,
             job.kind = "none" => upsert'["client"].stage = "idle"
      PROVE  Goal
  BY <1>1, <1>2 DEF HandlersInPhase
<1>3. CASE HourCloses \/ Amend \/ UNCHANGED vars
  BY <1>2, <1>3 DEF HourCloses, Amend, vars, HandlersInPhase
<1>4. CASE RunIngestion
  <2>1. UNCHANGED <<client, job>> /\ upsert'["client"] = upsert["client"]
    BY <1>4, IngestionFacts DEF Begun, Writers
  <2> QED
    BY <1>2, <2>1 DEF HandlersInPhase
<1>5. ASSUME NEW w \in Writers, Open(w) \/ Replace(w) \/ SaveMeta(w) PROVE Goal
  <2>1. UNCHANGED <<client, job>> /\ upsert[w].stage # "idle"
    BY <1>5 DEF Open, Replace, SaveMeta
  <2>2. job.kind = "none" => w # "client"
    BY <2>1 DEF HandlersInPhase
  <2>3. w # "client" => SameCall("client")
    BY <1>1, <1>5, OpenFacts, ReplaceFacts, EndFacts DEF Opened, PutInPlace, Ended, Others
  <2> QED
    BY <1>2, <2>1, <2>2, <2>3 DEF HandlersInPhase, SameCall
<1>6. ASSUME NEW w \in Writers, WriteFails(w) PROVE Goal
  <2>1. /\ upsert[w].stage # "idle"
        /\ IF w = "client"
           THEN client' = Abandon(client, job.kind) /\ job' = NoJob
           ELSE UNCHANGED <<client, job>>
    BY <1>6 DEF WriteFails
  <2>2. upsert'[w] = Idle /\ \A x \in Writers : x # w => SameCall(x)
    BY <1>1, <1>6, EndFacts DEF Ended, Others
  <2>3. CASE w # "client"
    BY <1>1, <1>2, <2>1, <2>2, <2>3 DEF HandlersInPhase, SameCall
  <2>4. CASE w = "client"
    <3>1. job.kind \in {"live", "backfill"}
      BY <1>1, <2>1, <2>4 DEF HandlersInPhase, Jobs
    <3>2. job' = NoJob /\ upsert'["client"].stage = "idle"
      BY <2>1, <2>2, <2>4, CallsAreCalls
    <3>3. CASE job.kind = "live"
      <4>1. client' = client
        BY <1>1, <2>1, <2>4, <3>3, MarkedFacts
      <4> QED
        BY <1>1, <3>2, <3>3, <4>1 DEF HandlersInPhase
    <3>4. CASE job.kind = "backfill"
      <4>1. /\ client' \in Clients /\ client'.phase = "dialing"
            /\ client'.processed = client.processed
            /\ client'.last = client.last /\ client'.attempts = client.attempts
        BY <1>1, <2>1, <2>4, <3>4, MarkedFacts
      <4> QED
        BY <1>1, <3>2, <3>4, <4>1 DEF HandlersInPhase
    <3> QED
      BY <3>1, <3>3, <3>4
  <2> QED
    BY <2>3, <2>4
<1>7. CASE Start
  <2>1. /\ client.phase = "off" /\ UNCHANGED <<job, upsert>>
        /\ client' = [NoClient EXCEPT !.phase = "up", !.running = TRUE]
    BY <1>7 DEF Start
  <2> DEFINE c == NoClient
  <2>2. c \in Clients /\ c.attempts = 0 /\ c.processed = {} /\ c.last = 0
    BY MarkedFacts
  <2> HIDE DEF c
  <2>3. client' = [c EXCEPT !.phase = "up", !.running = TRUE]
    BY <2>1 DEF c
  <2>4. /\ client' \in Clients /\ client'.phase = "up" /\ client'.attempts = 0
        /\ client'.processed = {} /\ client'.last = 0
    BY <2>2, <2>3 DEF Clients, Phases
  <2>5. job = NoJob
    BY <1>1, <2>1 DEF HandlersInPhase, Jobs
  <2> QED
    BY <1>1, <2>1, <2>4, <2>5 DEF HandlersInPhase
<1>8. CASE HandleMessage
  <2>1. PICK hours \in SUBSET (1..now) : Starting("live", hours)
    BY <1>8, HandleMessageFacts
  <2>2. job'.kind = "live" /\ job'.feed # <<>>
    BY <2>1, StartingFacts
  <2>3. client' = client /\ client.phase = "up"
    BY <1>8, HandleMessageFacts
  <2> QED
    BY <1>1, <2>2, <2>3 DEF HandlersInPhase
<1>9. CASE Backfill
  <2>1. client.phase = "waiting" /\ job = NoJob
    BY <1>9, BackfillFacts
  <2>2. CASE \E hours \in SUBSET (1..now) : Starting("backfill", hours)
             /\ client' = [client EXCEPT !.phase = "backfill"]
    <3>1. job'.kind = "backfill" /\ job'.feed # <<>>
      BY <2>2, StartingFacts
    <3>2. /\ client' \in Clients /\ client'.phase = "backfill"
          /\ client'.attempts = client.attempts /\ client'.last = client.last
          /\ client'.processed = client.processed
      BY <1>1, <2>2 DEF Clients, Phases
    <3> QED
      BY <1>1, <2>1, <3>1, <3>2 DEF HandlersInPhase
  <2>3. CASE client' = [client EXCEPT !.phase = "dialing"] /\ UNCHANGED <<upsert, job>>
    <3>1. /\ client' \in Clients /\ client'.phase = "dialing"
          /\ client'.attempts = client.attempts /\ client'.last = client.last
          /\ client'.processed = client.processed
      BY <1>1, <2>3 DEF Clients, Phases
    <3> QED
      BY <1>1, <2>1, <2>3, <3>1 DEF HandlersInPhase
  <2> QED
    BY <1>9, <2>2, <2>3, BackfillFacts
<1>10. ASSUME CanFeed
       PROVE  LET h == Head(job.feed).hour
                  c == Marked(client, h)
              IN  /\ h \in Nat /\ c \in Clients /\ c.last = h
                  /\ c.processed = client.processed \cup {h} /\ c.processed \subseteq 1..now'
                  /\ c.phase = client.phase /\ c.attempts = client.attempts
                  /\ upsert["client"].stage = "idle"
                  /\ \/ job.kind = "live" /\ client.phase = "up"
                     \/ job.kind = "backfill" /\ client.phase = "backfill"
                  /\ client.attempts <= MaxAttempts
  <2>1. Head(job.feed).hour \in HoursOf(job.feed) /\ HoursOf(job.feed) \in SUBSET (1..now)
        /\ job.kind \in {"live", "backfill"} /\ upsert["client"].stage = "idle"
    BY <1>10, FeedFacts
  <2>2. Head(job.feed).hour \in Nat /\ Head(job.feed).hour \in 1..now'
    BY <2>1, TapeStep DEF TapeLasts
  <2>3. /\ \/ job.kind = "live" /\ client.phase = "up"
           \/ job.kind = "backfill" /\ client.phase = "backfill"
        /\ client.attempts <= MaxAttempts
    BY <2>1 DEF HandlersInPhase
  <2> DEFINE h == Head(job.feed).hour
             c == Marked(client, h)
  <2>4. /\ h \in Nat /\ c \in Clients /\ c.last = h
        /\ c.processed = client.processed \cup {h}
        /\ c.phase = client.phase /\ c.attempts = client.attempts
    BY <1>1, <2>2, MarkedFacts
  <2>5. h \in 1..now'
    BY <2>2
  <2> HIDE DEF h, c
  <2>6. c.processed \subseteq 1..now'
    BY <1>1, <2>4, <2>5
  <2> QED
    BY <2>1, <2>3, <2>4, <2>6 DEF h, c
<1>11. CASE Feed
  <2> DEFINE h == Head(job.feed).hour
             rest == Tail(job.feed)
             c == Marked(client, h)
  <2>1. /\ CanFeed /\ UNCHANGED upsert
        /\ client' = IF rest = <<>> THEN Abandon(c, job.kind) ELSE c
        /\ job' = IF rest = <<>> THEN NoJob ELSE [job EXCEPT !.feed = rest]
    BY <1>11 DEF Feed
  <2>2. /\ h \in Nat /\ c \in Clients /\ c.last = h
        /\ c.processed = client.processed \cup {h} /\ c.processed \subseteq 1..now'
        /\ c.phase = client.phase /\ c.attempts = client.attempts
        /\ upsert["client"].stage = "idle"
        /\ \/ job.kind = "live" /\ client.phase = "up"
           \/ job.kind = "backfill" /\ client.phase = "backfill"
        /\ client.attempts <= MaxAttempts
    BY <1>10, <2>1
  <2>3. h \in client.processed \cup {h}
    OBVIOUS
  <2> HIDE DEF c, rest
  <2>4. CASE rest # <<>>
    <3>1. client' = c /\ job'.kind = job.kind /\ job'.feed = rest
      BY <1>1, <2>1, <2>4 DEF Jobs
    <3> QED
      BY <1>1, <2>1, <2>2, <2>3, <2>4, <3>1 DEF HandlersInPhase
  <2>5. CASE rest = <<>> /\ job.kind = "live"
    <3>1. client' = c /\ job' = NoJob
      BY <2>1, <2>2, <2>5, MarkedFacts
    <3> QED
      BY <1>1, <2>1, <2>2, <2>3, <2>5, <3>1 DEF HandlersInPhase
  <2>6. CASE rest = <<>> /\ job.kind = "backfill"
    <3>1. /\ client' \in Clients /\ client'.phase = "dialing" /\ job' = NoJob
          /\ client'.processed = c.processed
          /\ client'.last = c.last /\ client'.attempts = c.attempts
      BY <2>1, <2>2, <2>6, MarkedFacts
    <3> QED
      BY <1>1, <2>1, <2>2, <2>3, <2>6, <3>1 DEF HandlersInPhase
  <2> QED
    BY <2>2, <2>4, <2>5, <2>6
<1>12. CASE CallbackRaises
  <2> DEFINE h == Head(job.feed).hour
             c == Marked(client, h)
  <2>1. CanFeed /\ UNCHANGED upsert /\ client' = Escape(c, job.kind) /\ job' = NoJob
    BY <1>12 DEF CallbackRaises
  <2>2. /\ h \in Nat /\ c \in Clients /\ c.last = h
        /\ c.processed = client.processed \cup {h} /\ c.processed \subseteq 1..now'
        /\ c.phase = client.phase /\ c.attempts = client.attempts
        /\ upsert["client"].stage = "idle"
        /\ \/ job.kind = "live" /\ client.phase = "up"
           \/ job.kind = "backfill" /\ client.phase = "backfill"
        /\ client.attempts <= MaxAttempts
    BY <1>10, <2>1
  <2> HIDE DEF c
  <2>3. CASE job.kind = "live"
    <3>1. client' = Retry(c)
      BY <2>1, <2>3 DEF Escape
    <3>2. /\ client' \in Clients /\ client'.processed = c.processed /\ client'.last = c.last
          /\ \/ client'.attempts <= MaxAttempts /\ client'.phase = "waiting"
             \/ client'.attempts = MaxAttempts + 1 /\ client'.phase = "gaveUp"
      BY <2>2, <3>1, RetryFacts
    <3> QED
      BY <1>1, <2>1, <2>2, <3>2 DEF HandlersInPhase
  <2>4. CASE job.kind = "backfill"
    <3>1. client' = Abandon(c, "backfill")
      BY <2>1, <2>4 DEF Escape
    <3>2. /\ client' \in Clients /\ client'.phase = "dialing"
          /\ client'.processed = c.processed
          /\ client'.last = c.last /\ client'.attempts = c.attempts
      BY <2>2, <3>1, MarkedFacts
    <3> QED
      BY <1>1, <2>1, <2>2, <3>2 DEF HandlersInPhase
  <2> QED
    BY <2>2, <2>3, <2>4
<1>13. CASE ConnectionLost
  <2>1. client.phase = "up" /\ job = NoJob /\ client' = Retry(client) /\ UNCHANGED <<job, upsert>>
    BY <1>13 DEF ConnectionLost
  <2>2. /\ client' \in Clients /\ client'.processed = client.processed
        /\ client'.last = client.last
        /\ \/ client'.attempts <= MaxAttempts /\ client'.phase = "waiting"
           \/ client'.attempts = MaxAttempts + 1 /\ client'.phase = "gaveUp"
    BY <1>1, <2>1, RetryFacts DEF HandlersInPhase
  <2> QED
    BY <1>1, <2>1, <2>2 DEF HandlersInPhase
<1>14. CASE Dial
  <2> DEFINE d == Connected(client)
  <2>1. /\ client.phase = "dialing" /\ UNCHANGED <<job, upsert>>
        /\ \/ client' = [d EXCEPT !.phase = "up"]
           \/ client' = Retry(d)
           \/ client' = Retry(client)
    BY <1>14 DEF Dial
  <2>2. /\ d \in Clients /\ d.attempts = 0 /\ d.processed = client.processed
        /\ d.last = client.last /\ 0 <= MaxAttempts
    <3>1. d = [client EXCEPT !.running = TRUE, !.attempts = 0]
      BY DEF Connected
    <3>2. 0 <= MaxAttempts /\ 0 \in Nat /\ TRUE \in BOOLEAN
      BY <1>1
    <3> HIDE DEF d
    <3>3. d \in Clients
      BY <1>1, <3>1, <3>2 DEF Clients
    <3>4. d.attempts = 0 /\ d.processed = client.processed /\ d.last = client.last
      BY <1>1, <3>1 DEF Clients
    <3> QED
      BY <3>2, <3>3, <3>4
  <2>3. job = NoJob
    BY <1>1, <2>1 DEF HandlersInPhase, Jobs
  <2> HIDE DEF d
  <2>4. CASE client' = [d EXCEPT !.phase = "up"]
    <3>1. /\ client' \in Clients /\ client'.phase = "up" /\ client'.attempts = 0
          /\ client'.processed = client.processed /\ client'.last = client.last
      BY <2>2, <2>4 DEF Clients, Phases
    <3> QED
      BY <1>1, <2>1, <2>2, <2>3, <3>1 DEF HandlersInPhase
  <2>5. ASSUME NEW x \in Clients, x.attempts <= MaxAttempts, client' = Retry(x),
               x.processed = client.processed, x.last = client.last
        PROVE  Goal
    <3>1. /\ client' \in Clients /\ client'.processed = client.processed
          /\ client'.last = client.last
          /\ \/ client'.attempts <= MaxAttempts /\ client'.phase = "waiting"
             \/ client'.attempts = MaxAttempts + 1 /\ client'.phase = "gaveUp"
      BY <2>5, RetryFacts
    <3> QED
      BY <1>1, <2>1, <2>3, <3>1 DEF HandlersInPhase
  <2>6. client.attempts <= MaxAttempts
    BY <2>1 DEF HandlersInPhase
  <2> HIDE DEF Goal
  <2> QED
    BY <1>1, <2>1, <2>2, <2>4, <2>5, <2>6
<1>15. CASE Disconnect
  <2>1. /\ client.phase \in {"up", "waiting", "dialing"} /\ job = NoJob
        /\ UNCHANGED <<job, upsert>>
        /\ client' = [client EXCEPT !.running = FALSE,
                                    !.phase = IF @ = "up" THEN "stopped" ELSE @]
    BY <1>15 DEF Disconnect
  <2>2. /\ client' \in Clients /\ client'.attempts = client.attempts
        /\ client'.phase \in {"stopped", "waiting", "dialing"}
        /\ client'.processed = client.processed /\ client'.last = client.last
    BY <1>1, <2>1 DEF Clients, Phases
  <2> QED
    BY <1>1, <2>1, <2>2 DEF HandlersInPhase
<1>16. CASE Crash
  <2>1. client' = NoClient /\ job' = NoJob /\ Finish("client")
    BY <1>16 DEF Crash
  <2>2. upsert'["client"].stage = "idle"
    BY <1>1, <2>1, EndFacts, CallsAreCalls DEF Ended
  <2>3. /\ client' \in Clients /\ client'.phase = "off" /\ client'.attempts = 0
        /\ client'.processed = {} /\ client'.last = 0
    BY <2>1, MarkedFacts
  <2> QED
    BY <1>1, <2>1, <2>2, <2>3 DEF HandlersInPhase
<1> HIDE DEF Goal
<1> QED
  BY <1>3, <1>4, <1>5, <1>6, <1>7, <1>8, <1>9, <1>11, <1>12, <1>13, <1>14, <1>15, <1>16
     DEF Next

\* The types hold after every step.
LEMMA TypedStep ==
    ASSUME Typed, HandlersInPhase, FilesAreGenuine, EngineAscends, [Next]_vars
    PROVE  Typed'
<1>1. now \in Nat /\ now' \in Nat /\ now <= now'
  BY TapeStep DEF TapeLasts
<1>2. HolesTyped'
  <2>1. 1..now \subseteq 1..now' /\ 0..now \subseteq 0..now'
    BY <1>1
  <2>2. CASE CostsGrow
    BY <2>1, <2>2 DEF CostsGrow, CostsWithin, HolesTyped
  <2>3. CASE HourCloses
    BY <2>1, <2>3 DEF HourCloses, HolesTyped, Typed
  <2> QED
    BY <2>2, <2>3, CostsStep
<1> QED
  BY <1>2, TapeStep, UpsertStep, EngineStep, MetaStep, LegibleStep, PhaseStep, JobStep DEF Typed

\* Everything that holds a candle holds genuine ones after every step.
LEMMA GenuineStep ==
    ASSUME Typed, HandlersInPhase, FilesAreGenuine, EngineAscends, [Next]_vars
    PROVE  FilesAreGenuine'
BY CallFilesStep, JobStep, EngineStep DEF FilesAreGenuine

-----------------------------------------------------------------------------
(* The client's call and what its handler has handed on.                   *)

\* How a step moves the client's call and the handler that made it.
Rests ==
    /\ SameCall("client")
    /\ HoursOf(job'.feed) \subseteq HoursOf(job.feed)
    /\ Waiting("client") => job' = job
Begins == \E kind \in {"live", "backfill"} : \E hours \in SUBSET (1..now) : Starting(kind, hours)
Ends ==
    /\ upsert'["client"] = Idle
    /\ \/ job' = NoJob
       \/ Behind("client") /\ job' = job

\* A call of the client moves only with its handler.
LEMMA CallMove ==
    ASSUME Typed, HandlersInPhase, FilesAreGenuine, [Next]_vars
    PROVE  Rests \/ Begins \/ Ends \/ Replace("client")
<1>1. /\ UpsertTyped /\ "client" \in Writers /\ HoursOf(NoJob.feed) = {}
      /\ upsert["client"].stage = "idle" => ~Waiting("client")
      /\ upsert'["client"] = upsert["client"] => SameCall("client")
  BY IdleCalls DEF Typed, Writers, NoJob, HoursOf
<1>2. CASE UNCHANGED <<upsert, job>>
  BY <1>1, <1>2 DEF Rests
<1>3. CASE HandleMessage
  BY <1>3, HandleMessageFacts DEF Begins
<1>4. CASE Backfill
  <2>1. UNCHANGED <<upsert, job>> \/ \E hours \in SUBSET (1..now) : Starting("backfill", hours)
    BY <1>4, BackfillFacts
  <2> QED
    BY <1>2, <2>1 DEF Begins
<1>5. CASE RunIngestion
  <2>1. job' = job /\ upsert'["client"] = upsert["client"]
    BY <1>5, IngestionFacts DEF Begun, Writers
  <2> QED
    BY <1>1, <2>1 DEF Rests
<1>6. CASE Feed
  <2>1. CanFeed /\ UNCHANGED upsert
        /\ job' = IF Tail(job.feed) = <<>> THEN NoJob ELSE [job EXCEPT !.feed = Tail(job.feed)]
    BY <1>6 DEF Feed
  <2>2. /\ upsert["client"].stage = "idle"
        /\ HoursOf(Tail(job.feed)) \subseteq HoursOf(job.feed)
    BY <2>1, FeedFacts
  <2>3. job'.feed = Tail(job.feed) \/ job' = NoJob
    BY <2>1 DEF Typed, Jobs
  <2> QED
    BY <1>1, <2>1, <2>2, <2>3 DEF Rests
<1>7. CASE CallbackRaises
  BY <1>1, <1>7 DEF CallbackRaises, CanFeed, Rests
<1>8. CASE Crash
  BY <1>1, <1>8, EndFacts DEF Crash, Ended, Ends
<1>9. ASSUME NEW w \in Writers, SaveMeta(w) \/ WriteFails(w)
      PROVE  Rests \/ Ends
  <2>1. upsert'[w] = Idle /\ \A x \in Writers : x # w => SameCall(x)
    BY <1>1, <1>9, EndFacts DEF Ended, Others
  <2>2. CASE w = "client"
    BY <1>9, <2>1, <2>2 DEF SaveMeta, WriteFails, Ends, Behind
  <2>3. CASE w # "client"
    BY <1>1, <1>9, <2>1, <2>3 DEF SaveMeta, WriteFails, Rests
  <2> QED
    BY <2>2, <2>3
<1>10. ASSUME NEW w \in Writers, Replace(w)
       PROVE  Rests \/ Replace("client")
  <2>1. CASE w # "client"
    <3>1. SameCall("client") /\ job' = job
      BY <1>1, <1>10, <2>1, ReplaceFacts DEF PutInPlace, Others, Replace
    <3> QED
      BY <3>1 DEF Rests
  <2> QED
    BY <1>10, <2>1
<1>11. ASSUME NEW w \in Writers, Open(w)
       PROVE  Rests
  BY <1>1, <1>11, OpenFacts DEF Opened, Rests
<1>12. CASE \/ HourCloses \/ Amend \/ Start \/ ConnectionLost \/ Dial \/ Disconnect
            \/ UNCHANGED vars
  BY <1>2, <1>12 DEF HourCloses, Amend, Start, ConnectionLost, Dial, Disconnect, vars
<1> QED
  BY <1>3, <1>4, <1>5, <1>6, <1>7, <1>8, <1>9, <1>10, <1>11, <1>12 DEF Next

\* What a call has loaded is in the file it will write.
LEMMA LoadedStep ==
    ASSUME Typed, HandlersInPhase, FilesAreGenuine, HandedOnAfterStored, [Next]_vars,
           NEW w \in Writers
    PROVE  upsert'[w].loaded \subseteq DOMAIN upsert'[w].file
<1>1. UpsertTyped /\ upsert[w].loaded \subseteq DOMAIN upsert[w].file
  BY DEF Typed, HandedOnAfterStored
<1>2. CASE upsert'[w] = upsert[w] \/ upsert'[w] = Idle \/ SameCall(w)
  BY <1>1, <1>2, CallsAreCalls DEF SameCall
<1>3. ASSUME NEW x \in Writers, NEW new, Begun(x, new)
      PROVE  upsert'[w].loaded \subseteq DOMAIN upsert'[w].file
  <2>1. CASE w # x
    BY <1>2, <1>3, <2>1 DEF Begun
  <2>2. CASE w = x
    <3>1. DOMAIN Merged(new) = DOMAIN new \cup DOMAIN csv
      BY MergedFacts
    <3>2. \/ upsert'[w] = Idle
          \/ upsert'[w].loaded = DOMAIN csv /\ upsert'[w].file = Merged(new)
      BY <1>3, <2>2 DEF Begun
    <3> QED
      BY <1>2, <3>1, <3>2
  <2> QED
    BY <2>1, <2>2
<1>4. CASE HandleMessage
  BY <1>3, <1>4, HandleMessageFacts DEF Starting, Writers
<1>5. CASE Backfill
  BY <1>2, <1>3, <1>5, BackfillFacts DEF Starting, Writers
<1>6. CASE RunIngestion
  BY <1>2, <1>3, <1>6, IngestionFacts DEF Writers
<1>7. ASSUME NEW x \in Writers, SaveMeta(x) \/ WriteFails(x) \/ Finish(x)
      PROVE  upsert'[w].loaded \subseteq DOMAIN upsert'[w].file
  BY <1>1, <1>2, <1>7, EndFacts DEF Ended, Others
<1>8. CASE Crash
  BY <1>7, <1>8 DEF Crash, Writers
<1>9. ASSUME NEW x \in Writers, Open(x) \/ Replace(x)
      PROVE  upsert'[w].loaded \subseteq DOMAIN upsert'[w].file
  BY <1>1, <1>9, OpenFacts, ReplaceFacts DEF Opened, PutInPlace, Others, SameCall
<1>10. CASE \/ HourCloses \/ Amend \/ Start \/ Feed \/ CallbackRaises \/ ConnectionLost
            \/ Dial \/ Disconnect \/ UNCHANGED vars
  BY <1>2, <1>10 DEF HourCloses, Amend, Start, Feed, CallbackRaises, ConnectionLost, Dial,
                     Disconnect, vars
<1> QED
  BY <1>4, <1>5, <1>6, <1>7, <1>8, <1>9, <1>10 DEF Next

\* What is handed on was stored before, after every step.
LEMMA HandedOnStep ==
    ASSUME Typed, HandlersInPhase, FilesAreGenuine, HandedOnAfterStored, EngineAscends,
           [Next]_vars, ~holes'.mixed
    PROVE  HandedOnAfterStored'
<1>1. /\ UpsertTyped /\ "client" \in Writers /\ HoursOf(NoJob.feed) = {}
      /\ Waiting("client") => ~Behind("client")
      /\ upsert'["client"] = Idle => ~Waiting("client")'
  BY IdleCalls DEF Typed, Writers, NoJob, HoursOf
<1>2. \A h : Stored(h) => Stored(h)'
  BY KeepsStep DEF Keeps
<1>3. \A w \in Writers : upsert'[w].loaded \subseteq DOMAIN upsert'[w].file
  BY LoadedStep
<1>4. /\ Waiting("client")' =>
             DOMAIN upsert'["client"].file = upsert'["client"].loaded \cup HoursOf(job'.feed)
      /\ ~Waiting("client")' => \A h \in HoursOf(job'.feed) : Stored(h)'
  <2>1. CASE Rests
    BY <1>2, <2>1 DEF Rests, HandedOnAfterStored, SameCall
  <2>2. CASE Begins
    <3>1. PICK kind \in {"live", "backfill"} : \E hours \in SUBSET (1..now) :
              Starting(kind, hours)
      BY <2>2 DEF Begins
    <3>2. PICK hours \in SUBSET (1..now) : Starting(kind, hours)
      BY <3>1
    <3>3. HoursOf(job'.feed) = hours /\ DOMAIN Published(hours) = hours
      BY <3>2, StartingFacts DEF Starting
    <3>4. CASE upsert'["client"] = Idle /\ Merged(Published(hours)) = csv
      BY <1>1, <1>2, <3>3, <3>4, MergedFacts DEF Stored
    <3>5. CASE upsert'["client"] = [stage |-> "loaded", file |-> Merged(Published(hours)),
                                    loaded |-> DOMAIN csv, temp |-> {}]
      <4>1. DOMAIN Merged(Published(hours)) = hours \cup DOMAIN csv
        BY <3>3, MergedFacts
      <4>2. /\ Waiting("client")' /\ upsert'["client"].loaded = DOMAIN csv
            /\ upsert'["client"].file = Merged(Published(hours))
        BY <3>5 DEF Waiting
      <4> QED
        BY <3>3, <4>1, <4>2
    <3> QED
      BY <3>2, <3>4, <3>5 DEF Starting, Begun
  <2>3. CASE Ends
    BY <1>1, <1>2, <2>3 DEF Ends, HandedOnAfterStored
  <2>4. CASE Replace("client")
    <3>1. csv' = upsert["client"].file /\ job' = job /\ Waiting("client")
          /\ ~Waiting("client")'
      BY <1>1, <2>4, ReplaceFacts, CleanReplace DEF Replace, PutInPlace
    <3>2. HoursOf(job.feed) \subseteq DOMAIN csv'
      BY <3>1 DEF HandedOnAfterStored
    <3> QED
      BY <3>1, <3>2 DEF Stored
  <2> QED
    BY <2>1, <2>2, <2>3, <2>4, CallMove
<1>5. CanFeed => Stored(Head(job.feed).hour)
  <2> SUFFICES ASSUME CanFeed PROVE Stored(Head(job.feed).hour)
    OBVIOUS
  <2>1. Head(job.feed).hour \in HoursOf(job.feed) /\ upsert["client"].stage = "idle"
    BY FeedFacts
  <2>2. ~Waiting("client")
    BY <2>1 DEF Waiting
  <2> QED
    BY <2>1, <2>2 DEF HandedOnAfterStored
<1>6. \A h \in client'.processed : Stored(h)'
  BY <1>2, <1>5, PhaseStep DEF HandedOnAfterStored
<1>7. \A h \in HoursOf(engine'.candles) : Stored(h)'
  <2>1. \A h \in HoursOf(engine'.candles) : Stored(h)
    BY <1>5, EngineMove, SoundEngines DEF EngineMoves, HandedOnAfterStored, Stored
  <2> QED
    BY <1>2, <2>1
<1> QED
  BY <1>3, <1>4, <1>6, <1>7 DEF HandedOnAfterStored, HoursOf

-----------------------------------------------------------------------------
(* The metadata and the file.                                              *)

\* The metadata follows the file through every step.
LEMMA MetaFollowsStep ==
    ASSUME Typed, HandlersInPhase, FilesAreGenuine, MetaFollowsFile, [Next]_vars,
           ~holes'.mixed
    PROVE  MetaFollowsFile'
<1>1. /\ UpsertTyped /\ holes \in Costs /\ "client" \in Writers /\ "ingestion" \in Writers
      /\ \A w \in Writers :
             /\ upsert[w].stage = "idle" => ~Behind(w)
             /\ upsert'[w] = upsert[w] => SameCall(w)
             /\ upsert'[w] = Idle => ~Behind(w)'
  BY IdleCalls DEF Typed, HolesTyped, Writers
<1>2. ASSUME csv' = csv, meta' = meta, holes.torn => holes'.torn,
             \A w \in Writers : \/ SameCall(w) \/ holes'.torn
                                \/ ~Behind(w) /\ ~Behind(w)'
      PROVE  MetaFollowsFile'
  BY <1>2 DEF MetaFollowsFile, SameCall
<1>3. ASSUME NEW w \in Writers, NEW new, Begun(w, new), upsert[w].stage = "idle",
             csv' = csv, meta' = meta, holes.torn => holes'.torn
      PROVE  MetaFollowsFile'
  <2>1. ~Behind(w)' /\ \A x \in Writers : x # w => SameCall(x)
    BY <1>1, <1>3 DEF Begun, Behind
  <2> QED
    BY <1>1, <1>2, <1>3, <2>1
<1>a. ASSUME UNCHANGED <<csv, meta, upsert>>, holes'.torn = holes.torn
      PROVE  MetaFollowsFile'
  BY <1>1, <1>2, <1>a
<1>4. CASE HandleMessage
  <2>1. PICK hours \in SUBSET (1..now) : Starting("live", hours)
    BY <1>4, HandleMessageFacts
  <2>2. Begun("client", Published(hours)) /\ upsert["client"].stage = "idle"
    BY <2>1 DEF Starting, HandlersInPhase, NoJob
  <2>3. csv' = csv /\ meta' = meta /\ holes' = holes
    BY <1>4, HandleMessageFacts
  <2> QED
    BY <1>1, <1>3, <2>2, <2>3
<1>5. CASE Backfill
  <2>1. csv' = csv /\ meta' = meta /\ job = NoJob
    BY <1>5, BackfillFacts
  <2>2. holes'.torn = holes.torn
    BY <1>1, <1>5, BackfillFacts DEF Reaching, Costs
  <2>3. upsert["client"].stage = "idle"
    BY <2>1 DEF HandlersInPhase, NoJob
  <2>4. UNCHANGED upsert \/ \E hours \in SUBSET (1..now) : Begun("client", Published(hours))
    BY <1>5, BackfillFacts DEF Starting
  <2> QED
    BY <1>1, <1>a, <1>3, <2>1, <2>2, <2>3, <2>4
<1>6. CASE RunIngestion
  <2>1. csv' = csv /\ meta' = meta /\ upsert["ingestion"].stage = "idle"
    BY <1>6, IngestionFacts, CallsAreCalls
  <2>2. holes'.torn = holes.torn
    BY <1>1, <1>6, IngestionFacts DEF Costs
  <2>3. UNCHANGED upsert \/ \E hours \in SUBSET (1..now) : Begun("ingestion", Published(hours))
    BY <1>6, IngestionFacts
  <2> QED
    BY <1>1, <1>a, <1>3, <2>1, <2>2, <2>3
<1>7. CASE Amend
  <2>1. csv' = csv /\ meta' = meta /\ upsert' = upsert /\ holes'.torn = holes.torn
    BY <1>1, <1>7 DEF Amend, Costs
  <2> QED
    BY <1>a, <2>1
<1>8. CASE Feed \/ CallbackRaises
  <2>1. csv' = csv /\ meta' = meta /\ upsert' = upsert
    BY <1>8 DEF Feed, CallbackRaises
  <2>2. \E u : holes' = [holes EXCEPT !.unfed = u]
    BY <1>8 DEF Feed, CallbackRaises
  <2>3. holes'.torn = holes.torn
    BY <1>1, <2>2 DEF Costs
  <2> QED
    BY <1>a, <2>1, <2>3
<1>9. ASSUME NEW w \in Writers, Ended(w), csv' = csv, meta' = meta,
             holes'.torn = (holes.torn \/ Behind(w))
      PROVE  MetaFollowsFile'
  <2>1. ~Behind(w)' /\ \A x \in Writers : x # w => SameCall(x)
    BY <1>1, <1>9 DEF Ended, Others
  <2> QED
    BY <1>2, <1>9, <2>1
<1>10. CASE Crash
  <2>1. Ended("client") /\ csv' = csv /\ meta' = meta
        /\ holes'.torn = (holes.torn \/ Behind("client"))
    BY <1>1, <1>10, EndFacts DEF Crash, Costs
  <2> QED
    BY <1>1, <1>9, <2>1
<1>11. ASSUME NEW w \in Writers, WriteFails(w) PROVE MetaFollowsFile'
  <2>1. Ended(w) /\ csv' = csv /\ meta' = meta
    BY <1>1, <1>11, EndFacts DEF WriteFails
  <2>2. holes'.torn = (holes.torn \/ Behind(w))
    BY <1>1, <1>11 DEF WriteFails, Costs
  <2> QED
    BY <1>9, <2>1, <2>2
<1>12. ASSUME NEW w \in Writers, Replace(w) PROVE MetaFollowsFile'
  <2>1. /\ csv' = upsert[w].file /\ Behind(w)' /\ upsert'[w].file = upsert[w].file
        /\ \A x \in Writers : x # w => SameCall(x)
    BY <1>1, <1>12, ReplaceFacts, CleanReplace DEF PutInPlace, Others
  <2>2. holes'.torn = (holes.torn \/ upsert[Other(w)].stage # "idle")
    BY <1>1, <1>12 DEF Replace, Costs
  <2>3. Other(w) \in Writers /\ Other(w) # w /\ \A x \in Writers : x = w \/ x = Other(w)
    BY OtherFacts
  <2>4. ~holes'.torn => ~Behind(Other(w)) /\ SameCall(Other(w))
    BY <1>1, <2>1, <2>2, <2>3
  <2>5. ~holes'.torn => \A x \in Writers : x # w => ~Behind(x)'
    BY <2>3, <2>4 DEF SameCall
  <2> QED
    BY <1>12, <2>1, <2>5 DEF MetaFollowsFile
<1>13. ASSUME NEW w \in Writers, SaveMeta(w) PROVE MetaFollowsFile'
  <2>1. /\ Behind(w) /\ csv' = csv /\ ~Behind(w)'
        /\ \A x \in Writers : x # w => SameCall(x)
    BY <1>1, <1>13, EndFacts DEF SaveMeta, Ended, Others, Behind
  <2>2. holes'.torn = ((holes.torn /\ csv # upsert[w].file) \/ Behind(Other(w)) \/ Mixed(w))
    BY <1>1, <1>13 DEF SaveMeta, Costs
  <2>3. Other(w) \in Writers /\ Other(w) # w /\ \A x \in Writers : x = w \/ x = Other(w)
    BY OtherFacts
  <2>4. ~holes'.torn => csv = upsert[w].file /\ ~Behind(Other(w)) /\ SameCall(Other(w))
    BY <2>1, <2>2, <2>3 DEF MetaFollowsFile
  <2>5. ~holes'.torn => \A x \in Writers : ~Behind(x)'
    BY <2>1, <2>3, <2>4 DEF SameCall
  <2>6. ~holes'.torn => meta' = Describe(upsert[w].file)
    BY <1>13, <2>2 DEF SaveMeta, Mixed
  <2> QED
    BY <2>1, <2>4, <2>5, <2>6 DEF MetaFollowsFile
<1>14. CASE HourCloses \/ Start \/ ConnectionLost \/ Dial \/ Disconnect \/ UNCHANGED vars
  BY <1>a, <1>14 DEF HourCloses, Start, ConnectionLost, Dial, Disconnect, vars
<1>15. ASSUME NEW w \in Writers, Open(w) PROVE MetaFollowsFile'
  BY <1>1, <1>2, <1>15, OpenFacts DEF Opened
<1> QED
  BY <1>4, <1>5, <1>6, <1>7, <1>8, <1>10, <1>11, <1>12, <1>13, <1>14, <1>15 DEF Next

-----------------------------------------------------------------------------
(* What the engine has seen of the file.                                   *)

\* The rows of the file stay taken, passed over or pending.
LEMMA TakenStep ==
    ASSUME Typed, HandlersInPhase, FilesAreGenuine, HandedOnAfterStored, EngineAscends,
           RowsAreTaken, [Next]_vars, ~holes'.mixed
    PROVE  RowsAreTaken'
<1> DEFINE taken == HoursOf(engine.candles) \cup holes.unfed
           takenNext == HoursOf(engine'.candles) \cup holes'.unfed
           Goal == client'.phase # "off" =>
                     IF Waiting("client")'
                     THEN DOMAIN csv' \subseteq takenNext
                          /\ upsert'["client"].loaded \subseteq takenNext
                     ELSE DOMAIN csv' \subseteq takenNext \cup HoursOf(job'.feed)
<1> SUFFICES Goal
  BY DEF RowsAreTaken, HoursOf
<1>1. /\ UpsertTyped /\ holes \in Costs /\ "client" \in Writers /\ "ingestion" \in Writers
      /\ HoursOf(NoJob.feed) = {} /\ NoJob.kind = "none"
      /\ job \in Jobs
      /\ upsert["client"].stage = "idle" => ~Waiting("client") /\ ~Behind("client")
      /\ Waiting("client") => ~Behind("client")
      /\ upsert["client"].stage = "idle" \/ Waiting("client") \/ Behind("client")
      /\ upsert'["client"] = Idle => ~Waiting("client")'
      /\ upsert'["client"] = upsert["client"] => SameCall("client")
  BY IdleCalls DEF Typed, HolesTyped, Writers, NoJob, HoursOf
<1>2. client.phase # "off" =>
          IF Waiting("client")
          THEN DOMAIN csv \subseteq taken /\ upsert["client"].loaded \subseteq taken
          ELSE DOMAIN csv \subseteq taken \cup HoursOf(job.feed)
  BY DEF RowsAreTaken
<1>3. ASSUME client'.phase # "off" => client.phase # "off",
             UNCHANGED <<csv, job, engine>>, SameCall("client"),
             holes'.unfed = holes.unfed
      PROVE  Goal
  BY <1>2, <1>3 DEF SameCall
<1>4. CASE HourCloses \/ Amend \/ UNCHANGED vars
  <2>1. UNCHANGED <<csv, job, engine, client>> /\ SameCall("client") /\ holes'.unfed = holes.unfed
    BY <1>1, <1>4 DEF HourCloses, Amend, vars, Costs
  <2> QED
    BY <1>3, <2>1
<1>5. CASE ConnectionLost \/ Dial \/ Disconnect
  <2>1. UNCHANGED <<csv, job, engine, holes>> /\ SameCall("client") /\ client.phase # "off"
    BY <1>1, <1>5 DEF ConnectionLost, Dial, Disconnect
  <2> QED
    BY <1>3, <2>1
<1>6. CASE RunIngestion
  <2>1. UNCHANGED <<csv, job, engine, client>> /\ holes'.unfed = holes.unfed
        /\ SameCall("client")
    BY <1>1, <1>6, IngestionFacts DEF Costs, Begun, Writers
  <2> QED
    BY <1>3, <2>1
<1>7. CASE Start
  <2>1. /\ client.phase = "off" /\ UNCHANGED <<csv, upsert, job, holes>>
        /\ engine' = Initialize(Rows(csv))
    BY <1>7 DEF Start
  <2>2. job = NoJob /\ upsert["client"].stage = "idle"
    BY <1>1, <2>1 DEF HandlersInPhase, Jobs
  <2>3. HoursOf(engine'.candles) = DOMAIN csv
    BY <2>1, SoundEngines
  <2> QED
    BY <1>1, <2>1, <2>2, <2>3 DEF Waiting
<1>8. ASSUME NEW kind, NEW hours, Starting(kind, hours), client.phase # "off",
             UNCHANGED <<csv, engine>>, holes'.unfed = holes.unfed
      PROVE  Goal
  <2>1. job = NoJob /\ upsert["client"].stage = "idle"
    BY <1>1, <1>8 DEF Starting, HandlersInPhase
  <2>2. DOMAIN csv \subseteq taken
    BY <1>1, <1>2, <1>8, <2>1
  <2>3. Waiting("client")' => upsert'["client"].loaded = DOMAIN csv
    BY <1>1, <1>8 DEF Starting, Begun
  <2> QED
    BY <1>8, <2>2, <2>3
<1>9. CASE HandleMessage
  BY <1>8, <1>9, HandleMessageFacts
<1>10. CASE Backfill
  <2>1. /\ UNCHANGED <<csv, engine>> /\ client.phase = "waiting"
        /\ UNCHANGED <<upsert, job>> \/ \E hours \in SUBSET (1..now) : Starting("backfill", hours)
    BY <1>10, BackfillFacts
  <2>2. holes'.unfed = holes.unfed
    BY <1>1, <1>10, BackfillFacts DEF Reaching, Costs
  <2> QED
    BY <1>1, <1>3, <1>8, <2>1, <2>2
<1>11. CASE Feed
  <2> DEFINE h == Head(job.feed).hour
             seen == ProcessNew(engine, Head(job.feed))
             u == IF seen = engine THEN holes.unfed \cup {h} ELSE holes.unfed \ {h}
  <2>1. /\ CanFeed /\ UNCHANGED <<csv, upsert>> /\ engine' = seen
        /\ holes' = [holes EXCEPT !.unfed = u]
        /\ job' = IF Tail(job.feed) = <<>> THEN NoJob ELSE [job EXCEPT !.feed = Tail(job.feed)]
    BY <1>11 DEF Feed
  <2>2. /\ upsert["client"].stage = "idle" /\ job.kind \in {"live", "backfill"}
        /\ HoursOf(job.feed) = HoursOf(Tail(job.feed)) \cup {h}
    BY <2>1, FeedFacts
  <2>3. \/ seen = engine
        \/ seen # engine /\ HoursOf(seen.candles) = HoursOf(engine.candles) \cup {h}
    BY <2>1, SoundEngines
  <2>4. HoursOf(job'.feed) = HoursOf(Tail(job.feed))
    BY <1>1, <2>1 DEF Jobs, NoJob
  <2>5. holes'.unfed = u
    BY <1>1, <2>1 DEF Costs
  <2> HIDE DEF seen, h
  <2>6. taken \cup {h} \subseteq takenNext
    BY <2>1, <2>3, <2>5
  <2>7. client.phase # "off"
    BY <2>2 DEF HandlersInPhase
  <2> QED
    BY <1>1, <1>2, <2>1, <2>2, <2>4, <2>6, <2>7 DEF Waiting
<1>12. CASE CallbackRaises
  <2>1. /\ CanFeed /\ UNCHANGED <<csv, upsert, engine>> /\ job' = NoJob
        /\ holes' = [holes EXCEPT !.unfed = @ \cup HoursOf(job.feed)]
    BY <1>12 DEF CallbackRaises
  <2>2. /\ upsert["client"].stage = "idle" /\ client.phase # "off"
    BY <2>1, FeedFacts DEF HandlersInPhase
  <2>3. holes'.unfed = holes.unfed \cup HoursOf(job.feed)
    BY <1>1, <2>1 DEF Costs
  <2> QED
    BY <1>1, <1>2, <2>1, <2>2, <2>3 DEF Waiting
<1>13. CASE Crash
  BY <1>13, MarkedFacts DEF Crash
<1>14. ASSUME NEW w \in Writers, Replace(w) PROVE Goal
  <2>1. /\ csv' = upsert[w].file /\ UNCHANGED <<client, job, engine>>
        /\ Waiting(w) /\ ~Waiting(w)'
        /\ \A x \in Writers : x # w => SameCall(x)
    BY <1>1, <1>14, ReplaceFacts, CleanReplace DEF Replace, PutInPlace, Others
  <2>2. holes'.unfed = IF w = "ingestion" THEN holes.unfed \cup (DOMAIN csv' \ DOMAIN csv)
                       ELSE holes.unfed
    BY <1>1, <1>14 DEF Replace, Costs
  <2>3. CASE w = "client"
    <3>1. DOMAIN csv' = upsert["client"].loaded \cup HoursOf(job.feed)
      BY <2>1, <2>3 DEF HandedOnAfterStored
    <3> QED
      BY <1>2, <2>1, <2>2, <2>3, <3>1
  <2>4. CASE w = "ingestion"
    <3>1. SameCall("client")
      BY <1>1, <2>1, <2>4
    <3>2. DOMAIN csv' \subseteq DOMAIN csv \cup holes'.unfed /\ taken \subseteq takenNext
      BY <2>1, <2>2, <2>4
    <3> QED
      BY <1>2, <2>1, <3>1, <3>2 DEF SameCall
  <2> QED
    BY <2>3, <2>4 DEF Writers
<1>15. ASSUME NEW w \in Writers, SaveMeta(w) PROVE Goal
  <2>1. /\ UNCHANGED <<csv, client, job, engine>> /\ Behind(w)
        /\ upsert'[w] = Idle /\ \A x \in Writers : x # w => SameCall(x)
    BY <1>1, <1>15, EndFacts DEF SaveMeta, Ended, Others, Behind
  <2>2. holes'.unfed = holes.unfed
    BY <1>1, <1>15 DEF SaveMeta, Costs
  <2>3. Waiting("client")' <=> Waiting("client")
    BY <1>1, <2>1 DEF SameCall
  <2>4. Waiting("client")' => upsert'["client"].loaded = upsert["client"].loaded
    BY <1>1, <2>1 DEF SameCall
  <2> QED
    BY <1>2, <2>1, <2>2, <2>3, <2>4
<1>16. ASSUME NEW w \in Writers, WriteFails(w) PROVE Goal
  <2>1. /\ UNCHANGED <<csv, engine>> /\ upsert[w].stage # "idle"
        /\ upsert'[w] = Idle /\ \A x \in Writers : x # w => SameCall(x)
        /\ IF w = "client" THEN job' = NoJob ELSE UNCHANGED <<client, job>>
    BY <1>1, <1>16, EndFacts DEF WriteFails, Ended, Others
  <2>2. holes'.unfed = IF w = "client" /\ Behind(w)
                       THEN holes.unfed \cup HoursOf(job.feed) ELSE holes.unfed
    BY <1>1, <1>16 DEF WriteFails, Costs
  <2>3. CASE w # "client"
    <3>1. SameCall("client")
      BY <1>1, <2>1, <2>3
    <3> QED
      BY <1>3, <2>1, <2>2, <2>3, <3>1
  <2>4. CASE w = "client"
    <3>1. client.phase # "off"
      BY <1>1, <2>1, <2>4 DEF HandlersInPhase, Jobs
    <3>2. Waiting("client") \/ Behind("client")
      BY <1>1, <2>1, <2>4
    <3>3. DOMAIN csv \subseteq takenNext
      BY <1>1, <1>2, <2>1, <2>2, <2>4, <3>1, <3>2
    <3> QED
      BY <1>1, <2>1, <2>4, <3>3
  <2> QED
    BY <2>3, <2>4
<1>17. ASSUME NEW w \in Writers, Open(w) PROVE Goal
  <2>1. UNCHANGED <<csv, client, job, engine, holes>> /\ SameCall("client")
    BY <1>1, <1>17, OpenFacts DEF Opened
  <2> QED
    BY <1>3, <2>1
<1> HIDE DEF Goal
<1> QED
  BY <1>4, <1>5, <1>6, <1>7, <1>9, <1>10, <1>11, <1>12, <1>13, <1>14, <1>15, <1>16, <1>17
     DEF Next

-----------------------------------------------------------------------------
(* The hours of the file.                                                  *)

\* What was stored has closed; what was marked was stored.
LEMMA StoredFacts ==
    ASSUME Typed, HandlersInPhase, FilesAreGenuine, HandedOnAfterStored, HoursAreAccounted
    PROVE  /\ now \in Nat
           /\ \A h : Stored(h) => h \in 1..now /\ \A k \in 1..h : k \in 1..now /\ Accounted(k)
           /\ client.last # 0 => Stored(client.last)
<1>1. now \in Nat
  BY DEF Typed, TapeTyped
<1>2. ASSUME NEW h, Stored(h) PROVE h \in 1..now /\ \A k \in 1..h : k \in 1..now /\ Accounted(k)
  <2>1. h \in 1..now
    BY <1>2 DEF Stored, FilesAreGenuine, FileIsGenuine, Genuine, Typed, HolesTyped
  <2> QED
    BY <1>1, <1>2, <2>1 DEF HoursAreAccounted
<1>3. client.last # 0 => Stored(client.last)
  BY DEF HandlersInPhase, HandedOnAfterStored
<1> QED
  BY <1>1, <1>2, <1>3

\* Only a file that is put in place stores an hour.
LEMMA OnlyReplaceStores ==
    ASSUME Typed, HandlersInPhase, FilesAreGenuine, [Next]_vars
    PROVE  \/ \A h : Stored(h)' => Stored(h)
           \/ \E w \in Writers : Replace(w)
<1>1. holes \in Costs
  BY DEF Typed, HolesTyped
<1>2. ASSUME csv' = csv, holes'.lost = holes.lost PROVE \A h : Stored(h)' => Stored(h)
  BY <1>2 DEF Stored
<1>3. CASE HandleMessage
  BY <1>2, <1>3, HandleMessageFacts
<1>4. CASE Backfill
  <2>1. csv' = csv /\ holes'.lost = holes.lost
    BY <1>1, <1>4, BackfillFacts DEF Reaching, Costs
  <2> QED
    BY <1>2, <2>1
<1>5. CASE RunIngestion
  <2>1. csv' = csv /\ holes'.lost = holes.lost
    BY <1>1, <1>5, IngestionFacts DEF Costs
  <2> QED
    BY <1>2, <2>1
<1>6. CASE Feed \/ CallbackRaises
  <2>1. csv' = csv /\ \E u : holes' = [holes EXCEPT !.unfed = u]
    BY <1>6 DEF Feed, CallbackRaises
  <2>2. holes'.lost = holes.lost
    BY <1>1, <2>1 DEF Costs
  <2> QED
    BY <1>2, <2>1, <2>2
<1>7. CASE Amend \/ Crash
  <2>1. csv' = csv /\ holes'.lost = holes.lost
    BY <1>1, <1>7 DEF Amend, Crash, Costs
  <2> QED
    BY <1>2, <2>1
<1>8. ASSUME NEW w \in Writers, Open(w) \/ SaveMeta(w) \/ WriteFails(w)
      PROVE  \A h : Stored(h)' => Stored(h)
  <2>1. csv' = csv /\ holes'.lost = holes.lost
    BY <1>1, <1>8 DEF Open, SaveMeta, WriteFails, Costs
  <2> QED
    BY <1>2, <2>1
<1>9. CASE HourCloses \/ Start \/ ConnectionLost \/ Dial \/ Disconnect \/ UNCHANGED vars
  BY <1>2, <1>9 DEF HourCloses, Start, ConnectionLost, Dial, Disconnect, vars
<1> QED
  BY <1>3, <1>4, <1>5, <1>6, <1>7, <1>8, <1>9 DEF Next

\* A live candle skips only hours beyond the backfills' reach, and those are named.
LEMMA LiveSkipsNamedHours ==
    ASSUME Typed, HandlersInPhase, FilesAreGenuine, HandedOnAfterStored, HoursAreAccounted,
           [Next]_vars, ~holes'.mixed, Replace("client"), job.kind = "live",
           NEW h \in DOMAIN upsert["client"].file, NEW k \in 1..h
    PROVE  Accounted(k)'
<1> DEFINE a == MaxHour(DOMAIN csv)
           b == MaxHour(DOMAIN upsert["client"].file)
<1>1. /\ now \in Nat /\ DOMAIN csv \in SUBSET (1..now)
      /\ DOMAIN upsert["client"].file \in SUBSET (1..now) /\ holes \in Costs
  BY DEF Typed, TapeTyped, HolesTyped, FilesAreGenuine, FileIsGenuine, Genuine, Writers
<1>2. /\ a \in 0..now /\ (DOMAIN csv = {} => a = 0) /\ (DOMAIN csv # {} => a \in DOMAIN csv)
      /\ b \in DOMAIN upsert["client"].file /\ h <= b
  BY <1>1, MaxHourFacts
<1>3. b \in 1..now /\ h \in 1..now
  BY <1>1, <1>2
<1> HIDE DEF a, b
<1>4. k \in 1..now /\ k <= b
  BY <1>1, <1>2, <1>3
<1>5. Keeps
  BY KeepsStep
<1>6. csv' = upsert["client"].file
  BY CleanReplace DEF Writers
<1>7. CASE k <= a
  <2>1. DOMAIN csv # {} /\ a \in DOMAIN csv
    <3>1. k \in Int /\ 1 <= k
      BY <1>1, <1>4
    <3>2. a # 0
      BY <1>7, <3>1
    <3> QED
      BY <1>2, <3>2
  <2>2. Stored(a) /\ k \in 1..a
    BY <1>2, <1>4, <1>7, <2>1 DEF Stored
  <2>3. Accounted(k)
    BY <2>2, StoredFacts
  <2> QED
    BY <1>4, <1>5, <2>3 DEF Keeps
<1>8. CASE k = b
  <2>1. k \in DOMAIN csv'
    BY <1>2, <1>6, <1>8
  <2> QED
    BY <2>1 DEF Accounted, Stored
<1>9. CASE a < k /\ k < b /\ k <= holes.covered
  <2>1. holes.covered \in Nat
    BY <1>1 DEF Costs
  <2>2. k \in 1..holes.covered
    BY <1>4, <1>9, <2>1
  <2>3. Accounted(k)
    BY <2>2 DEF HoursAreAccounted
  <2> QED
    BY <1>4, <1>5, <2>3 DEF Keeps
<1>10. CASE a < k /\ k < b /\ ~(k <= holes.covered)
  <2>1. holes.covered \in Nat
    BY <1>1 DEF Costs
  <2>2. k \in (a + 1)..(b - 1) /\ k > holes.covered
    BY <1>2, <1>3, <1>4, <1>10, <2>1
  <2>3. k \in Jumped
    BY <2>2 DEF Jumped, a, b
  <2>4. holes'.jumped = holes.jumped \cup Jumped
    BY <1>1 DEF Replace, Costs
  <2> QED
    BY <2>3, <2>4 DEF Accounted
<1> QED
  BY <1>2, <1>3, <1>4, <1>7, <1>8, <1>9, <1>10

\* An hour before one that was stored is accounted for, after every step.
LEMMA StoredStep ==
    ASSUME Typed, HandlersInPhase, FilesAreGenuine, HandedOnAfterStored, HoursAreAccounted,
           [Next]_vars, ~holes'.mixed, NEW h, Stored(h)', NEW k \in 1..h
    PROVE  Accounted(k)'
<1>1. Keeps
  BY KeepsStep
<1>2. CASE Stored(h)
  BY <1>1, <1>2, StoredFacts DEF Keeps
<1>3. ASSUME NEW w \in Writers, Replace(w), ~Stored(h) PROVE Accounted(k)'
  <2>1. csv' = upsert[w].file /\ Waiting(w) /\ upsert[w].stage # "idle" /\ holes \in Costs
    BY <1>3, CleanReplace, ReplaceFacts DEF PutInPlace, Typed, HolesTyped
  <2>2. h \in DOMAIN upsert[w].file
    <3> DEFINE n == DOMAIN csv \ (upsert[w].loaded \cup DOMAIN csv')
    <3>1. holes'.lost = holes.lost \cup n
      BY <1>3, <2>1 DEF Replace, Costs
    <3>2. h \in DOMAIN csv' \/ h \in holes'.lost
      BY DEF Stored
    <3> QED
      BY <1>3, <2>1, <3>1, <3>2 DEF Stored
  <2>3. h \in 1..now /\ k \in 1..now
    <3>1. h \in 1..now /\ now \in Nat
      <4>1. FileIsGenuine(upsert[w].file)
        BY DEF FilesAreGenuine
      <4> QED
        BY <2>2, <4>1, StoredFacts DEF FileIsGenuine, Genuine
    <3> QED
      BY <3>1
  <2>4. CASE w = "ingestion" \/ job.kind = "backfill"
    <3>1. k \in DOMAIN upsert[w].file \/ Accounted(k)
      BY <2>1, <2>2, <2>4 DEF HoursAreAccounted
    <3>2. CASE k \in DOMAIN upsert[w].file
      <4>1. k \in DOMAIN csv'
        BY <2>1, <3>2
      <4> QED
        BY <4>1 DEF Accounted, Stored
    <3>3. CASE Accounted(k)
      BY <1>1, <2>3, <3>3 DEF Keeps
    <3> QED
      BY <3>1, <3>2, <3>3
  <2>5. CASE w = "client" /\ job.kind # "backfill"
    <3>1. job.kind = "live"
      BY <2>1, <2>5 DEF HandlersInPhase, Typed, Jobs
    <3> QED
      BY <1>3, <2>2, <2>5, <3>1, LiveSkipsNamedHours
  <2> QED
    BY <2>4, <2>5 DEF Writers
<1> QED
  BY <1>2, <1>3, OnlyReplaceStores

\* A backfill accounts for every closed hour it does not bring.
LEMMA BackfillReaches ==
    ASSUME Typed, HandlersInPhase, FilesAreGenuine, HandedOnAfterStored, HoursAreAccounted,
           [Next]_vars, ~holes'.mixed,
           NEW from \in Nat, NEW pages \in Pages(from), NEW hours,
           0 < from, Reaching(from, pages, hours), client.last # 0,
           NEW k \in 1..now
    PROVE  k \in hours \/ Accounted(k)'
<1>1. Keeps /\ now \in Nat /\ client.last \in Nat /\ holes \in Costs
  BY KeepsStep, StoredFacts DEF Typed, Clients, HolesTyped
<1>2. \/ k < from \/ ~tape[k].inYear
      \/ k \in FetchedFrom(from, pages) \cup CutOff(from, pages)
  BY <1>1, FetchFacts
<1>3. ASSUME Accounted(k) PROVE Accounted(k)'
  BY <1>1, <1>3 DEF Keeps
<1>4. CASE k < from
  <2>1. k \in 1..client.last
    BY <1>1, <1>4 DEF Reaching
  <2>2. Accounted(k)
    BY <2>1, StoredFacts
  <2> QED
    BY <1>3, <2>2
<1>5. CASE ~tape[k].inYear
  BY <1>3, <1>5 DEF Accounted
<1>6. CASE k \in CutOff(from, pages)
  <2> DEFINE c == IF client.last = 0 THEN {} ELSE CutOff(from, pages)
             n == IF client.last # 0 /\ Readable(hours) THEN now ELSE 0
  <2>1. holes' = [holes EXCEPT !.cut = @ \cup c, !.covered = n]
    BY DEF Reaching
  <2>2. k \in c
    BY <1>6
  <2> HIDE DEF c, n
  <2>3. k \in holes'.cut
    BY <1>1, <2>1, <2>2 DEF Costs
  <2> QED
    BY <2>3 DEF Accounted
<1>7. CASE k \in FetchedFrom(from, pages)
  <2>1. k \in hours \/ k \in client.processed
    BY <1>7 DEF Reaching
  <2>2. k \in client.processed => Accounted(k)
    BY DEF HandedOnAfterStored, Accounted
  <2> QED
    BY <1>3, <2>1, <2>2
<1> QED
  BY <1>2, <1>4, <1>5, <1>6, <1>7

\* The file of a call in progress, or what a backfill brings, leaves no hour out.
Leaves(w) ==
    \A h \in DOMAIN upsert[w].file : \A k \in 1..h :
        k \in DOMAIN upsert[w].file \/ Accounted(k)

\* A call of the ingestion or of a backfill accounts for what it does not bring.
LEMMA PendingStep ==
    ASSUME Typed, HandlersInPhase, FilesAreGenuine, HandedOnAfterStored, HoursAreAccounted,
           [Next]_vars, ~holes'.mixed, NEW w \in Writers, Waiting(w)',
           w = "ingestion" \/ job'.kind = "backfill"
    PROVE  Leaves(w)'
<1>1. /\ Keeps /\ UpsertTyped /\ now \in Nat /\ holes \in Costs /\ job \in Jobs
      /\ "client" \in Writers /\ "ingestion" \in Writers
      /\ upsert'[w] # Idle
      /\ upsert["client"].stage = "idle" => ~Waiting("client")
      /\ upsert'[w] = upsert[w] => SameCall(w)
  BY KeepsStep, StoredFacts, IdleCalls DEF Typed, HolesTyped, Writers
<1>2. ASSUME SameCall(w), w = "ingestion" \/ job.kind = "backfill"
      PROVE  Leaves(w)'
  <2>1. ASSUME NEW h \in DOMAIN upsert[w].file, NEW k \in 1..h
        PROVE  k \in DOMAIN upsert[w].file \/ Accounted(k)'
    <3>1. FileIsGenuine(upsert[w].file)
      BY DEF FilesAreGenuine
    <3>2. h \in 1..now
      BY <3>1 DEF FileIsGenuine, Genuine
    <3>3. k \in 1..now
      BY <1>1, <3>2
    <3>4. k \in DOMAIN upsert[w].file \/ Accounted(k)
      BY <1>2 DEF HoursAreAccounted, SameCall
    <3> QED
      BY <1>1, <3>3, <3>4 DEF Keeps
  <2> QED
    BY <1>2, <2>1 DEF Leaves, SameCall
<1>3. ASSUME NEW hours \in SUBSET (1..now), DOMAIN Published(hours) = hours,
             Begun(w, Published(hours)),
             \A k \in 1..now : k \in hours \/ Accounted(k)'
      PROVE  Leaves(w)'
  <2>1. DOMAIN Merged(Published(hours)) = hours \cup DOMAIN csv
    BY <1>3, MergedFacts
  <2>2. DOMAIN upsert'[w].file = hours \cup DOMAIN csv
    BY <1>1, <1>3, <2>1 DEF Begun
  <2>3. ASSUME NEW h \in hours \cup DOMAIN csv, NEW k \in 1..h
        PROVE  k \in hours \cup DOMAIN csv \/ Accounted(k)'
    <3>1. h \in 1..now
      BY DEF FilesAreGenuine, FileIsGenuine, Genuine
    <3>2. k \in 1..now /\ k <= h
      BY <1>1, <3>1
    <3> QED
      BY <1>3, <3>2
  <2> QED
    BY <2>2, <2>3 DEF Leaves
<1>4. CASE HandleMessage
  <2>1. PICK hours \in SUBSET (1..now) : Starting("live", hours)
    BY <1>4, HandleMessageFacts
  <2>2. job'.kind = "live"
    BY <2>1, StartingFacts
  <2>3. w = "ingestion" /\ upsert'[w] = upsert[w]
    BY <2>1, <2>2 DEF Starting, Begun, Writers
  <2> QED
    BY <1>1, <1>2, <2>3
<1>5. CASE Backfill
  <2>1. CASE w = "ingestion"
    <3>1. upsert'[w] = upsert[w]
      BY <1>1, <1>5, <2>1, BackfillFacts DEF Starting, Begun
    <3> QED
      BY <1>1, <1>2, <2>1, <3>1
  <2>2. CASE w = "client"
    <3>0. job = NoJob /\ job.kind = "none"
      BY <1>5, BackfillFacts DEF NoJob
    <3>a. PICK from \in Nat : \E pages \in Pages(from) : \E hours \in SUBSET (1..now) :
              /\ 0 < from /\ Reaching(from, pages, hours)
              /\ (client.last # 0 /\ Starting("backfill", hours)) \/ UNCHANGED <<upsert, job>>
      BY <1>5, BackfillFacts
    <3>b. PICK pages \in Pages(from) : \E hours \in SUBSET (1..now) :
              /\ 0 < from /\ Reaching(from, pages, hours)
              /\ (client.last # 0 /\ Starting("backfill", hours)) \/ UNCHANGED <<upsert, job>>
      BY <3>a
    <3>1. PICK hours \in SUBSET (1..now) :
              /\ 0 < from /\ Reaching(from, pages, hours)
              /\ (client.last # 0 /\ Starting("backfill", hours)) \/ UNCHANGED <<upsert, job>>
      BY <3>b
    <3>2. client.last # 0 /\ Starting("backfill", hours)
      BY <2>2, <3>0, <3>1 DEF Starting
    <3>3. \A k \in 1..now : k \in hours \/ Accounted(k)'
      BY <3>1, <3>2, BackfillReaches
    <3> QED
      BY <1>3, <2>2, <3>2, <3>3 DEF Starting
  <2> QED
    BY <2>1, <2>2 DEF Writers
<1>6. CASE RunIngestion
  <2> DEFINE from == MaxHour(DOMAIN csv) + 1
  <2>1. PICK pages \in Pages(from) : \E hours \in SUBSET (1..now) :
            /\ hours = FetchedFrom(from, pages)
            /\ holes' = [holes EXCEPT !.cut = @ \cup CutOff(from, pages)]
            /\ \/ UNCHANGED upsert
               \/ DOMAIN Published(hours) = hours /\ Begun("ingestion", Published(hours))
    BY <1>6, IngestionFacts
  <2>2. PICK hours \in SUBSET (1..now) :
            /\ hours = FetchedFrom(from, pages)
            /\ holes' = [holes EXCEPT !.cut = @ \cup CutOff(from, pages)]
            /\ \/ UNCHANGED upsert
               \/ DOMAIN Published(hours) = hours /\ Begun("ingestion", Published(hours))
    BY <2>1
  <2>3. /\ upsert["ingestion"] = Idle /\ UNCHANGED <<csv, job>>
        /\ upsert'["client"] = upsert["client"]
    BY <1>1, <1>6, <2>2, IngestionFacts DEF Begun
  <2>4. CASE w = "client"
    BY <1>1, <1>2, <2>3, <2>4
  <2>5. CASE w = "ingestion"
    <3>1. DOMAIN Published(hours) = hours /\ Begun("ingestion", Published(hours))
      BY <1>1, <2>2, <2>3, <2>5, CallsAreCalls
    <3>2. DOMAIN csv \in SUBSET (1..now)
      BY DEF FilesAreGenuine, FileIsGenuine, Genuine
    <3>3. /\ MaxHour(DOMAIN csv) \in 0..now
          /\ DOMAIN csv = {} => MaxHour(DOMAIN csv) = 0
          /\ DOMAIN csv # {} => MaxHour(DOMAIN csv) \in DOMAIN csv
      BY <1>1, <3>2, MaxHourFacts
    <3>4. from \in Nat /\ 0 < from
      BY <1>1, <3>3
    <3>5. holes'.cut = holes.cut \cup CutOff(from, pages)
      BY <1>1, <2>2 DEF Costs
    <3>6. ASSUME NEW k \in 1..now PROVE k \in hours \/ Accounted(k)'
      <4>1. \/ k < from \/ ~tape[k].inYear
            \/ k \in FetchedFrom(from, pages) \cup CutOff(from, pages)
        BY <1>1, <3>4, FetchFacts
      <4>2. CASE k < from
        <5>1. k \in Int /\ 1 <= k /\ k <= MaxHour(DOMAIN csv)
          BY <1>1, <3>3, <4>2
        <5>2. DOMAIN csv # {}
          <6>1. MaxHour(DOMAIN csv) # 0
            BY <5>1
          <6> QED
            BY <3>3, <6>1
        <5>3. Stored(MaxHour(DOMAIN csv)) /\ k \in 1..MaxHour(DOMAIN csv)
          BY <1>1, <3>3, <5>1, <5>2 DEF Stored
        <5>4. Accounted(k)
          BY <5>3, StoredFacts
        <5> QED
          BY <1>1, <5>4 DEF Keeps
      <4>3. CASE ~tape[k].inYear
        BY <1>1, <4>3 DEF Keeps, Accounted
      <4>4. CASE k \in CutOff(from, pages)
        BY <3>5, <4>4 DEF Accounted
      <4> QED
        BY <2>2, <4>1, <4>2, <4>3, <4>4
    <3> QED
      BY <1>3, <2>5, <3>1, <3>6
  <2> QED
    BY <2>4, <2>5 DEF Writers
<1>7. CASE Feed \/ CallbackRaises
  <2>1. CanFeed /\ UNCHANGED upsert
    BY <1>7 DEF Feed, CallbackRaises
  <2>2. upsert["client"].stage = "idle"
    BY <2>1 DEF CanFeed
  <2>3. w = "ingestion"
    BY <1>1, <2>1, <2>2 DEF Writers, Waiting
  <2> QED
    BY <1>1, <1>2, <2>1, <2>3
<1>8. ASSUME NEW x \in Writers, SaveMeta(x) \/ WriteFails(x) PROVE Leaves(w)'
  <2>1. upsert'[x] = Idle /\ \A y \in Writers : y # x => SameCall(y)
    BY <1>1, <1>8, EndFacts DEF Ended, Others
  <2>2. w # x /\ SameCall(w)
    BY <1>1, <2>1
  <2>3. job' = job \/ job' = NoJob
    BY <1>8 DEF SaveMeta, WriteFails
  <2>4. w = "ingestion" \/ job.kind = "backfill"
    BY <2>3 DEF NoJob
  <2> QED
    BY <1>2, <2>2, <2>4
<1>9. CASE Crash
  <2>1. upsert'["client"] = Idle /\ \A y \in Writers : y # "client" => SameCall(y)
    BY <1>1, <1>9, EndFacts DEF Crash, Ended, Others
  <2>2. w = "ingestion" /\ SameCall(w)
    BY <1>1, <2>1 DEF Writers
  <2> QED
    BY <1>2, <2>2
<1>10. ASSUME NEW x \in Writers, Open(x) \/ Replace(x) PROVE Leaves(w)'
  <2>1. job' = job
    BY <1>1, <1>10, OpenFacts DEF Replace
  <2>2. SameCall(w)
    <3>1. CASE Open(x)
      BY <1>1, <3>1, OpenFacts DEF Opened
    <3>2. CASE Replace(x)
      BY <1>1, <3>2, ReplaceFacts DEF PutInPlace, Others
    <3> QED
      BY <1>10, <3>1, <3>2
  <2> QED
    BY <1>2, <2>1, <2>2
<1>11. CASE \/ HourCloses \/ Amend \/ Start \/ ConnectionLost \/ Dial \/ Disconnect
            \/ UNCHANGED vars
  <2>1. UNCHANGED <<upsert, job>>
    BY <1>11 DEF HourCloses, Amend, Start, ConnectionLost, Dial, Disconnect, vars
  <2> QED
    BY <1>1, <1>2, <2>1
<1> QED
  BY <1>4, <1>5, <1>6, <1>7, <1>8, <1>9, <1>10, <1>11 DEF Next

\* An hour the backfills cover is accounted for, or in the file that will be.
LEMMA CoveredStep ==
    ASSUME Typed, HandlersInPhase, FilesAreGenuine, HandedOnAfterStored, HoursAreAccounted,
           [Next]_vars, ~holes'.mixed, legible.csv, NEW k \in 1..holes'.covered
    PROVE  \/ Accounted(k)'
           \/ /\ job'.kind = "backfill" /\ Waiting("client")'
              /\ k \in DOMAIN upsert'["client"].file
<1>1. /\ Keeps /\ UpsertTyped /\ now \in Nat /\ holes \in Costs /\ job \in Jobs
      /\ holes.covered \in 0..now /\ "client" \in Writers
      /\ upsert["client"].stage = "idle" => ~Waiting("client")
      /\ Waiting("client") => ~Behind("client")
      /\ NoJob.kind = "none"
  BY KeepsStep, StoredFacts, IdleCalls DEF Typed, HolesTyped, Writers, NoJob
<1> DEFINE Held == /\ job.kind = "backfill" /\ Waiting("client")
                   /\ k \in DOMAIN upsert["client"].file
           Holds == /\ job'.kind = "backfill" /\ Waiting("client")'
                    /\ k \in DOMAIN upsert'["client"].file
<1>2. CASE Backfill
  <2>a. PICK from \in Nat : \E pages \in Pages(from) : \E hours \in SUBSET (1..now) :
            /\ 0 < from /\ Reaching(from, pages, hours)
            /\ \/ client.last # 0 /\ Starting("backfill", hours)
               \/ /\ client.last # 0 => hours = {} \/ ~Readable(hours) \/ ~legible.csv
                  /\ UNCHANGED <<upsert, job>>
    BY <1>2, BackfillFacts
  <2>b. PICK pages \in Pages(from) : \E hours \in SUBSET (1..now) :
            /\ 0 < from /\ Reaching(from, pages, hours)
            /\ \/ client.last # 0 /\ Starting("backfill", hours)
               \/ /\ client.last # 0 => hours = {} \/ ~Readable(hours) \/ ~legible.csv
                  /\ UNCHANGED <<upsert, job>>
    BY <2>a
  <2>1. PICK hours \in SUBSET (1..now) :
            /\ 0 < from /\ Reaching(from, pages, hours)
            /\ \/ client.last # 0 /\ Starting("backfill", hours)
               \/ /\ client.last # 0 => hours = {} \/ ~Readable(hours) \/ ~legible.csv
                  /\ UNCHANGED <<upsert, job>>
    BY <2>b
  <2> DEFINE c == IF client.last = 0 THEN {} ELSE CutOff(from, pages)
             n == IF client.last # 0 /\ Readable(hours) THEN now ELSE 0
  <2>2. holes' = [holes EXCEPT !.cut = @ \cup c, !.covered = n]
    BY <2>1 DEF Reaching
  <2>3. holes'.covered = n
    BY <1>1, <2>2 DEF Costs
  <2>4. client.last # 0 /\ Readable(hours) /\ k \in 1..now
    BY <2>3
  <2>5. k \in hours \/ Accounted(k)'
    BY <2>1, <2>4, BackfillReaches
  <2>6. CASE k \in hours /\ Starting("backfill", hours)
    <3>1. /\ Begun("client", Published(hours)) /\ DOMAIN Published(hours) = hours
          /\ csv' = csv
      BY <1>2, <2>6, BackfillFacts DEF Starting
    <3>2. job'.kind = "backfill"
      BY <2>6, StartingFacts
    <3>3. /\ DOMAIN Merged(Published(hours)) = hours \cup DOMAIN csv
          /\ Merged(Published(hours)) = csv => hours \subseteq DOMAIN csv
      BY <3>1, MergedFacts
    <3>4. CASE upsert'["client"] = Idle /\ Merged(Published(hours)) = csv
      <4>1. k \in DOMAIN csv'
        BY <2>6, <3>1, <3>3, <3>4
      <4> QED
        BY <4>1 DEF Accounted, Stored
    <3>5. CASE upsert'["client"] = [stage |-> "loaded", file |-> Merged(Published(hours)),
                                    loaded |-> DOMAIN csv, temp |-> {}]
      BY <2>6, <3>2, <3>3, <3>5 DEF Waiting
    <3> QED
      BY <3>1, <3>4, <3>5 DEF Begun
  <2> QED
    BY <2>1, <2>4, <2>5, <2>6
<1>3. ASSUME holes'.covered = holes.covered, Held => Holds \/ Accounted(k)'
      PROVE  Accounted(k)' \/ Holds
  <2>1. k \in 1..holes.covered /\ k \in 1..now
    BY <1>1, <1>3
  <2>2. Accounted(k) \/ Held
    BY <2>1 DEF HoursAreAccounted
  <2> QED
    BY <1>1, <1>3, <2>1, <2>2 DEF Keeps
<1>4. ASSUME holes'.covered = holes.covered, Rests
      PROVE  Accounted(k)' \/ Holds
  <2>1. Held => Holds
    BY <1>4 DEF Rests, SameCall
  <2> QED
    BY <1>3, <1>4, <2>1
<1>5. ASSUME holes'.covered = holes.covered, job.kind # "backfill"
      PROVE  Accounted(k)' \/ Holds
  BY <1>3, <1>5
<1>6. ASSUME holes'.covered = 0 PROVE FALSE
  BY <1>6
<1>7. CASE HandleMessage
  <2>1. holes' = holes /\ job = NoJob
    BY <1>7, HandleMessageFacts DEF Starting
  <2> QED
    BY <1>1, <1>5, <2>1
<1>8. CASE RunIngestion
  <2>1. holes'.covered = holes.covered /\ job' = job /\ upsert'["client"] = upsert["client"]
    BY <1>1, <1>8, IngestionFacts DEF Costs, Begun, Writers
  <2> QED
    BY <1>3, <2>1 DEF Waiting
<1>9. CASE Feed \/ CallbackRaises
  <2>1. CanFeed /\ \E u : holes' = [holes EXCEPT !.unfed = u]
    BY <1>9 DEF Feed, CallbackRaises
  <2>2. holes'.covered = holes.covered
    BY <1>1, <2>1 DEF Costs
  <2>3. ~Held
    BY <1>1, <2>1 DEF CanFeed
  <2> QED
    BY <1>3, <2>2, <2>3
<1>10. CASE Crash
  <2>1. holes'.covered = 0
    BY <1>1, <1>10 DEF Crash, Costs
  <2> QED
    BY <1>6, <2>1
<1>11. CASE HourCloses \/ Amend \/ Start \/ ConnectionLost \/ Dial \/ Disconnect \/ UNCHANGED vars
  <2>1. UNCHANGED <<upsert, job>> /\ holes'.covered = holes.covered
    BY <1>1, <1>11 DEF HourCloses, Amend, Start, ConnectionLost, Dial, Disconnect, vars, Costs
  <2> QED
    BY <1>3, <2>1 DEF Waiting
<1>12. ASSUME NEW w \in Writers, SaveMeta(w) PROVE Accounted(k)' \/ Holds
  <2>1. /\ Behind(w) /\ job' = job
        /\ \A y \in Writers : y # w => SameCall(y)
    BY <1>1, <1>12, EndFacts DEF SaveMeta, Ended, Others, Behind
  <2>2. holes'.covered = holes.covered
    BY <1>1, <1>12 DEF SaveMeta, Costs
  <2>3. Held => Holds
    BY <1>1, <2>1 DEF SameCall
  <2> QED
    BY <1>3, <2>2, <2>3
<1>13. ASSUME NEW w \in Writers, WriteFails(w) PROVE Accounted(k)' \/ Holds
  <2>1. holes'.covered = IF w = "client" /\ job.kind = "backfill" THEN 0 ELSE holes.covered
    BY <1>1, <1>13 DEF WriteFails, Costs
  <2>2. CASE w = "client"
    BY <1>5, <1>6, <2>1, <2>2
  <2>3. CASE w # "client"
    <3>1. SameCall("client") /\ job' = job
      BY <1>1, <1>13, <2>3, EndFacts DEF WriteFails, Ended, Others
    <3> QED
      BY <1>3, <2>1, <2>3, <3>1 DEF SameCall
  <2> QED
    BY <2>2, <2>3
<1>14. ASSUME NEW w \in Writers, Replace(w) PROVE Accounted(k)' \/ Holds
  <2>1. /\ csv' = upsert[w].file /\ job' = job
        /\ \A y \in Writers : y # w => SameCall(y)
    BY <1>1, <1>14, ReplaceFacts, CleanReplace DEF Replace, PutInPlace, Others
  <2>2. holes'.covered = holes.covered
    BY <1>1, <1>14 DEF Replace, Costs
  <2>3. CASE w = "client"
    <3>1. Held => k \in DOMAIN csv'
      BY <2>1, <2>3
    <3>2. Held => Accounted(k)'
      BY <3>1 DEF Accounted, Stored
    <3> QED
      BY <1>3, <2>2, <3>2
  <2>4. CASE w # "client"
    BY <1>1, <1>3, <2>1, <2>2, <2>4 DEF SameCall
  <2> QED
    BY <2>3, <2>4
<1>15. ASSUME NEW w \in Writers, Open(w) PROVE Accounted(k)' \/ Holds
  <2>1. holes'.covered = holes.covered /\ job' = job /\ SameCall("client")
    BY <1>1, <1>15, OpenFacts DEF Opened
  <2> QED
    BY <1>3, <2>1 DEF SameCall
<1> QED
  BY <1>2, <1>7, <1>8, <1>9, <1>10, <1>11, <1>12, <1>13, <1>14, <1>15 DEF Next

\* Every hour stays accounted for.
LEMMA AccountedStep ==
    ASSUME Typed, HandlersInPhase, FilesAreGenuine, HandedOnAfterStored, HoursAreAccounted,
           [Next]_vars, ~holes'.mixed, legible.csv
    PROVE  HoursAreAccounted'
<1>1. \A h \in 1..now' : Stored(h)' => \A k \in 1..h : Accounted(k)'
  BY StoredStep
<1>2. ASSUME NEW w \in Writers, Waiting(w)',
             w = "ingestion" \/ job'.kind = "backfill"
      PROVE  \A h \in DOMAIN upsert'[w].file : \A k \in 1..h :
                 k \in DOMAIN upsert'[w].file \/ Accounted(k)'
  BY <1>2, PendingStep DEF Leaves
<1>3. \A k \in 1..holes'.covered :
          \/ Accounted(k)'
          \/ /\ job'.kind = "backfill" /\ Waiting("client")'
             /\ k \in DOMAIN upsert'["client"].file
  BY CoveredStep
<1> QED
  BY <1>1, <1>2, <1>3 DEF HoursAreAccounted

-----------------------------------------------------------------------------
(* The invariant holds, and what follows from it.                          *)

\* The hours of the empty feed, and what an idle client and a missing engine hold.
LEMMA NothingYet ==
    /\ NoJob \in Jobs /\ NoJob.kind = "none" /\ NoJob.feed = <<>>
    /\ DOMAIN <<>> = {} /\ HoursOf(<<>>) = {} /\ HoursOf(NoJob.feed) = {}
    /\ <<>> \in Seq(AllRows)
<1>1. <<>> \in Seq(AllRows) /\ DOMAIN <<>> = {}
  BY EmptySeq
<1> QED
  BY <1>1 DEF NoJob, Jobs, HoursOf

\* The client starts on a file that the exchange published and that has no gap.
LEMMA FeedInitially == Init => FeedInv
<1> SUFFICES ASSUME Init PROVE FeedInv
  OBVIOUS
<1>1. PICK market \in Markets : /\ now = market.onFile /\ tape = market.tape
                                /\ faults = market.faults
  BY DEF Init
<1>2. /\ csv = [h \in 1..now |-> tape[h]] /\ meta = Describe(csv)
      /\ upsert = [w \in Writers |-> Idle] /\ client = NoClient /\ job = NoJob
      /\ engine = NoEngine
      /\ holes = [jumped |-> {}, cut |-> {}, lost |-> {}, unfed |-> {}, amended |-> {},
                  torn |-> FALSE, mixed |-> FALSE, covered |-> 0]
      /\ legible = [csv |-> TRUE, meta |-> TRUE]
  BY DEF Init
<1>3. /\ tape \in Seq(Candles) /\ now \in 0..Len(tape) /\ faults \in Nat
      /\ \A h \in 1..now : tape[h].valid /\ tape[h].inYear
      /\ \A h, k \in 1..Len(tape) : h < k /\ tape[k].inYear => tape[h].inYear
      /\ \A h \in 1..Len(tape) : tape[h].valid => InOrder(tape[h])
  BY <1>1, FeedAssumption
<1>4. Len(tape) \in Nat /\ \A h \in 1..Len(tape) : tape[h] \in Candles
  BY <1>3, LenProperties, ElementOfSeq
<1>5. now \in Nat /\ now <= Len(tape)
  BY <1>3, <1>4
<1>6. TapeTyped
  BY <1>3 DEF TapeTyped
<1>7. UpsertTyped
  BY <1>2, CallsAreCalls DEF UpsertTyped, Stages
<1>8. EngineTyped
  <2>1. engine = [f \in EngineFields |-> engine[f]]
    BY <1>2, NoEngineFacts DEF IsEngine
  <2>2. engine.ready = FALSE /\ engine.candles = <<>> /\ engine.last = 0
    BY <1>2, NoEngineFacts
  <2>3. <<>> \in Seq(AllRows)
    BY NothingYet
  <2> QED
    <3>1. engine.ready \in BOOLEAN
      BY <2>2
    <3>2. engine.last \in 0..now
      BY <1>5, <2>2
    <3>3. engine.candles \in Seq(AllRows)
      BY <2>2, <2>3
    <3> QED
      BY <2>1, <3>1, <3>2, <3>3, Zenon DEF EngineTyped
<1>9. HolesTyped
  <2>1. holes \in Costs
    BY <1>2 DEF Costs
  <2> QED
    BY <1>2, <1>5, <2>1 DEF HolesTyped
<1>10. Typed
  <2>1. DOMAIN csv \subseteq 1..now
    BY <1>2
  <2>2. meta \in [count: 0..now, last: 0..now, gaps: 0..now]
    BY <1>2, <1>5, <2>1, DescribeTyped
  <2>3. legible \in [csv: BOOLEAN, meta: BOOLEAN]
    BY <1>2
  <2> QED
    BY <1>2, <1>6, <1>7, <1>8, <1>9, <2>2, <2>3, MarkedFacts, NothingYet DEF Typed
<1>11. HandlersInPhase
  <2>1. MaxAttempts \in Nat /\ "client" \in Writers
    BY Pages1 DEF Writers
  <2> QED
    BY <1>2, <2>1, MarkedFacts, NothingYet, CallsAreCalls DEF HandlersInPhase
<1>12. FilesAreGenuine
  <2>1. FileIsGenuine(csv)
    <3>1. \A h \in 1..now : Genuine(tape[h], h)
      BY <1>3, <1>4, <1>5 DEF Genuine
    <3> QED
      BY <1>2, <3>1 DEF FileIsGenuine
  <2>2. \A w \in Writers : /\ FileIsGenuine(upsert[w].file)
                            /\ \A file \in upsert[w].temp : FileIsGenuine(file)
    BY <1>2, CallsAreCalls DEF FileIsGenuine
  <2> QED
    BY <1>2, <2>1, <2>2, NothingYet, NoEngineFacts DEF FilesAreGenuine
<1>13. \A w \in Writers : ~Waiting(w) /\ ~Behind(w)
  BY <1>2, CallsAreCalls DEF Waiting, Behind
<1>14. MetaFollowsFile
  BY <1>2, <1>13 DEF MetaFollowsFile
<1>15. "client" \in Writers
  BY DEF Writers
<1>16. HandedOnAfterStored
  BY <1>2, <1>13, <1>15, MarkedFacts, NothingYet, NoEngineFacts, CallsAreCalls
     DEF HandedOnAfterStored
<1>17. HoursAreAccounted
  <2>1. \A h \in 1..now : \A k \in 1..h : k \in DOMAIN csv
    BY <1>2, <1>5
  <2>2. 1..holes.covered = {}
    BY <1>2
  <2> QED
    BY <1>13, <2>1, <2>2 DEF HoursAreAccounted, Accounted, Stored
<1>18. RowsAreTaken
  BY <1>2, MarkedFacts DEF RowsAreTaken
<1>19. EngineAscends
  BY <1>2, NoEngineFacts, NothingYet DEF EngineAscends
<1>20. FileInv
  BY <1>2, <1>14, <1>16, <1>17, <1>18 DEF FileInv
<1> QED
  BY <1>10, <1>11, <1>12, <1>19, <1>20 DEF FeedInv

\* Every step of the exchange, the client, the ingestion and the writes keeps it.
LEMMA FeedSteps == FeedInv /\ [Next]_vars => FeedInv'
<1> SUFFICES ASSUME FeedInv, [Next]_vars PROVE FeedInv'
  OBVIOUS
<1>1. /\ Typed /\ HandlersInPhase /\ FilesAreGenuine /\ EngineAscends
      /\ holes.mixed \/ FileInv
  BY DEF FeedInv
<1>2. Typed' /\ FilesAreGenuine' /\ HandlersInPhase' /\ EngineAscends'
  BY <1>1, TypedStep, GenuineStep, PhaseStep, EngineStep
<1>3. ASSUME ~holes'.mixed PROVE FileInv'
  <2>1. ~holes.mixed /\ (legible.csv => legible'.csv)
    BY <1>1, <1>3, MixedStep
  <2>2. /\ MetaFollowsFile /\ HandedOnAfterStored /\ HoursAreAccounted /\ RowsAreTaken
        /\ legible.csv
    BY <1>1, <2>1 DEF FileInv
  <2>3. MetaFollowsFile'
    BY <1>1, <1>3, <2>2, MetaFollowsStep
  <2>4. HandedOnAfterStored'
    BY <1>1, <1>3, <2>2, HandedOnStep
  <2>5. HoursAreAccounted'
    BY <1>1, <1>3, <2>2, AccountedStep
  <2>6. RowsAreTaken'
    BY <1>1, <1>3, <2>2, TakenStep
  <2> QED
    BY <2>1, <2>2, <2>3, <2>4, <2>5, <2>6 DEF FileInv
<1> QED
  BY <1>2, <1>3 DEF FeedInv

\* The inductive invariant of the market-data path: files, calls, handlers and the
\* engine's candles stay what the exchange published, and no hour is missing unaccounted.
THEOREM FeedInvariance == Spec => []FeedInv
<1>1. Init => FeedInv
  BY FeedInitially
<1>2. FeedInv /\ [Next]_vars => FeedInv'
  BY FeedSteps
<1> QED
  BY <1>1, <1>2, PTL DEF Spec

\* Every variable of the market-data path keeps its type, whatever the exchange answers,
\* whenever a call fails and wherever the process dies (delta_websocket.py, ingestion.py).
THEOREM TypeCorrect == Spec => []TypeOK
<1>1. FeedInv => TypeOK
  <2> SUFFICES ASSUME FeedInv PROVE TypeOK
    OBVIOUS
  <2>1. /\ Typed /\ HandlersInPhase /\ FilesAreGenuine
        /\ legible \in [csv: BOOLEAN, meta: BOOLEAN]
        /\ TapeTyped /\ UpsertTyped /\ EngineTyped /\ HolesTyped
        /\ client \in Clients /\ job \in Jobs
        /\ meta \in [count: 0..now, last: 0..now, gaps: 0..now]
    BY DEF FeedInv, Typed
  <2>2. /\ tape \in Seq(Candles) /\ Len(tape) \in Nat /\ DOMAIN tape = 1..Len(tape)
        /\ now \in Nat /\ now <= Len(tape) /\ faults \in Nat
    <3>1. tape \in Seq(Candles) /\ now \in 0..Len(tape) /\ faults \in Nat
      BY <2>1 DEF TapeTyped
    <3> QED
      BY <3>1, LenProperties
  <2>3. now \in {0} \cup Hours
    BY <2>2 DEF Hours
  <2>4. /\ DOMAIN csv \subseteq 1..now
        /\ \A w \in Writers : DOMAIN upsert[w].file \subseteq 1..now
    BY <2>1 DEF FilesAreGenuine, FileIsGenuine, Genuine
  <2>5. \A w \in Writers : upsert[w].stage \in Stages
    BY <2>1 DEF UpsertTyped
  <2>6. client.phase \in Phases /\ client.running \in BOOLEAN /\ client.attempts \in Nat
    BY <2>1 DEF Clients
  <2>7. client.attempts \in 0..(MaxAttempts + 1)
    <3>1. \/ client.attempts <= MaxAttempts
          \/ client.attempts = MaxAttempts + 1
      BY <2>1 DEF HandlersInPhase
    <3> QED
      BY <2>6, <3>1, Pages1
  <2>8. client.processed \subseteq 1..now /\ client.last \in {0} \cup client.processed
    BY <2>1 DEF HandlersInPhase
  <2>10. HoursOf(job.feed) \subseteq 1..now
    BY <2>1, FeedHours
  <2>11. job.kind \in {"none", "live", "backfill"}
    BY <2>1 DEF Jobs
  <2>12. engine.ready \in BOOLEAN /\ engine.last \in 0..now
    BY <2>1 DEF EngineTyped
  <2> QED
    BY <2>1, <2>2, <2>3, <2>4, <2>5, <2>6, <2>7, <2>8, <2>10, <2>11, <2>12
       DEF TypeOK, HolesTyped
<1> QED
  BY <1>1, FeedInvariance, PTL

\* The files on disk are what the canonical dataset promises, until two calls publish one
\* temporary file between them: no silent gap between the first and the last row (Rule
\* 13), metadata that describes the file (Rule 7) unless a call was cut off or met the
\* other process, and every row a candle the exchange published, readable and of the
\* file's year (ingestion.py, delta_websocket.py).
THEOREM DiskSound == Spec => []DiskIsSound
<1>1. FeedInv => DiskIsSound
  <2> SUFFICES ASSUME FeedInv, ~holes.mixed PROVE DiskIsSound
    BY DEF DiskIsSound
  <2>1. /\ TapeTyped /\ FilesAreGenuine /\ MetaFollowsFile /\ HoursAreAccounted
        /\ FileIsGenuine(csv)
    BY DEF FeedInv, FileInv, Typed, FilesAreGenuine
  <2>2. /\ Len(tape) \in Nat /\ DOMAIN tape = 1..Len(tape)
        /\ now \in Nat /\ now <= Len(tape)
        /\ \A h, k \in 1..Len(tape) : h < k /\ tape[k].inYear => tape[h].inYear
    <3>1. tape \in Seq(Candles) /\ now \in 0..Len(tape)
          /\ \A h, k \in 1..Len(tape) : h < k /\ tape[k].inYear => tape[h].inYear
      BY <2>1 DEF TapeTyped
    <3> QED
      BY <3>1, LenProperties
  <2>3. /\ DOMAIN csv \in SUBSET (1..now)
        /\ \A h \in DOMAIN csv : tape[h].valid /\ tape[h].inYear
        /\ \A h \in DOMAIN csv : csv[h] = tape[h] \/ h \in holes.amended
    BY <2>1 DEF FileIsGenuine, Genuine
  <2>4. GapsAreExplained
    <3> SUFFICES ASSUME NEW h \in Hours, DOMAIN csv # {}, h < MaxHour(DOMAIN csv),
                        h \notin DOMAIN csv
                 PROVE  ~tape[h].valid \/ h \in holes.jumped \cup holes.cut \cup holes.lost
      BY DEF GapsAreExplained
    <3> DEFINE m == MaxHour(DOMAIN csv)
    <3>1. m \in DOMAIN csv
      BY <2>2, <2>3, MaxHourFacts
    <3>2. /\ m \in 1..now /\ m \in 1..Len(tape) /\ h \in 1..Len(tape) /\ h < m
          /\ tape[m].inYear
      BY <2>2, <2>3, <3>1 DEF Hours
    <3> HIDE DEF m
    <3>3. tape[h].inYear
      BY <2>2, <3>2
    <3>4. h \in 1..m
      BY <3>2
    <3>5. Accounted(h)
      BY <2>1, <3>1, <3>2, <3>4 DEF HoursAreAccounted, Stored
    <3> QED
      BY <3>3, <3>5 DEF Accounted, Stored
  <2>5. MetaDescribesFile
    BY <2>1 DEF MetaFollowsFile, MetaDescribesFile
  <2>6. RowsArePublished
    BY <2>3 DEF RowsArePublished, Readable, InPartition
  <2> QED
    BY <2>4, <2>5, <2>6 DEF DiskIsSound
<1> QED
  BY <1>1, FeedInvariance, PTL

\* The engine takes ascending hours, each once and each with the value on file, and passes
\* over no row of the file but those the ingestion wrote, that came late, that a callback
\* refused, or whose call failed after them (Rule 10; incremental_engine.py,
\* delta_websocket.py), until two calls publish one temporary file between them.
THEOREM EngineFollows == Spec => []EngineFollowsFile
<1>1. FeedInv => EngineFollowsFile
  <2> SUFFICES ASSUME FeedInv, ~holes.mixed PROVE EngineFollowsFile
    BY DEF EngineFollowsFile
  <2>1. /\ FilesAreGenuine /\ HandedOnAfterStored /\ RowsAreTaken /\ EngineAscends
        /\ FileIsGenuine(csv) /\ HandlersInPhase /\ "client" \in Writers
    BY DEF FeedInv, FileInv, FilesAreGenuine, Writers
  <2>2. \A i, j \in DOMAIN engine.candles :
            i < j => engine.candles[i].hour < engine.candles[j].hour
    BY <2>1 DEF EngineAscends
  <2>3. ASSUME NEW i \in DOMAIN engine.candles
        PROVE  LET h == engine.candles[i].hour
                   candle == [f \in DOMAIN csv[h] |-> engine.candles[i][f]]
               IN  \/ h \in holes.lost
                   \/ h \in DOMAIN csv /\ (candle = csv[h] \/ h \in holes.amended)
    <3> DEFINE h == engine.candles[i].hour
               candle == [f \in DOMAIN csv[h] |-> engine.candles[i][f]]
    <3>1. Stored(h)
      BY <2>1 DEF HandedOnAfterStored, HoursOf
    <3>2. Genuine(CandleOf(engine.candles[i]), h)
      BY <2>1 DEF FilesAreGenuine, RowIsGenuine
    <3>3. ASSUME h \in DOMAIN csv, h \notin holes.amended PROVE candle = csv[h]
      <4>1. csv[h] = tape[h] /\ csv[h] \in Candles
        BY <2>1, <3>3 DEF FileIsGenuine, Genuine
      <4>2. CandleOf(engine.candles[i]) = csv[h]
        BY <3>2, <3>3, <4>1 DEF Genuine
      <4>3. DOMAIN csv[h] = CandleFields
        BY <4>1 DEF Candles, CandleFields
      <4> QED
        BY <4>2, <4>3 DEF CandleOf
    <3> QED
      BY <3>1, <3>3 DEF Stored
  <2>4. client.phase # "off" =>
            DOMAIN csv \subseteq
                HoursOf(engine.candles) \cup holes.unfed \cup HoursOf(job.feed)
    BY <2>1 DEF RowsAreTaken
  <2> QED
    BY <2>2, <2>3, <2>4 DEF EngineFollowsFile
<1> QED
  BY <1>1, FeedInvariance, PTL

-----------------------------------------------------------------------------
(* A detector's run over a series, one candle at a time.                   *)

\* What DetectAll makes of one more candle.
Detect(series, size, run, i) ==
    LET step == DetectorStep(run.d, SubSeq(series, 1, i), size)
    IN  [d |-> step.d, breaks |-> run.breaks \o step.breaks]

\* Before the first candle.
NoRun == [d |-> NewDetector, breaks |-> <<>>]

\* f is the fold of MapThenFoldSet over the first n candles.
IsFold(f, series, size, n) ==
    f = [s \in SUBSET (1..n) |->
            IF s = {} THEN NoRun
            ELSE LET x == Max(s) IN Detect(series, size, f[s \ {x}], x)]

\* The largest of some numbers, as the library writes it.
LEMMA MaxNumber ==
    ASSUME NEW n \in Nat, NEW S \in SUBSET (1..n), S # {}
    PROVE  /\ Max(S) \in S /\ \A k \in S : k <= Max(S)
<1> DEFINE m == MaxHour(S)
<1>1. m \in S /\ \A k \in S : k <= m
  BY MaxHourFacts
<1> HIDE DEF m
<1>2. \A k \in S : m >= k
  BY <1>1
<1>3. Max(S) \in S /\ \A k \in S : Max(S) >= k
  BY <1>1, <1>2 DEF Max
<1> QED
  BY <1>3

\* DetectAll is the value of such a fold at all the candles.
LEMMA DetectAllFold ==
    ASSUME NEW series, NEW size, NEW n \in Nat, DOMAIN series = 1..n,
           \E f : IsFold(f, series, size, n)
    PROVE  \E f : IsFold(f, series, size, n) /\ DetectAll(series, size) = f[1..n]
<1> DEFINE seq == [i \in DOMAIN series |-> i]
           P(f) == f = [s \in SUBSET (1..n) |->
                           IF s = {} THEN NoRun
                           ELSE LET x == Max(s) IN Detect(series, size, f[s \ {x}], seq[x])]
           h == CHOOSE f : P(f)
<1>1. DOMAIN seq = 1..n
  OBVIOUS
<1>2. DetectAll(series, size) = h[1..n]
  BY <1>1 DEF DetectAll, FoldLeft, MapThenFoldSet, Detect, NoRun
<1>3. \A s \in SUBSET (1..n) : s # {} => seq[Max(s)] = Max(s)
  <2> TAKE s \in SUBSET (1..n)
  <2> HAVE s # {}
  <2>1. Max(s) \in DOMAIN series
    BY MaxNumber
  <2> QED
    BY <2>1
<1> HIDE DEF seq
<1>4. ASSUME NEW f PROVE P(f) <=> IsFold(f, series, size, n)
  <2> DEFINE a(s) == IF s = {} THEN NoRun
                     ELSE LET x == Max(s) IN Detect(series, size, f[s \ {x}], seq[x])
             b(s) == IF s = {} THEN NoRun
                     ELSE LET x == Max(s) IN Detect(series, size, f[s \ {x}], x)
  <2>1. \A s \in SUBSET (1..n) : a(s) = b(s)
    BY <1>3
  <2>2. P(f) <=> f = [s \in SUBSET (1..n) |-> a(s)]
    OBVIOUS
  <2>3. IsFold(f, series, size, n) <=> f = [s \in SUBSET (1..n) |-> b(s)]
    BY DEF IsFold
  <2> HIDE DEF a, b, P
  <2> QED
    BY <2>1, <2>2, <2>3
<1> HIDE DEF P
<1>5. P(h)
  BY <1>4
<1> QED
  BY <1>2, <1>4, <1>5

\* A fold exists, whatever the length.
LEMMA FoldExists ==
    ASSUME NEW series, NEW size
    PROVE  \A n \in Nat : \E f : IsFold(f, series, size, n)
<1> DEFINE T == {n \in Nat : ~ \E f : IsFold(f, series, size, n)}
<1> SUFFICES ASSUME T # {} PROVE FALSE
  OBVIOUS
<1>1. PICK m \in T : \A k \in T : m <= k
  BY LeastExists
<1>2. m \in Nat /\ ~ \E f : IsFold(f, series, size, m)
  OBVIOUS
<1>3. CASE m = 0
  <2> DEFINE g == [s \in SUBSET (1..m) |-> NoRun]
  <2>1. \A s \in SUBSET (1..m) : s = {}
    BY <1>3
  <2>2. IsFold(g, series, size, m)
    BY <2>1 DEF IsFold
  <2> QED
    BY <1>2, <2>2
<1>4. CASE m # 0
  <2> DEFINE n == m - 1
  <2>1. n \in Nat /\ n + 1 = m
    BY <1>2, <1>4
  <2>2. n \notin T
    BY <1>1, <2>1
  <2>3. PICK f : IsFold(f, series, size, n)
    BY <2>1, <2>2
  <2> HIDE DEF n, T
  <2> DEFINE F(g, s) == IF s = {} THEN NoRun
                        ELSE LET x == Max(s) IN Detect(series, size, g[s \ {x}], x)
             g == [s \in SUBSET (1..m) |->
                      IF m \in s THEN Detect(series, size, f[s \ {m}], m) ELSE f[s]]
  <2>4. \A s \in SUBSET (1..n) : f[s] = F(f, s)
    BY <2>3 DEF IsFold
  <2>5. \A s \in SUBSET (1..m) : s \ {m} \in SUBSET (1..n) /\ s \ {m} \in SUBSET (1..m)
    <3>1. \A k \in 1..m : k = m \/ k \in 1..n
      BY <2>1
    <3> QED
      BY <3>1
  <2>6. \A s \in SUBSET (1..n) : g[s] = f[s]
    <3>1. \A k \in 1..n : k \in 1..m /\ k # m
      BY <2>1
    <3> QED
      BY <3>1
  <2>7. ASSUME NEW s \in SUBSET (1..m) PROVE g[s] = F(g, s)
    <3>1. CASE m \in s
      <4>1. Max(s) \in s /\ m <= Max(s)
        BY <1>2, <3>1, MaxNumber
      <4>2. Max(s) = m
        <5>1. Max(s) \in 1..m
          BY <4>1
        <5> QED
          BY <1>2, <4>1, <5>1
      <4>3. g[s \ {m}] = f[s \ {m}]
        BY <2>5, <2>6
      <4>4. g[s] = Detect(series, size, f[s \ {m}], m)
        BY <3>1
      <4> HIDE DEF g
      <4> QED
        BY <3>1, <4>2, <4>3, <4>4
    <3>2. CASE m \notin s
      <4>1. s \in SUBSET (1..n)
        BY <2>5, <3>2
      <4>2. g[s] = f[s]
        BY <2>6, <4>1
      <4>3. CASE s = {}
        BY <2>4, <4>1, <4>2, <4>3
      <4>4. CASE s # {}
        <5>1. s \ {Max(s)} \in SUBSET (1..n)
          BY <4>1
        <5>2. g[s \ {Max(s)}] = f[s \ {Max(s)}]
          BY <2>6, <5>1
        <5>3. f[s] = F(f, s)
          BY <2>4, <4>1
        <5> HIDE DEF g
        <5> QED
          BY <4>2, <4>4, <5>2, <5>3
      <4> QED
        BY <4>3, <4>4
    <3> QED
      BY <3>1, <3>2
  <2>8. g = [s \in SUBSET (1..m) |-> g[s]]
    OBVIOUS
  <2> HIDE DEF g
  <2>9. g = [s \in SUBSET (1..m) |-> F(g, s)]
    BY <2>7, <2>8
  <2>10. IsFold(g, series, size, m)
    BY <2>9 DEF IsFold
  <2> QED
    BY <1>2, <2>10
<1> QED
  BY <1>3, <1>4

\* Along the first candles a fold goes from one to the next.
LEMMA FoldSteps ==
    ASSUME NEW series, NEW size, NEW n \in Nat, NEW f, IsFold(f, series, size, n)
    PROVE  /\ f[1..0] = NoRun
           /\ \A k \in 1..n : f[1..k] = Detect(series, size, f[1..(k - 1)], k)
<1> DEFINE F(s) == IF s = {} THEN NoRun
                   ELSE LET x == Max(s) IN Detect(series, size, f[s \ {x}], x)
<1>1. \A s \in SUBSET (1..n) : f[s] = F(s)
  BY DEF IsFold
<1>2. f[1..0] = NoRun
  <2>1. 1..0 \in SUBSET (1..n) /\ 1..0 = {}
    OBVIOUS
  <2> QED
    BY <1>1, <2>1
<1>3. ASSUME NEW k \in 1..n PROVE f[1..k] = Detect(series, size, f[1..(k - 1)], k)
  <2>1. k \in Nat /\ 1..k \in SUBSET (1..n) /\ k \in 1..k
    OBVIOUS
  <2>2. Max(1..k) \in 1..k /\ k <= Max(1..k)
    BY <2>1, MaxNumber
  <2>3. Max(1..k) = k
    BY <2>1, <2>2
  <2>4. (1..k) \ {k} = 1..(k - 1)
    BY <2>1
  <2>5. f[1..k] = F(1..k)
    BY <1>1, <2>1
  <2>6. 1..k # {}
    BY <2>1
  <2> QED
    BY <2>3, <2>4, <2>5, <2>6
<1> QED
  BY <1>2, <1>3

\* The structure of a series and one candle more is one step after that of the series.
LEMMA DetectAllAppend ==
    ASSUME NEW V, NEW series \in Seq(V), NEW x \in V, NEW size
    PROVE  DetectAll(Append(series, x), size).d
               = DetectorStep(DetectAll(series, size).d, Append(series, x), size).d
<1> DEFINE n == Len(series)
           longer == Append(series, x)
<1>1. /\ n \in Nat /\ DOMAIN series = 1..n /\ longer \in Seq(V) /\ Len(longer) = n + 1
      /\ DOMAIN longer = 1..(n + 1)
      /\ \A i \in 1..n : SubSeq(longer, 1, i) = SubSeq(series, 1, i)
      /\ SubSeq(longer, 1, n + 1) = longer
  <2>1. n \in Nat /\ DOMAIN series = 1..n /\ longer \in Seq(V) /\ Len(longer) = n + 1
        /\ DOMAIN longer = 1..(n + 1) /\ \A i \in 1..n : longer[i] = series[i]
    BY LenProperties, AppendProperties
  <2> HIDE DEF n, longer
  <2>2. ASSUME NEW i \in 1..n PROVE SubSeq(longer, 1, i) = SubSeq(series, 1, i)
    <3>1. SubSeq(longer, 1, i) = [k \in 1..i |-> longer[k]]
          /\ SubSeq(series, 1, i) = [k \in 1..i |-> series[k]]
      BY <2>1
    <3> QED
      BY <2>1, <3>1
  <2>3. SubSeq(longer, 1, n + 1) = longer
    BY <2>1
  <2> QED
    BY <2>1, <2>2, <2>3 DEF n
<1> HIDE DEF n, longer
<1>2. PICK f : IsFold(f, series, size, n) /\ DetectAll(series, size) = f[1..n]
  BY <1>1, FoldExists, DetectAllFold
<1>3. PICK g : IsFold(g, longer, size, n + 1) /\ DetectAll(longer, size) = g[1..(n + 1)]
  <2>1. n + 1 \in Nat
    BY <1>1
  <2> QED
    BY <1>1, <2>1, FoldExists, DetectAllFold
<1>4. /\ f[1..0] = NoRun /\ g[1..0] = NoRun
      /\ \A k \in 1..n : f[1..k] = Detect(series, size, f[1..(k - 1)], k)
      /\ \A k \in 1..(n + 1) : g[1..k] = Detect(longer, size, g[1..(k - 1)], k)
  <2>1. n + 1 \in Nat
    BY <1>1
  <2> QED
    BY <1>1, <1>2, <1>3, <2>1, FoldSteps
<1>5. \A k \in 0..n : f[1..k] = g[1..k]
  <2> DEFINE T == {k \in 0..n : f[1..k] # g[1..k]}
  <2> SUFFICES ASSUME T # {} PROVE FALSE
    OBVIOUS
  <2>1. T \in SUBSET Nat
    BY <1>1
  <2>2. PICK m \in T : \A k \in T : m <= k
    BY <2>1, LeastExists
  <2>3. m \in 0..n /\ f[1..m] # g[1..m]
    OBVIOUS
  <2>4. m # 0
    BY <1>4, <2>3
  <2>5. m \in 1..n /\ m \in 1..(n + 1) /\ m - 1 \in 0..n /\ m - 1 < m
    BY <1>1, <2>3, <2>4
  <2>6. f[1..(m - 1)] = g[1..(m - 1)]
    <3>1. m - 1 \notin T
      BY <1>1, <2>2, <2>5
    <3> QED
      BY <2>5, <3>1
  <2> HIDE DEF T
  <2>7. Detect(series, size, f[1..(m - 1)], m) = Detect(longer, size, g[1..(m - 1)], m)
    BY <1>1, <2>5, <2>6 DEF Detect
  <2> QED
    BY <1>4, <2>3, <2>5, <2>7
<1>6. g[1..(n + 1)] = Detect(longer, size, f[1..n], n + 1)
  <2>1. n + 1 \in 1..(n + 1) /\ (n + 1) - 1 = n /\ n \in 0..n
    BY <1>1
  <2> QED
    BY <1>4, <1>5, <2>1
<1>7. DetectAll(longer, size).d = DetectorStep(DetectAll(series, size).d, longer, size).d
  <2>1. g[1..(n + 1)].d = DetectorStep(f[1..n].d, SubSeq(longer, 1, n + 1), size).d
    <3> DEFINE step == DetectorStep(f[1..n].d, SubSeq(longer, 1, n + 1), size)
    <3>1. g[1..(n + 1)] = [d |-> step.d, breaks |-> f[1..n].breaks \o step.breaks]
      BY <1>6 DEF Detect
    <3> HIDE DEF step
    <3>2. g[1..(n + 1)].d = step.d
      BY <3>1
    <3> QED
      BY <3>2 DEF step
  <2> QED
    BY <1>1, <1>2, <1>3, <2>1
<1> QED
  BY <1>7 DEF longer

-----------------------------------------------------------------------------
(* The structure the engine holds is that of the candles it has taken.     *)

\* What the bars of a parsed series are made of.
ParsedRows == {Parsed(c, i) : c \in AllRows, i \in Nat}

\* The structure is what a whole run over the candles gives.
Rebuilt(e) ==
    /\ Enough(Len(e.candles)) /\ e.parsed = Series(e.candles)
    /\ e.internal = DetectAll(e.parsed, InternalLength).d
    /\ e.swing = DetectAll(e.parsed, SwingLength).d

\* Either every candle is parsed and the structure is rebuilt from them, or the engine
\* began on too short a history, and what is parsed stays behind for ever.
StructureFollows(e) ==
    /\ e.parsed \in Seq(ParsedRows) /\ Len(e.parsed) <= Len(e.candles)
    /\ e.ready => e.candles # <<>>
    /\ e.candles # <<>> /\ Len(e.parsed) = Len(e.candles) => Rebuilt(e)

\* What the blocks of a run over a whole history are before any is aged.
BlocksBehind(series) ==
    LET internal == DetectAll(series, InternalLength)
        swing == DetectAll(series, SwingLength)
    IN  BlocksOf(series, internal.breaks, internal.d, "internal", FALSE)
            \o BlocksOf(series, swing.breaks, swing.d, "swing", FALSE)

\* The blocks after one more candle, before they are aged.
BlocksNow(e, parsed) ==
    LET internal == DetectorStep(e.internal, parsed, InternalLength)
        swing == DetectorStep(e.swing, parsed, SwingLength)
    IN  e.obs \o BlocksOf(parsed, internal.breaks, internal.d, "internal", TRUE)
              \o BlocksOf(parsed, swing.breaks, swing.d, "swing", TRUE)

\* What a candle makes of the engine, field by field.
TakesCandle(e, c, n) ==
    LET at == Len(Append(e.candles, c))
        parsed == Append(e.parsed, Parsed(c, at))
    IN  /\ n.ready = e.ready /\ n.candles = Append(e.candles, c)
        /\ ~Enough(at) => /\ n.parsed = e.parsed /\ n.obs = e.obs
                          /\ n.internal = e.internal /\ n.swing = e.swing
        /\ Enough(at) =>
             /\ n.parsed = parsed
             /\ n.internal = DetectorStep(e.internal, parsed, InternalLength).d
             /\ n.swing = DetectorStep(e.swing, parsed, SwingLength).d
             /\ n.obs = [k \in DOMAIN BlocksNow(e, parsed) |->
                             Aged(BlocksNow(e, parsed)[k], c, at)]

\* A processed candle is taken so.
LEMMA ProcessCandleFields ==
    ASSUME NEW e, IsEngine(e), NEW c
    PROVE  TakesCandle(e, c, ProcessCandle(e, c))
<1> DEFINE candles == Append(e.candles, c)
           at == Len(candles)
           parsed == Append(e.parsed, Parsed(c, at))
           internal == DetectorStep(e.internal, parsed, InternalLength)
           swing == DetectorStep(e.swing, parsed, SwingLength)
           aged == [k \in DOMAIN BlocksNow(e, parsed) |-> Aged(BlocksNow(e, parsed)[k], c, at)]
           p == ProcessCandle(e, c)
<1>1. /\ DOMAIN e = EngineFields
      /\ EngineFields = {"ready", "candles", "parsed", "obs", "last", "internal", "swing"}
  BY NoEngineFacts DEF IsEngine
<1>2. p = IF ~Enough(at)
          THEN [e EXCEPT !.candles = candles, !.last = c.hour]
          ELSE [e EXCEPT !.candles = candles, !.parsed = parsed, !.last = c.hour,
                         !.internal = internal.d, !.swing = swing.d, !.obs = aged]
  BY DEF ProcessCandle, BlocksNow
<1> SUFFICES /\ p.ready = e.ready /\ p.candles = candles
             /\ ~Enough(at) => /\ p.parsed = e.parsed /\ p.obs = e.obs
                               /\ p.internal = e.internal /\ p.swing = e.swing
             /\ Enough(at) => /\ p.parsed = parsed /\ p.internal = internal.d
                              /\ p.swing = swing.d /\ p.obs = aged
  BY DEF TakesCandle
<1> HIDE DEF aged, swing, internal, parsed, at, candles, p
<1>3. CASE ~Enough(at)
  BY <1>1, <1>2, <1>3 DEF IsEngine
<1>4. CASE Enough(at)
  BY <1>1, <1>2, <1>4 DEF IsEngine
<1> QED
  BY <1>3, <1>4

\* What an engine built from a file is, field by field.
LEMMA InitializeFields ==
    ASSUME NEW cs
    PROVE  LET n == Initialize(cs)
           IN  /\ cs = <<>> => n = NoEngine
               /\ cs # <<>> /\ Enough(Len(cs)) =>
                    /\ n.ready = TRUE /\ n.candles = cs /\ n.parsed = Series(cs)
                    /\ n.internal = DetectAll(Series(cs), InternalLength).d
                    /\ n.swing = DetectAll(Series(cs), SwingLength).d
                    /\ n.obs = BlocksBehind(Series(cs))
               /\ cs # <<>> /\ ~Enough(Len(cs)) =>
                    /\ n.candles = cs /\ n.parsed = <<>> /\ n.obs = <<>>
                    /\ n.internal = NewDetector /\ n.swing = NewDetector
<1>1. CASE cs = <<>>
  BY <1>1 DEF Initialize
<1>2. CASE cs # <<>> /\ Enough(Len(cs))
  <2> DEFINE internal == DetectAll(Series(cs), InternalLength).d
             swing == DetectAll(Series(cs), SwingLength).d
             obs == BlocksBehind(Series(cs))
             series == Series(cs)
             e == Initialize(cs)
  <2>1. e = [ready |-> TRUE, candles |-> cs, parsed |-> series, last |-> Last(cs).hour,
             internal |-> internal, swing |-> swing, obs |-> obs]
    BY <1>2 DEF Initialize, InitializeLong, BlocksBehind
  <2> HIDE DEF obs, swing, internal, series, e
  <2>2. /\ e.ready = TRUE /\ e.candles = cs /\ e.parsed = series
        /\ e.internal = internal /\ e.swing = swing /\ e.obs = obs
    BY <2>1
  <2> QED
    BY <1>2, <2>2 DEF obs, swing, internal, series, e
<1>3. CASE cs # <<>> /\ ~Enough(Len(cs))
  <2> DEFINE e == Initialize(cs)
  <2>1. e = [NoEngine EXCEPT !.ready = TRUE, !.candles = cs, !.last = Last(cs).hour]
    BY <1>3 DEF Initialize, InitializeShort
  <2> HIDE DEF e
  <2>2. /\ e.candles = cs /\ e.parsed = <<>> /\ e.obs = <<>>
        /\ e.internal = NewDetector /\ e.swing = NewDetector
    BY <2>1 DEF NoEngine
  <2> QED
    BY <1>3, <2>2 DEF e
<1> QED
  BY <1>1, <1>2, <1>3

\* The parsed series of some candles, and of one more.
LEMMA SeriesFacts ==
    ASSUME NEW cs \in Seq(AllRows)
    PROVE  /\ Series(cs) \in Seq(ParsedRows) /\ Len(Series(cs)) = Len(cs)
           /\ DOMAIN Series(cs) = DOMAIN cs
           /\ \A i \in DOMAIN cs : Series(cs)[i] = Parsed(cs[i], i)
           /\ \A c \in AllRows :
                  Series(Append(cs, c)) = Append(Series(cs), Parsed(c, Len(cs) + 1))
<1> DEFINE n == Len(cs)
<1>1. n \in Nat /\ DOMAIN cs = 1..n /\ \A i \in 1..n : cs[i] \in AllRows
  BY LenProperties, ElementOfSeq
<1>2. Series(cs) = [i \in 1..n |-> Parsed(cs[i], i)]
  BY <1>1 DEF Series
<1>3. \A i \in 1..n : Parsed(cs[i], i) \in ParsedRows
  BY <1>1 DEF ParsedRows
<1>4. Series(cs) \in Seq(ParsedRows) /\ Len(Series(cs)) = n /\ DOMAIN Series(cs) = 1..n
      /\ \A i \in 1..n : Series(cs)[i] = Parsed(cs[i], i)
  BY <1>1, <1>2, <1>3
<1>5. ASSUME NEW c \in AllRows
      PROVE  Series(Append(cs, c)) = Append(Series(cs), Parsed(c, n + 1))
  <2> DEFINE a == Append(cs, c)
             s == Series(cs)
             p == Parsed(c, n + 1)
  <2>1. /\ DOMAIN a = 1..(n + 1)
        /\ \A i \in 1..(n + 1) : a[i] = IF i = n + 1 THEN c ELSE cs[i]
    BY AppendFacts
  <2>2. Series(a) = [i \in 1..(n + 1) |-> Parsed(a[i], i)]
    BY <2>1 DEF Series
  <2>3. n + 1 \in Nat
    BY <1>1
  <2>4. p \in ParsedRows
    BY <2>3 DEF ParsedRows
  <2>5. s \in Seq(ParsedRows) /\ Len(s) = n /\ \A i \in 1..n : s[i] = Parsed(cs[i], i)
    BY <1>4
  <2> HIDE DEF a, s, n
  <2>6. Append(s, p) = [i \in 1..(n + 1) |-> IF i = n + 1 THEN p ELSE s[i]]
    BY <1>1, <2>4, <2>5
  <2>7. \A i \in 1..(n + 1) : Parsed(a[i], i) = IF i = n + 1 THEN p ELSE s[i]
    BY <1>1, <2>1, <2>5
  <2> QED
    BY <2>2, <2>6, <2>7 DEF a, s, n
<1> QED
  BY <1>1, <1>4, <1>5

\* An engine that a file, a candle or nothing makes holds the structure of its candles.
LEMMA StructureOfNone == StructureFollows(NoEngine)
<1>1. <<>> \in Seq(ParsedRows) /\ Len(<<>>) = 0
  BY EmptySeq
<1> QED
  BY <1>1 DEF StructureFollows, NoEngine

\* The structure of an engine built from rows.
LEMMA StructureOfBuilt ==
    ASSUME NEW cs \in Seq(AllRows)
    PROVE  StructureFollows(Initialize(cs))
<1> DEFINE e == Initialize(cs)
<1>1. Len(cs) \in Nat /\ (cs # <<>> => Len(cs) > 0)
  BY LenProperties, EmptySeq
<1>2. CASE cs = <<>>
  BY <1>2, InitializeFields, StructureOfNone
<1>3. CASE cs # <<>> /\ Enough(Len(cs))
  <2>1. /\ e.candles = cs /\ e.parsed = Series(cs)
        /\ e.internal = DetectAll(Series(cs), InternalLength).d
        /\ e.swing = DetectAll(Series(cs), SwingLength).d
    BY <1>3, InitializeFields
  <2> HIDE DEF e
  <2>2. Series(cs) \in Seq(ParsedRows) /\ Len(Series(cs)) = Len(cs)
    BY SeriesFacts
  <2>3. Rebuilt(e)
    BY <1>3, <2>1 DEF Rebuilt
  <2>4. StructureFollows(e)
    BY <1>1, <1>3, <2>1, <2>2, <2>3 DEF StructureFollows
  <2> QED
    BY <2>4 DEF e
<1>4. CASE cs # <<>> /\ ~Enough(Len(cs))
  <2>1. e.candles = cs /\ e.parsed = <<>>
    BY <1>4, InitializeFields
  <2> HIDE DEF e
  <2>2. <<>> \in Seq(ParsedRows) /\ Len(<<>>) = 0
    BY EmptySeq
  <2>3. Len(e.parsed) < Len(e.candles)
    BY <1>1, <1>4, <2>1, <2>2
  <2>4. StructureFollows(e)
    BY <1>1, <1>4, <2>1, <2>2, <2>3 DEF StructureFollows
  <2> QED
    BY <2>4 DEF e
<1> QED
  BY <1>2, <1>3, <1>4

\* The structure of an engine that takes one more candle.
LEMMA StructureOfNext ==
    ASSUME NEW e, IsEngine(e), e.candles \in Seq(AllRows), e.candles # <<>>,
           StructureFollows(e), NEW c \in AllRows
    PROVE  StructureFollows(ProcessCandle(e, c))
<1> DEFINE p == ProcessCandle(e, c)
           n == Len(e.candles)
           m == Len(e.parsed)
           bar == Parsed(c, n + 1)
           parsed == Append(e.parsed, bar)
<1>1. /\ n \in Nat /\ n > 0 /\ m \in Nat /\ m <= n /\ e.parsed \in Seq(ParsedRows)
      /\ m = n => Rebuilt(e)
  BY LenProperties, EmptySeq DEF StructureFollows
<1>2. bar \in ParsedRows
  BY <1>1 DEF ParsedRows
<1>3. Append(e.candles, c) # <<>> /\ Len(Append(e.candles, c)) = n + 1
  <2>1. Len(Append(e.candles, c)) = n + 1 /\ Append(e.candles, c) \in Seq(AllRows)
    BY LenProperties, AppendProperties
  <2> HIDE DEF n
  <2>2. Len(Append(e.candles, c)) # 0
    BY <1>1, <2>1
  <2> QED
    BY <2>1, <2>2, EmptySeq
<1>4. parsed \in Seq(ParsedRows) /\ Len(parsed) = m + 1
  BY <1>1, <1>2
<1>5. /\ p.candles = Append(e.candles, c)
      /\ ~Enough(n + 1) => p.parsed = e.parsed
      /\ Enough(n + 1) =>
           /\ p.parsed = parsed
           /\ p.internal = DetectorStep(e.internal, parsed, InternalLength).d
           /\ p.swing = DetectorStep(e.swing, parsed, SwingLength).d
  <2> DEFINE at == Len(Append(e.candles, c))
             now1 == Append(e.parsed, Parsed(c, at))
  <2>1. /\ p.candles = Append(e.candles, c)
        /\ ~Enough(at) => p.parsed = e.parsed
        /\ Enough(at) =>
             /\ p.parsed = now1
             /\ p.internal = DetectorStep(e.internal, now1, InternalLength).d
             /\ p.swing = DetectorStep(e.swing, now1, SwingLength).d
    <3>1. TakesCandle(e, c, p)
      BY ProcessCandleFields
    <3> QED
      BY <3>1 DEF TakesCandle
  <2> HIDE DEF p, n, at
  <2>2. at = n + 1
    BY <1>3 DEF at
  <2>3. now1 = parsed
    BY <2>2
  <2> HIDE DEF now1, parsed
  <2> QED
    BY <2>1, <2>2, <2>3
<1>6. AtrPeriod \in Nat
  BY EngineAssumption
<1> HIDE DEF p, n, bar, parsed
<1>7. CASE ~Enough(n + 1)
  <2>1. p.parsed = e.parsed /\ Len(p.candles) = n + 1
    BY <1>3, <1>5, <1>7
  <2> HIDE DEF m
  <2>2. Len(p.parsed) = m
    BY <2>1 DEF m
  <2> QED
    BY <1>1, <1>3, <1>5, <2>1, <2>2 DEF StructureFollows, p
<1>8. CASE Enough(n + 1)
  <2> HIDE DEF m
  <2>1. /\ p.parsed = parsed /\ Len(p.parsed) = m + 1 /\ Len(p.candles) = n + 1
        /\ p.parsed \in Seq(ParsedRows)
    BY <1>3, <1>4, <1>5, <1>8
  <2>2. ASSUME m = n PROVE Rebuilt(p)
    <3>1. /\ e.parsed = Series(e.candles)
          /\ e.internal = DetectAll(e.parsed, InternalLength).d
          /\ e.swing = DetectAll(e.parsed, SwingLength).d
      BY <1>1, <2>2 DEF Rebuilt
    <3>2. p.parsed = Series(p.candles)
      BY <1>5, <2>1, <3>1, SeriesFacts DEF parsed, bar, n
    <3>3. /\ DetectAll(parsed, InternalLength).d
                 = DetectorStep(DetectAll(e.parsed, InternalLength).d, parsed, InternalLength).d
          /\ DetectAll(parsed, SwingLength).d
                 = DetectorStep(DetectAll(e.parsed, SwingLength).d, parsed, SwingLength).d
      BY <1>1, <1>2, DetectAllAppend DEF parsed
    <3>4. /\ p.internal = DetectAll(p.parsed, InternalLength).d
          /\ p.swing = DetectAll(p.parsed, SwingLength).d
      BY <1>5, <1>8, <2>1, <3>1, <3>3
    <3> QED
      BY <1>8, <2>1, <3>2, <3>4 DEF Rebuilt
  <2>3. Len(p.parsed) <= Len(p.candles) /\ (Len(p.parsed) = Len(p.candles) => m = n)
    BY <1>1, <2>1
  <2>4. StructureFollows(p)
    BY <1>3, <1>5, <2>1, <2>2, <2>3 DEF StructureFollows
  <2> QED
    BY <2>4 DEF p
<1> QED
  BY <1>7, <1>8

\* The engine's structure follows its candles, on top of the invariant of the files.
\* The strengthening of RestartRebuildsStructure that every step keeps.
StructureInv == StructureFollows(engine)

\* Every step keeps it: the engine is left alone, lost, built from the file or fed.
LEMMA StructureStep == FeedInv /\ StructureInv /\ [Next]_vars => StructureInv'
<1> SUFFICES ASSUME FeedInv, StructureInv, [Next]_vars PROVE StructureFollows(engine')
  BY DEF StructureInv
<1>1. Typed /\ HandlersInPhase /\ FilesAreGenuine /\ now \in Nat
  BY DEF FeedInv, Typed, TapeTyped
<1>2. CASE engine' = engine
  BY <1>2 DEF StructureInv
<1>3. CASE engine' = NoEngine
  BY <1>3, StructureOfNone
<1>4. CASE engine' = Initialize(Rows(csv))
  <2>1. Rows(csv) \in Seq(AllRows)
    BY <1>1, GenuineRows DEF FilesAreGenuine
  <2> QED
    BY <1>4, <2>1, StructureOfBuilt
<1>5. CASE CanFeed /\ engine' = ProcessNew(engine, Head(job.feed))
  <2> DEFINE c == Head(job.feed)
  <2>1. c \in AllRows
    BY <1>1, <1>5, FeedFacts
  <2>2. IsEngine(engine) /\ engine.candles \in Seq(AllRows)
    BY <1>1 DEF Typed, EngineTyped, IsEngine
  <2>3. engine' = IF engine.ready /\ c.hour > engine.last
                  THEN ProcessCandle(engine, c) ELSE engine
    BY <1>5 DEF ProcessNew
  <2> HIDE DEF c
  <2>4. CASE engine.ready /\ c.hour > engine.last
    <3>1. engine.candles # <<>>
      BY <2>4 DEF StructureInv, StructureFollows
    <3> QED
      BY <2>1, <2>2, <2>3, <2>4, <3>1, StructureOfNext DEF StructureInv
  <2>5. CASE ~(engine.ready /\ c.hour > engine.last)
    BY <2>3, <2>5 DEF StructureInv
  <2> QED
    BY <2>4, <2>5
<1> QED
  BY <1>1, <1>2, <1>3, <1>4, <1>5, EngineMove DEF EngineMoves

\* The running engine, fed candle by candle, holds the parsed series and the detectors a
\* whole run over its candles gives, unless it began on too short a history, which it
\* never makes up for (IncrementalSMCEngine._process_candle, _initialize_from_candles).
THEOREM StructureInvariance == Spec => []StructureInv
<1>1. Init => StructureInv
  BY StructureOfNone DEF Init, StructureInv
<1>2. FeedInv /\ StructureInv /\ [Next]_vars => StructureInv'
  BY StructureStep
<1> QED
  BY <1>1, <1>2, FeedInvariance, PTL DEF Spec

\* Restart-safe: an engine built now from the candles the running one has taken holds the
\* same parsed series and the same structure (header of incremental_engine.py), whatever
\* was lost, backfilled, repeated or corrected on the way; its order blocks may differ.
THEOREM RestartRebuilds == Spec => []RestartRebuildsStructure
<1>1. FeedInv /\ StructureInv => RestartRebuildsStructure
  <2> SUFFICES ASSUME StructureInv, engine.candles # <<>>,
                      Len(engine.parsed) = Len(engine.candles)
               PROVE  /\ Initialize(engine.candles).parsed = engine.parsed
                      /\ Initialize(engine.candles).internal = engine.internal
                      /\ Initialize(engine.candles).swing = engine.swing
    BY DEF RestartRebuildsStructure
  <2>1. Rebuilt(engine)
    BY DEF StructureInv, StructureFollows
  <2> QED
    BY <2>1, InitializeFields DEF Rebuilt
<1> QED
  BY <1>1, FeedInvariance, StructureInvariance, PTL

-----------------------------------------------------------------------------
(* Sequences whose elements are of no set given beforehand.                *)

\* The elements of a sequence, and what a sequence of anything is.
Elements(s) == {s[i] : i \in DOMAIN s}
IsSeq(s) == \E n \in Nat : s = [i \in 1..n |-> s[i]]

\* A sequence is one over its elements, and conversely.
LEMMA SeqFacts ==
    /\ \A s : IsSeq(s) => s \in Seq(Elements(s)) /\ Len(s) \in Nat /\ DOMAIN s = 1..Len(s)
    /\ \A V : \A s \in Seq(V) : IsSeq(s) /\ Elements(s) \subseteq V
    /\ IsSeq(<<>>) /\ Elements(<<>>) = {} /\ Len(<<>>) = 0
<1>1. ASSUME NEW s, IsSeq(s)
      PROVE  s \in Seq(Elements(s)) /\ Len(s) \in Nat /\ DOMAIN s = 1..Len(s)
  <2>1. PICK n \in Nat : s = [i \in 1..n |-> s[i]]
    BY <1>1 DEF IsSeq
  <2>2. DOMAIN s = 1..n
    BY <2>1
  <2>3. \A i \in 1..n : s[i] \in Elements(s)
    BY <2>2 DEF Elements
  <2>4. s \in Seq(Elements(s))
    BY <2>1, <2>3
  <2> QED
    BY <2>4, LenProperties
<1>2. ASSUME NEW V, NEW s \in Seq(V) PROVE IsSeq(s) /\ Elements(s) \subseteq V
  <2>1. Len(s) \in Nat /\ s = [i \in 1..Len(s) |-> s[i]] /\ DOMAIN s = 1..Len(s)
        /\ \A i \in 1..Len(s) : s[i] \in V
    BY LenProperties, ElementOfSeq
  <2> QED
    BY <2>1, Zenon DEF IsSeq, Elements
<1>3. Elements(<<>>) = {} /\ <<>> \in Seq({}) /\ Len(<<>>) = 0
  BY EmptySeq DEF Elements
<1> QED
  BY <1>1, <1>2, <1>3

\* Joining two sequences joins their elements.
LEMMA JoinFacts ==
    ASSUME NEW s, IsSeq(s), NEW t, IsSeq(t)
    PROVE  IsSeq(s \o t) /\ Elements(s \o t) \subseteq Elements(s) \cup Elements(t)
<1> DEFINE V == Elements(s) \cup Elements(t)
<1>1. s \in Seq(Elements(s)) /\ t \in Seq(Elements(t))
  BY SeqFacts
<1>2. Elements(s) \subseteq V /\ Elements(t) \subseteq V
  OBVIOUS
<1> HIDE DEF V
<1>3. s \in Seq(V) /\ t \in Seq(V)
  BY <1>1, <1>2
<1>4. s \o t \in Seq(V)
  BY <1>3
<1> QED
  BY <1>4, SeqFacts DEF V

\* f joins the first n parts.
IsJoin(f, parts, n) ==
    f = [i \in 1..n |-> IF i = 1 THEN parts[i] ELSE f[i - 1] \o parts[i]]

\* The parts can be joined, however many there are.
LEMMA JoinExists ==
    ASSUME NEW parts
    PROVE  \A n \in Nat : \E f : IsJoin(f, parts, n)
<1> DEFINE T == {n \in Nat : ~ \E f : IsJoin(f, parts, n)}
<1> SUFFICES ASSUME T # {} PROVE FALSE
  OBVIOUS
<1>1. PICK m \in T : \A k \in T : m <= k
  BY LeastExists
<1>2. m \in Nat /\ ~ \E f : IsJoin(f, parts, m)
  OBVIOUS
<1>3. CASE m = 0
  <2> DEFINE g == [i \in 1..m |-> 0]
  <2>1. 1..m = {}
    BY <1>3
  <2>2. IsJoin(g, parts, m)
    BY <2>1 DEF IsJoin
  <2> QED
    BY <1>2, <2>2
<1>4. CASE m # 0
  <2> DEFINE n == m - 1
  <2>1. n \in Nat /\ n + 1 = m
    BY <1>2, <1>4
  <2>2. n \notin T
    BY <1>1, <2>1
  <2>3. PICK f : IsJoin(f, parts, n)
    BY <2>1, <2>2
  <2> HIDE DEF n, T
  <2> DEFINE F(h, i) == IF i = 1 THEN parts[i] ELSE h[i - 1] \o parts[i]
             g == [i \in 1..m |-> F(f, i)]
  <2>4. \A i \in 1..n : f[i] = F(f, i)
    BY <2>3 DEF IsJoin
  <2>5. ASSUME NEW i \in 1..m PROVE g[i] = F(g, i)
    <3>1. CASE i = 1
      BY <3>1
    <3>2. CASE i # 1
      <4>1. i - 1 \in 1..n /\ i - 1 \in 1..m
        BY <2>1, <3>2
      <4>2. g[i - 1] = f[i - 1]
        BY <2>4, <4>1
      <4>3. g[i] = f[i - 1] \o parts[i]
        BY <3>2
      <4> HIDE DEF g
      <4> QED
        BY <3>2, <4>2, <4>3
    <3> QED
      BY <3>1, <3>2
  <2>6. g = [i \in 1..m |-> g[i]]
    OBVIOUS
  <2> HIDE DEF g
  <2>7. g = [i \in 1..m |-> F(g, i)]
    BY <2>5, <2>6
  <2>8. IsJoin(g, parts, m)
    BY <2>7 DEF IsJoin
  <2> QED
    BY <1>2, <2>8
<1> QED
  BY <1>3, <1>4

\* A flattened sequence has the elements of its parts.
LEMMA FlattenFacts ==
    ASSUME NEW V, NEW parts \in Seq(Seq(V))
    PROVE  FlattenSeq(parts) \in Seq(V)
<1> DEFINE n == Len(parts)
<1>1. n \in Nat /\ \A i \in 1..n : parts[i] \in Seq(V)
  BY LenProperties, ElementOfSeq
<1>2. CASE n = 0
  <2>1. FlattenSeq(parts) = parts /\ parts = <<>>
    BY <1>2, EmptySeq DEF FlattenSeq
  <2> QED
    BY <2>1
<1>3. CASE n # 0
  <2> DEFINE f == CHOOSE g : IsJoin(g, parts, n)
  <2>1. FlattenSeq(parts) = f[n]
    BY <1>3 DEF FlattenSeq, IsJoin
  <2> HIDE DEF n
  <2>2. IsJoin(f, parts, n)
    BY <1>1, JoinExists
  <2> HIDE DEF f
  <2>3. \A i \in 1..n : f[i] = IF i = 1 THEN parts[i] ELSE f[i - 1] \o parts[i]
    BY <2>2 DEF IsJoin
  <2> DEFINE T == {i \in 1..n : f[i] \notin Seq(V)}
  <2>4. ASSUME T # {} PROVE FALSE
    <3>1. T \in SUBSET Nat
      BY <1>1
    <3>2. PICK m \in T : \A k \in T : m <= k
      BY <2>4, <3>1, LeastExists
    <3>3. m \in 1..n /\ f[m] \notin Seq(V)
      OBVIOUS
    <3>4. m # 1
      BY <1>1, <2>3, <3>3
    <3>5. m - 1 \in 1..n /\ m - 1 < m
      BY <1>1, <3>3, <3>4
    <3>6. f[m - 1] \in Seq(V)
      BY <1>1, <3>2, <3>5
    <3> HIDE DEF T
    <3>7. f[m - 1] \o parts[m] \in Seq(V)
      BY <1>1, <3>3, <3>6
    <3> QED
      BY <2>3, <3>3, <3>4, <3>7
  <2>5. n \in 1..n
    BY <1>1, <1>3
  <2> QED
    BY <2>1, <2>4, <2>5
<1> QED
  BY <1>2, <1>3

-----------------------------------------------------------------------------
(* What a detector breaks, and the block it leaves.                        *)

\* The record of a new block.
NewBlock(parsed, brk, d, scope, live) ==
    LET at == Extreme(parsed, BrokenPivot(brk, d, LengthOf(scope)), brk.at, brk.up)
    IN  [scope |-> scope, up |-> brk.up, type |-> brk.type,
         top |-> parsed[at].high, bottom |-> parsed[at].low,
         brk |-> brk.at, state |-> "FRESH", touches |-> 0, active |-> TRUE, live |-> live]

\* The blocks of some breaks: of those with a candle between the pivot and the break.
NewBlocks(parsed, breaks, d, scope, live) ==
    {NewBlock(parsed, brk, d, scope, live) :
        brk \in {b \in Elements(breaks) : ~(BrokenPivot(b, d, LengthOf(scope)) >= b.at)}}

\* The blocks of a sequence of breaks are a sequence of those.
LEMMA BlocksOfFacts ==
    ASSUME NEW breaks, IsSeq(breaks), NEW parsed, NEW d, NEW scope, NEW live
    PROVE  LET blocks == BlocksOf(parsed, breaks, d, scope, live)
           IN  IsSeq(blocks) /\ Elements(blocks) \subseteq NewBlocks(parsed, breaks, d, scope, live)
<1> DEFINE V == NewBlocks(parsed, breaks, d, scope, live)
           ob(b) == OrderBlock(parsed, b, d, scope, live)
           parts == [i \in DOMAIN breaks |-> ob(breaks[i])]
<1>1. Len(breaks) \in Nat /\ DOMAIN breaks = 1..Len(breaks)
  BY SeqFacts
<1>2. ASSUME NEW b \in Elements(breaks) PROVE ob(b) \in Seq(V)
  <2>1. ob(b) = IF BrokenPivot(b, d, LengthOf(scope)) >= b.at THEN <<>>
                ELSE <<NewBlock(parsed, b, d, scope, live)>>
    BY DEF OrderBlock, NewBlock
  <2>2. CASE BrokenPivot(b, d, LengthOf(scope)) >= b.at
    <3>1. ob(b) = <<>>
      BY <2>1, <2>2
    <3> HIDE DEF ob, V
    <3> QED
      BY <3>1
  <2>3. CASE ~(BrokenPivot(b, d, LengthOf(scope)) >= b.at)
    <3>1. NewBlock(parsed, b, d, scope, live) \in V
      BY <2>3 DEF NewBlocks
    <3>2. ob(b) = <<NewBlock(parsed, b, d, scope, live)>>
      BY <2>1, <2>3
    <3> HIDE DEF ob, V
    <3> QED
      BY <3>1, <3>2
  <2> QED
    BY <2>2, <2>3
<1> HIDE DEF V, ob
<1>3. \A i \in DOMAIN breaks : ob(breaks[i]) \in Seq(V)
  BY <1>2 DEF Elements
<1>4. parts \in Seq(Seq(V))
  BY <1>1, <1>3
<1>5. BlocksOf(parsed, breaks, d, scope, live) = FlattenSeq(parts)
  BY DEF BlocksOf, ob
<1> HIDE DEF parts
<1>6. FlattenSeq(parts) \in Seq(V)
  BY <1>4, FlattenFacts
<1> QED
  BY <1>5, <1>6, SeqFacts DEF V

\* A step of a detector breaks nothing, or what CheckStructureBreaks says of it.
StepOf(step, d, turned, hist, size) ==
    /\ IsSeq(step.breaks)
    /\ Len(hist) <= size => step.d = d /\ step.breaks = <<>>
    /\ ~(Len(hist) <= size) => step = CheckStructureBreaks(turned, hist)
    /\ \A b \in Elements(step.breaks) :
           /\ b.at = Len(hist) /\ b.price = Last(hist).close /\ ~(Len(hist) <= size)
           /\ \/ b.up = TRUE /\ CrossesUp(turned, hist)
              \/ b.up = FALSE /\ CrossesDown(turned, hist)

\* A step of a detector is one of those.
LEMMA StepBreaks ==
    ASSUME NEW d, NEW hist, NEW size
    PROVE  StepOf(DetectorStep(d, hist, size), d, Turned(d, hist, size), hist, size)
<1> DEFINE step == DetectorStep(d, hist, size)
           turned == Turned(d, hist, size)
           up == StructureBreak(turned, hist, TRUE)
           down == StructureBreak(turned, hist, FALSE)
<1>1. /\ up.at = Len(hist) /\ up.price = Last(hist).close /\ up.up = TRUE
      /\ down.at = Len(hist) /\ down.price = Last(hist).close /\ down.up = FALSE
  BY DEF StructureBreak
<1>2. /\ Len(hist) <= size => step.d = d /\ step.breaks = <<>>
      /\ ~(Len(hist) <= size) => step = CheckStructureBreaks(turned, hist)
  BY DEF DetectorStep
<1>3. /\ CrossesUp(turned, hist) => CheckStructureBreaks(turned, hist).breaks = <<up>>
      /\ ~CrossesUp(turned, hist) /\ CrossesDown(turned, hist)
            => CheckStructureBreaks(turned, hist).breaks = <<down>>
      /\ ~CrossesUp(turned, hist) /\ ~CrossesDown(turned, hist)
            => CheckStructureBreaks(turned, hist).breaks = <<>>
  BY DEF CheckStructureBreaks
<1> HIDE DEF step, turned, up, down
<1>4. /\ <<up>> \in Seq({up}) /\ <<down>> \in Seq({down}) /\ <<>> \in Seq({})
  OBVIOUS
<1>5. /\ IsSeq(<<up>>) /\ IsSeq(<<down>>) /\ IsSeq(<<>>) /\ Elements(<<>>) = {}
      /\ Elements(<<up>>) \subseteq {up} /\ Elements(<<down>>) \subseteq {down}
  BY <1>4, SeqFacts
<1>6. CASE Len(hist) <= size
  BY <1>2, <1>5, <1>6 DEF step, turned, StepOf
<1>7. CASE ~(Len(hist) <= size) /\ CrossesUp(turned, hist)
  BY <1>1, <1>2, <1>3, <1>5, <1>7 DEF step, turned, StepOf
<1>8. CASE ~(Len(hist) <= size) /\ ~CrossesUp(turned, hist) /\ CrossesDown(turned, hist)
  BY <1>1, <1>2, <1>3, <1>5, <1>8 DEF step, turned, StepOf
<1>9. CASE ~(Len(hist) <= size) /\ ~CrossesUp(turned, hist) /\ ~CrossesDown(turned, hist)
  BY <1>1, <1>2, <1>3, <1>5, <1>9 DEF step, turned, StepOf
<1> QED
  BY <1>6, <1>7, <1>8, <1>9

\* The breaks of a whole run are a sequence.
LEMMA DetectAllBreaks ==
    ASSUME NEW series, NEW n \in Nat, DOMAIN series = 1..n, NEW size
    PROVE  IsSeq(DetectAll(series, size).breaks)
<1>1. PICK f : IsFold(f, series, size, n) /\ DetectAll(series, size) = f[1..n]
  BY FoldExists, DetectAllFold
<1>2. /\ f[1..0] = NoRun
      /\ \A k \in 1..n : f[1..k] = Detect(series, size, f[1..(k - 1)], k)
  <2>1. IsFold(f, series, size, n)
    BY <1>1
  <2> QED
    BY <2>1, FoldSteps
<1> DEFINE T == {k \in 0..n : ~IsSeq(f[1..k].breaks)}
<1>3. ASSUME T # {} PROVE FALSE
  <2>1. T \in SUBSET Nat
    OBVIOUS
  <2>2. PICK m \in T : \A k \in T : m <= k
    BY <1>3, <2>1, LeastExists
  <2>3. m \in 0..n /\ ~IsSeq(f[1..m].breaks)
    OBVIOUS
  <2>4. m # 0
    BY <1>2, <2>3, SeqFacts DEF NoRun
  <2>5. m \in 1..n /\ m - 1 \in 0..n /\ m - 1 < m
    BY <2>3, <2>4
  <2>6. IsSeq(f[1..(m - 1)].breaks)
    BY <2>2, <2>5
  <2> HIDE DEF T
  <2> DEFINE run == f[1..(m - 1)]
             step == DetectorStep(run.d, SubSeq(series, 1, m), size)
  <2>7. f[1..m] = [d |-> step.d, breaks |-> run.breaks \o step.breaks]
    BY <1>2, <2>5 DEF Detect
  <2>8. IsSeq(step.breaks)
    BY StepBreaks DEF StepOf
  <2> HIDE DEF step, run
  <2> DEFINE joined == run.breaks \o step.breaks
  <2>9. f[1..m].breaks = joined
    <3> HIDE DEF joined
    <3>1. f[1..m] = [d |-> step.d, breaks |-> joined]
      BY <2>7 DEF joined
    <3> QED
      BY <3>1
  <2> QED
    BY <2>3, <2>6, <2>8, <2>9, JoinFacts DEF run
<1>4. n \in 0..n
  OBVIOUS
<1> QED
  BY <1>1, <1>3, <1>4

-----------------------------------------------------------------------------
(* Blocks and how a candle ages them.                                      *)

\* What a block is made of.
BlockFields == {"scope", "up", "type", "top", "bottom", "brk", "state", "touches",
                "active", "live"}
IsBlock(ob) == /\ ob = [f \in BlockFields |-> ob[f]]
               /\ ob.active \in BOOLEAN /\ ob.live \in BOOLEAN

\* A new block is active, and spans the bar at the extreme.
NewBlockIs(ob, b, live, bar) ==
    /\ IsBlock(ob) /\ ob.active = TRUE /\ ob.live = live
    /\ ob.brk = b.at /\ ob.up = b.up /\ ob.top = bar.high /\ ob.bottom = bar.low

\* NewBlock makes one.
LEMMA NewBlockFacts ==
    ASSUME NEW parsed, NEW b, NEW d, NEW scope, NEW live \in BOOLEAN
    PROVE  NewBlockIs(NewBlock(parsed, b, d, scope, live), b, live,
               parsed[Extreme(parsed, BrokenPivot(b, d, LengthOf(scope)), b.at, b.up)])
<1> DEFINE ob == NewBlock(parsed, b, d, scope, live)
           at == Extreme(parsed, BrokenPivot(b, d, LengthOf(scope)), b.at, b.up)
           hi == parsed[at].high
           lo == parsed[at].low
<1>1. ob = [scope |-> scope, up |-> b.up, type |-> b.type, top |-> hi, bottom |-> lo,
            brk |-> b.at, state |-> "FRESH", touches |-> 0, active |-> TRUE, live |-> live]
  BY DEF NewBlock
<1> HIDE DEF ob, hi, lo, at
<1>2. /\ IsBlock(ob) /\ ob.active = TRUE /\ ob.live = live
      /\ ob.brk = b.at /\ ob.up = b.up /\ ob.top = hi /\ ob.bottom = lo
  BY <1>1 DEF IsBlock, BlockFields
<1> QED
  BY <1>2 DEF ob, hi, lo, at, NewBlockIs

\* A candle changes of a block only its state, its touches and whether it is active.
AgedIs(aged, ob, c, at) ==
    /\ IsBlock(aged) /\ aged.live = ob.live /\ aged.brk = ob.brk
    /\ aged.up = ob.up /\ aged.top = ob.top /\ aged.bottom = ob.bottom
    /\ aged.active <=> ob.active /\ ~(ob.brk < at /\ ClosesThrough(ob, c))

\* Aged makes no other change.
LEMMA AgedFacts ==
    ASSUME NEW ob, IsBlock(ob), NEW c, NEW at
    PROVE  AgedIs(Aged(ob, c, at), ob, c, at)
<1> DEFINE Like(x) == /\ x = [f \in BlockFields |-> x[f]] /\ x.live = ob.live /\ x.brk = ob.brk
                      /\ x.up = ob.up /\ x.top = ob.top /\ x.bottom = ob.bottom
           t == CheckTouch(ob, c)
           i == CheckInvalidation(t, c)
<1>1. Like(ob) /\ ob.active \in BOOLEAN /\ ob.live \in BOOLEAN
  BY DEF IsBlock
<1>2. Like(t) /\ t.active = ob.active
  <2>1. t = ob \/ t = [ob EXCEPT !.state = "TOUCHED", !.touches = @ + 1]
    BY DEF CheckTouch
  <2> HIDE DEF t
  <2> QED
    BY <1>1, <2>1 DEF BlockFields
<1>3. ClosesThrough(t, c) <=> ClosesThrough(ob, c)
  BY <1>2 DEF ClosesThrough
<1> HIDE DEF t
<1>4. Like(i) /\ i.active = (t.active /\ ~ClosesThrough(t, c))
  <2>1. CASE ClosesThrough(t, c)
    <3>1. i = [t EXCEPT !.state = "INVALIDATED", !.active = FALSE]
      BY <2>1 DEF CheckInvalidation
    <3> HIDE DEF i
    <3> QED
      BY <1>2, <2>1, <3>1 DEF BlockFields
  <2>2. CASE ~ClosesThrough(t, c)
    <3>1. i = t
      BY <2>2 DEF CheckInvalidation
    <3> HIDE DEF i
    <3> QED
      BY <1>1, <1>2, <2>2, <3>1
  <2> QED
    BY <2>1, <2>2
<1>5. Aged(ob, c, at) = IF ob.active /\ ob.brk < at THEN i ELSE ob
  BY DEF Aged, t
<1> HIDE DEF i
<1>6. CASE ob.active /\ ob.brk < at
  BY <1>1, <1>2, <1>3, <1>4, <1>5, <1>6 DEF IsBlock, AgedIs
<1>7. CASE ~(ob.active /\ ob.brk < at)
  BY <1>1, <1>5, <1>7 DEF IsBlock, AgedIs
<1> QED
  BY <1>6, <1>7

-----------------------------------------------------------------------------
(* A candle that breaks a pivot does not close through the block it leaves.*)

Pivots == [at: Nat, price: Int, crossed: BOOLEAN]
Detectors == [leg: {-1, 0, 1}, high: Pivots, low: Pivots,
              trend: {"RANGING", "BULLISH", "BEARISH"}]

\* A bar whose prices are in order, swapped or not.
OrderedBar(bar) ==
    /\ {bar.low, bar.high, bar.close, bar.parsedLow, bar.parsedHigh} \subseteq Int
    /\ bar.low <= bar.parsedLow /\ bar.parsedLow <= bar.high
    /\ bar.low <= bar.parsedHigh /\ bar.parsedHigh <= bar.high

Ordered(hist) == /\ hist \in Seq(ParsedRows)
                 /\ \A i \in DOMAIN hist : OrderedBar(hist[i])

\* The pivots of a detector are prices of the first n bars.
PivotsAre(d, hist, n) ==
    /\ d \in Detectors
    /\ d.high.at # 0 => d.high.at \in 1..n /\ d.high.price = hist[d.high.at].high
    /\ d.low.at # 0 => d.low.at \in 1..n /\ d.low.price = hist[d.low.at].low

\* Among the values of some consecutive places one is the first least.
LEMMA FirstLeast ==
    ASSUME NEW a \in Nat, NEW v
    PROVE  \A n \in Nat : n # 0 /\ (\A i \in a..(a + n - 1) : v[i] \in Int) =>
               \E i \in a..(a + n - 1) : \A j \in a..(a + n - 1) :
                   v[i] <= v[j] /\ (j < i => v[i] < v[j])
<1> DEFINE Has(n) == \E i \in a..(a + n - 1) : \A j \in a..(a + n - 1) :
                         v[i] <= v[j] /\ (j < i => v[i] < v[j])
           Ints(n) == \A i \in a..(a + n - 1) : v[i] \in Int
           T == {n \in Nat : n # 0 /\ Ints(n) /\ ~Has(n)}
<1> SUFFICES ASSUME T # {} PROVE FALSE
  OBVIOUS
<1>1. PICK m \in T : \A k \in T : m <= k
  BY LeastExists
<1>2. m \in Nat /\ m # 0 /\ Ints(m) /\ ~Has(m)
  OBVIOUS
<1>3. \A n \in Nat : n # 0 /\ Ints(n) /\ ~Has(n) => m <= n
  BY <1>1
<1> HIDE DEF T
<1>4. CASE m = 1
  <2>1. a + m - 1 = a
    BY <1>4
  <2>2. \A i \in a..a : i = a
    OBVIOUS
  <2>3. a \in a..a /\ v[a] \in Int
    BY <1>2, <2>1
  <2>4. \E i \in a..a : \A j \in a..a : v[i] <= v[j] /\ (j < i => v[i] < v[j])
    BY <2>2, <2>3
  <2> QED
    BY <1>2, <2>1, <2>4
<1>5. CASE m # 1
  <2> DEFINE n == m - 1
             z == a + m - 1
             y == a + n - 1
  <2>1. /\ n \in Nat /\ n # 0 /\ n < m /\ ~(m <= n) /\ z \in Nat /\ y \in Int
        /\ y + 1 = z /\ a <= z
    BY <1>2, <1>5
  <2>3. Ints(m) <=> \A i \in a..z : v[i] \in Int
    OBVIOUS
  <2>4. Ints(n) <=> \A i \in a..y : v[i] \in Int
    OBVIOUS
  <2>5. Has(m) <=> \E i \in a..z : \A j \in a..z : v[i] <= v[j] /\ (j < i => v[i] < v[j])
    OBVIOUS
  <2>6. Has(n) <=> \E i \in a..y : \A j \in a..y : v[i] <= v[j] /\ (j < i => v[i] < v[j])
    OBVIOUS
  <2> HIDE DEF n, z, y, Has, Ints
  <2>7. /\ \A i \in a..z : i = z \/ i \in a..y
        /\ \A i \in a..y : i \in a..z /\ i < z
        /\ z \in a..z
    BY <2>1
  <2>8. \A j \in a..z : v[j] \in Int
    BY <1>2, <2>3
  <2>9. Has(n)
    BY <1>3, <2>1, <2>4, <2>7, <2>8
  <2>10. PICK i \in a..y : \A j \in a..y : v[i] <= v[j] /\ (j < i => v[i] < v[j])
    BY <2>6, <2>9
  <2>11. i \in a..z /\ i < z /\ v[i] \in Int /\ v[z] \in Int
    BY <2>7, <2>8
  <2>12. \E k \in a..z : \A j \in a..z : v[k] <= v[j] /\ (j < k => v[k] < v[j])
    <3>1. CASE v[z] < v[i]
      <4>1. ASSUME NEW j \in a..z PROVE v[z] <= v[j] /\ (j < z => v[z] < v[j])
        <5>1. CASE j = z
          BY <2>1, <2>11, <5>1
        <5>2. CASE j \in a..y
          <6>1. v[i] <= v[j] /\ v[j] \in Int
            BY <2>8, <2>10, <5>2
          <6> QED
            BY <2>11, <3>1, <6>1
        <5> QED
          BY <2>7, <5>1, <5>2
      <4> QED
        BY <2>7, <4>1
    <3>2. CASE ~(v[z] < v[i])
      <4>1. ASSUME NEW j \in a..z PROVE v[i] <= v[j] /\ (j < i => v[i] < v[j])
        <5>1. CASE j = z
          <6>1. ~(j < i)
            BY <2>1, <2>11, <5>1
          <6> QED
            BY <2>11, <3>2, <5>1, <6>1
        <5>2. CASE j \in a..y
          BY <2>10, <5>2
        <5> QED
          BY <2>7, <5>1, <5>2
      <4> QED
        BY <2>11, <4>1
    <3> QED
      BY <3>1, <3>2
  <2> QED
    BY <1>2, <2>5, <2>12
<1> QED
  BY <1>4, <1>5

\* The extreme between the pivot and the break lies between them, and is none above it.
LEMMA ExtremeFacts ==
    ASSUME NEW hist, Ordered(hist), NEW from \in 1..Len(hist), from < Len(hist), NEW up \in BOOLEAN
    PROVE  LET at == Extreme(hist, from, Len(hist), up)
           IN  /\ at \in 1..Len(hist)
               /\ up => hist[at].parsedLow <= hist[from].parsedLow
               /\ ~up => hist[from].parsedHigh <= hist[at].parsedHigh
<1> DEFINE n == Len(hist)
           v == [i \in from..(n - 1) |-> IF up THEN hist[i].parsedLow ELSE -hist[i].parsedHigh]
           at == Extreme(hist, from, n, up)
<1>1. n \in Nat /\ DOMAIN hist = 1..n /\ from \in Nat /\ from # 0 /\ from < n
  BY LenProperties DEF Ordered
<1>2. \A i \in 1..n : hist[i].parsedLow \in Int /\ hist[i].parsedHigh \in Int
  BY <1>1 DEF Ordered, OrderedBar
<1>3. at = CHOOSE i \in from..(n - 1) : \A j \in from..(n - 1) :
               /\ (IF up THEN hist[i].parsedLow ELSE -hist[i].parsedHigh)
                      <= (IF up THEN hist[j].parsedLow ELSE -hist[j].parsedHigh)
               /\ j < i => (IF up THEN hist[i].parsedLow ELSE -hist[i].parsedHigh)
                               < (IF up THEN hist[j].parsedLow ELSE -hist[j].parsedHigh)
  BY DEF Extreme
<1> HIDE DEF n
<1>4. \A i \in from..(n - 1) :
          /\ v[i] = IF up THEN hist[i].parsedLow ELSE -hist[i].parsedHigh
          /\ v[i] \in Int /\ i \in 1..n
  <2>1. \A i \in from..(n - 1) : i \in 1..n
    BY <1>1
  <2> QED
    BY <1>2, <2>1
<1> DEFINE k == n - from
<1>5. k \in Nat /\ k # 0 /\ from + k - 1 = n - 1
  BY <1>1
<1> HIDE DEF v, at, k
<1>6. \E i \in from..(n - 1) : \A j \in from..(n - 1) :
          v[i] <= v[j] /\ (j < i => v[i] < v[j])
  <2>1. k # 0 /\ (\A i \in from..(from + k - 1) : v[i] \in Int) =>
            \E i \in from..(from + k - 1) : \A j \in from..(from + k - 1) :
                v[i] <= v[j] /\ (j < i => v[i] < v[j])
    BY <1>1, <1>5, FirstLeast
  <2> QED
    BY <1>4, <1>5, <2>1
<1>7. at \in from..(n - 1) /\ \A j \in from..(n - 1) :
          (IF up THEN hist[at].parsedLow ELSE -hist[at].parsedHigh)
              <= (IF up THEN hist[j].parsedLow ELSE -hist[j].parsedHigh)
  <2>1. \E i \in from..(n - 1) : \A j \in from..(n - 1) :
            /\ (IF up THEN hist[i].parsedLow ELSE -hist[i].parsedHigh)
                   <= (IF up THEN hist[j].parsedLow ELSE -hist[j].parsedHigh)
            /\ j < i => (IF up THEN hist[i].parsedLow ELSE -hist[i].parsedHigh)
                            < (IF up THEN hist[j].parsedLow ELSE -hist[j].parsedHigh)
    BY <1>4, <1>6
  <2> QED
    BY <1>3, <2>1
<1>8. from \in from..(n - 1) /\ at \in 1..n
  BY <1>1, <1>4, <1>7
<1>9. (IF up THEN hist[at].parsedLow ELSE -hist[at].parsedHigh)
          <= (IF up THEN hist[from].parsedLow ELSE -hist[from].parsedHigh)
  BY <1>7, <1>8
<1>10. /\ hist[at].parsedLow \in Int /\ hist[at].parsedHigh \in Int
       /\ hist[from].parsedLow \in Int /\ hist[from].parsedHigh \in Int
  BY <1>1, <1>2, <1>8
<1> QED
  BY <1>8, <1>9, <1>10 DEF at, n

\* A turning leg leaves a pivot among the bars before the last.
LEMMA TurnedFacts ==
    ASSUME NEW hist, Ordered(hist), NEW size \in Nat \ {0}, ~(Len(hist) <= size),
           NEW d, PivotsAre(d, hist, Len(hist) - 1)
    PROVE  PivotsAre(Turned(d, hist, size), hist, Len(hist) - 1)
<1> DEFINE n == Len(hist)
           at == n - size
           leg == NewLeg(hist, size)
           t == Turned(d, hist, size)
           high == IF d.leg = 1 /\ leg = -1
                   THEN [at |-> at, price |-> hist[at].high, crossed |-> FALSE] ELSE d.high
           low == IF d.leg = -1 /\ leg = 1
                  THEN [at |-> at, price |-> hist[at].low, crossed |-> FALSE] ELSE d.low
<1>1. n \in Nat /\ DOMAIN hist = 1..n
  BY LenProperties DEF Ordered
<1>2. at \in Nat /\ at # 0 /\ at \in 1..(n - 1) /\ at \in 1..n
  <2>1. ~(n <= size)
    OBVIOUS
  <2> HIDE DEF n
  <2>2. size \in Nat /\ size # 0 /\ size < n
    BY <1>1, <2>1
  <2>3. n - size \in Nat /\ 0 < n - size /\ n - size <= n - 1
    BY <1>1, <2>2
  <2>4. at \in Nat /\ 0 < at /\ at <= n - 1
    BY <2>3
  <2> HIDE DEF at
  <2> QED
    BY <1>1, <2>4
<1>3. hist[at].high \in Int /\ hist[at].low \in Int
  BY <1>1, <1>2 DEF Ordered, OrderedBar
<1>4. leg \in {-1, 0, 1}
  BY DEF NewLeg
<1>5. t = IF leg \in {0, d.leg} THEN d ELSE [d EXCEPT !.leg = leg, !.high = high, !.low = low]
  BY DEF Turned, OnLegChange
<1>6. high \in Pivots /\ low \in Pivots
  <2>1. d.high \in Pivots /\ d.low \in Pivots
    BY DEF PivotsAre, Detectors
  <2>2. /\ [at |-> at, price |-> hist[at].high, crossed |-> FALSE] \in Pivots
        /\ [at |-> at, price |-> hist[at].low, crossed |-> FALSE] \in Pivots
    BY <1>2, <1>3 DEF Pivots
  <2> HIDE DEF at, leg
  <2> QED
    BY <2>1, <2>2
<1>7. /\ high.at # 0 => high.at \in 1..(n - 1) /\ high.price = hist[high.at].high
      /\ low.at # 0 => low.at \in 1..(n - 1) /\ low.price = hist[low.at].low
  <2>1. /\ d.high.at # 0 => d.high.at \in 1..(n - 1) /\ d.high.price = hist[d.high.at].high
        /\ d.low.at # 0 => d.low.at \in 1..(n - 1) /\ d.low.price = hist[d.low.at].low
    BY DEF PivotsAre
  <2> DEFINE newHigh == [at |-> at, price |-> hist[at].high, crossed |-> FALSE]
             newLow == [at |-> at, price |-> hist[at].low, crossed |-> FALSE]
  <2>2. /\ newHigh.at = at /\ newHigh.price = hist[at].high
        /\ newLow.at = at /\ newLow.price = hist[at].low
    OBVIOUS
  <2>3. high \in {newHigh, d.high} /\ low \in {newLow, d.low}
    OBVIOUS
  <2> HIDE DEF newHigh, newLow, high, low, at, n, leg
  <2> QED
    BY <1>2, <2>1, <2>2, <2>3
<1> HIDE DEF high, low, leg, t, at, n
<1>8. CASE leg \in {0, d.leg}
  BY <1>5, <1>8 DEF t, n
<1>9. CASE ~(leg \in {0, d.leg})
  <2>1. t = [d EXCEPT !.leg = leg, !.high = high, !.low = low]
    BY <1>5, <1>9
  <2>2. t \in Detectors /\ t.high = high /\ t.low = low
    BY <1>4, <1>6, <2>1 DEF PivotsAre, Detectors
  <2>3. PivotsAre(t, hist, n - 1)
    BY <1>7, <2>2 DEF PivotsAre
  <2> QED
    BY <2>3 DEF t, n
<1> QED
  BY <1>8, <1>9

\* Crossing a pivot leaves the pivots where they are.
LEMMA ChecksFacts ==
    ASSUME NEW hist, NEW n, NEW d, PivotsAre(d, hist, n)
    PROVE  LET e == CheckStructureBreaks(d, hist).d
           IN  /\ PivotsAre(e, hist, n)
               /\ e.high.at = d.high.at /\ e.high.price = d.high.price
               /\ e.low.at = d.low.at /\ e.low.price = d.low.price
<1> DEFINE e == CheckStructureBreaks(d, hist).d
           high == [d.high EXCEPT !.crossed = TRUE]
           low == [d.low EXCEPT !.crossed = TRUE]
<1>1. d \in Detectors /\ d.high \in Pivots /\ d.low \in Pivots
  BY DEF PivotsAre, Detectors
<1>2. /\ high \in Pivots /\ high.at = d.high.at /\ high.price = d.high.price
      /\ low \in Pivots /\ low.at = d.low.at /\ low.price = d.low.price
  BY <1>1 DEF Pivots
<1>3. \/ e = [d EXCEPT !.high = high, !.trend = "BULLISH"]
      \/ e = [d EXCEPT !.low = low, !.trend = "BEARISH"]
      \/ e = d
  BY DEF CheckStructureBreaks
<1> HIDE DEF e, high, low
<1>4. e \in Detectors /\ e.high \in {d.high, high} /\ e.low \in {d.low, low}
  BY <1>1, <1>2, <1>3 DEF Detectors
<1> QED
  BY <1>2, <1>4 DEF PivotsAre, e

\* A bar is its candle with two prices more, in order when the candle's are.
LEMMA ParsedFacts ==
    ASSUME NEW c \in AllRows, NEW i
    PROVE  /\ Parsed(c, i).close = c.close
           /\ InOrder(c) => OrderedBar(Parsed(c, i))
<1> DEFINE bar == Parsed(c, i)
<1>1. PICK candle \in Candles, h \in Nat : c = Row(candle, h)
  BY DEF AllRows
<1>2. /\ DOMAIN c = CandleFields \cup {"hour"}
      /\ \A f \in CandleFields : c[f] = candle[f]
  BY <1>1 DEF Row, Candles, CandleFields
<1>3. /\ candle.low \in Int /\ candle.high \in Int /\ candle.close \in Int
      /\ candle.wild \in BOOLEAN
  BY DEF Candles
<1>4. c.low \in Int /\ c.high \in Int /\ c.close \in Int
  BY <1>2, <1>3 DEF CandleFields
<1> DEFINE fields == {"parsedHigh", "parsedLow"}
           hi == IF c.wild /\ i >= AtrPeriod THEN c.low ELSE c.high
           lo == IF c.wild /\ i >= AtrPeriod THEN c.high ELSE c.low
           g == [parsedHigh |-> hi, parsedLow |-> lo]
<1>5. bar = Over(c, g)
  BY DEF Parsed
<1>6. DOMAIN g = fields /\ g["parsedHigh"] = hi /\ g["parsedLow"] = lo
      /\ hi \in {c.low, c.high} /\ lo \in {c.low, c.high}
  OBVIOUS
<1> HIDE DEF bar, hi, lo, g
<1>7. /\ bar.low = c.low /\ bar.high = c.high /\ bar.close = c.close
      /\ bar.parsedHigh = hi /\ bar.parsedLow = lo
  BY <1>2, <1>5, <1>6 DEF CandleFields, Over
<1>8. ASSUME InOrder(c) PROVE OrderedBar(bar)
  <2>1. c.low <= c.high
    BY <1>4, <1>8 DEF InOrder
  <2> QED
    BY <1>4, <1>6, <1>7, <2>1 DEF OrderedBar
<1> QED
  BY <1>7, <1>8 DEF bar

\* The candle that breaks a pivot does not close through the block the break leaves.
LEMMA BreakClears ==
    ASSUME NEW hist, Ordered(hist), NEW scope \in Scopes, NEW d,
           PivotsAre(d, hist, Len(hist) - 1), LengthOf(scope) \in Nat \ {0},
           NEW ob \in NewBlocks(hist, DetectorStep(d, hist, LengthOf(scope)).breaks,
                                DetectorStep(d, hist, LengthOf(scope)).d, scope, TRUE),
           NEW c, c.close = Last(hist).close
    PROVE  ~ClosesThrough(ob, c)
<1> DEFINE n == Len(hist)
           size == LengthOf(scope)
           step == DetectorStep(d, hist, size)
           t == Turned(d, hist, size)
           e == step.d
<1>1. n \in Nat /\ DOMAIN hist = 1..n /\ \A i \in 1..n : OrderedBar(hist[i])
  BY LenProperties DEF Ordered
<1>2. PICK b \in Elements(step.breaks) : ob = NewBlock(hist, b, e, scope, TRUE)
  <2>1. ob \in NewBlocks(hist, step.breaks, e, scope, TRUE)
    OBVIOUS
  <2> HIDE DEF step, e
  <2> QED
    BY <2>1 DEF NewBlocks
<1>3. /\ b.at = n /\ b.price = Last(hist).close /\ ~(n <= size)
      /\ \/ b.up = TRUE /\ CrossesUp(t, hist)
         \/ b.up = FALSE /\ CrossesDown(t, hist)
      /\ step = CheckStructureBreaks(t, hist)
  <2>1. StepOf(step, d, t, hist, size)
    BY StepBreaks
  <2> HIDE DEF step, t, size
  <2> QED
    BY <1>2, <2>1 DEF StepOf
<1>4. PivotsAre(t, hist, n - 1)
  BY <1>3, TurnedFacts
<1>5. /\ e.high.at = t.high.at /\ e.high.price = t.high.price
      /\ e.low.at = t.low.at /\ e.low.price = t.low.price
  BY <1>3, <1>4, ChecksFacts
<1>6. /\ t.high.at # 0 => t.high.at \in 1..(n - 1) /\ t.high.price = hist[t.high.at].high
      /\ t.low.at # 0 => t.low.at \in 1..(n - 1) /\ t.low.price = hist[t.low.at].low
  BY <1>4 DEF PivotsAre
<1> DEFINE from == BrokenPivot(b, e, size)
           at == Extreme(hist, from, n, b.up)
<1>7. ob.up = b.up /\ ob.top = hist[at].high /\ ob.bottom = hist[at].low
  <2> DEFINE nb == NewBlock(hist, b, e, scope, TRUE)
             ex == Extreme(hist, from, b.at, b.up)
  <2>1. nb.up = b.up /\ nb.top = hist[ex].high /\ nb.bottom = hist[ex].low
    <3>1. NewBlockIs(nb, b, TRUE, hist[ex])
      BY NewBlockFacts
    <3> HIDE DEF nb, ex
    <3> QED
      BY <3>1 DEF NewBlockIs
  <2>2. b.at = n /\ ob = nb
    BY <1>2, <1>3
  <2> HIDE DEF nb, from, n
  <2>3. ex = at
    BY <2>2
  <2> HIDE DEF ex, at
  <2> QED
    BY <2>1, <2>2, <2>3
<1>8. c.close = Last(hist).close /\ Last(hist) = hist[n]
  BY DEF Last
<1>9. from = (LET p == IF b.up THEN e.high ELSE e.low
                  through == IF b.up THEN b.price > p.price ELSE b.price < p.price
                  fallback == IF b.at - size > 1 THEN b.at - size ELSE 1
              IN  IF p.at # 0 /\ p.at < b.at /\ through THEN p.at ELSE fallback)
  BY DEF BrokenPivot
<1> HIDE DEF n, size, step, t, e, from
<1>10. CASE b.up = TRUE /\ CrossesUp(t, hist)
  <2>1. t.high.at # 0 /\ Last(hist).close > t.high.price
    BY <1>10 DEF CrossesUp
  <2>2. t.high.at \in 1..(n - 1) /\ t.high.price = hist[t.high.at].high
    BY <1>6, <2>1
  <2>3. from = t.high.at
    BY <1>1, <1>3, <1>5, <1>9, <1>10, <2>1, <2>2
  <2>4. from \in 1..n /\ from < n
    BY <1>1, <2>2, <2>3
  <2>5. at \in 1..n /\ hist[at].parsedLow <= hist[from].parsedLow
    BY <1>10, <2>4, ExtremeFacts DEF n
  <2> HIDE DEF at
  <2>6. /\ hist[at].low \in Int /\ hist[at].parsedLow \in Int /\ hist[from].parsedLow \in Int
        /\ hist[from].high \in Int /\ hist[n].close \in Int
        /\ hist[at].low <= hist[at].parsedLow /\ hist[from].parsedLow <= hist[from].high
    <3>1. n \in 1..n
      BY <1>1, <2>4
    <3> QED
      BY <1>1, <2>4, <2>5, <3>1 DEF OrderedBar
  <2>7. ~(c.close < ob.bottom)
    BY <1>7, <1>8, <2>1, <2>2, <2>3, <2>5, <2>6
  <2> QED
    BY <1>7, <1>10, <2>7 DEF ClosesThrough
<1>11. CASE b.up = FALSE /\ CrossesDown(t, hist)
  <2>1. t.low.at # 0 /\ Last(hist).close < t.low.price
    BY <1>11 DEF CrossesDown
  <2>2. t.low.at \in 1..(n - 1) /\ t.low.price = hist[t.low.at].low
    BY <1>6, <2>1
  <2>3. from = t.low.at
    BY <1>1, <1>3, <1>5, <1>9, <1>11, <2>1, <2>2
  <2>4. from \in 1..n /\ from < n
    BY <1>1, <2>2, <2>3
  <2>5. at \in 1..n /\ hist[from].parsedHigh <= hist[at].parsedHigh
    BY <1>11, <2>4, ExtremeFacts DEF n
  <2> HIDE DEF at
  <2>6. /\ hist[at].high \in Int /\ hist[at].parsedHigh \in Int /\ hist[from].parsedHigh \in Int
        /\ hist[from].low \in Int /\ hist[n].close \in Int
        /\ hist[at].parsedHigh <= hist[at].high /\ hist[from].low <= hist[from].parsedHigh
    <3>1. n \in 1..n
      BY <1>1, <2>4
    <3> QED
      BY <1>1, <2>4, <2>5, <3>1 DEF OrderedBar
  <2>7. ~(c.close > ob.top)
    <3>1. c.close = hist[n].close /\ ob.top = hist[at].high /\ c.close < hist[from].low
      BY <1>7, <1>8, <2>1, <2>2, <2>3
    <3> QED
      BY <2>5, <2>6, <3>1
  <2> QED
    BY <1>7, <1>11, <2>7 DEF ClosesThrough
<1> QED
  BY <1>3, <1>10, <1>11

-----------------------------------------------------------------------------
(* Blocks follow the candles the engine takes.                             *)

\* An engine that began on too short a history holds ordered bars and their pivots; one
\* that has parsed anything has taken enough.
ShortSound(e) ==
    /\ Len(e.parsed) # 0 => Enough(Len(e.candles))
    /\ Len(e.parsed) < Len(e.candles) =>
           /\ Ordered(e.parsed)
           /\ PivotsAre(e.internal, e.parsed, Len(e.parsed))
           /\ PivotsAre(e.swing, e.parsed, Len(e.parsed))

\* A live block is active as long as no candle since its break has closed through it.
Follows(ob, e) ==
    ob.live => /\ ob.brk \in 1..Len(e.parsed)
               /\ ob.active <=>
                      \A i \in (ob.brk + (Len(e.candles) - Len(e.parsed)) + 1)..Len(e.candles) :
                          ~ClosesThrough(ob, e.candles[i])

BlocksFollow(e) ==
    /\ IsSeq(e.obs)
    /\ \A ob \in Elements(e.obs) : IsBlock(ob) /\ Follows(ob, e)

\* The scopes and the lengths of their legs.
LEMMA Lengths ==
    /\ "internal" \in Scopes /\ "swing" \in Scopes
    /\ LengthOf("internal") = InternalLength /\ InternalLength \in Nat \ {0}
    /\ LengthOf("swing") = SwingLength /\ SwingLength \in Nat \ {0}
BY EngineAssumption DEF Scopes, LengthOf

\* A detector that takes one more bar holds pivots of the bars.
LEMMA DetectorKeeps ==
    ASSUME NEW hist, Ordered(hist), NEW size \in Nat \ {0}, NEW d,
           PivotsAre(d, hist, Len(hist) - 1)
    PROVE  PivotsAre(DetectorStep(d, hist, size).d, hist, Len(hist))
<1> DEFINE n == Len(hist)
           step == DetectorStep(d, hist, size)
           t == Turned(d, hist, size)
<1>1. n \in Nat
  BY LenProperties DEF Ordered
<1>2. StepOf(step, d, t, hist, size)
  BY StepBreaks
<1>3. PivotsAre(step.d, hist, n - 1)
  <2>1. CASE n <= size
    <3>1. step.d = d
      BY <1>2, <2>1 DEF StepOf
    <3> HIDE DEF step
    <3> QED
      BY <3>1
  <2>2. CASE ~(n <= size)
    <3>1. PivotsAre(t, hist, n - 1)
      BY <2>2, TurnedFacts
    <3>2. step = CheckStructureBreaks(t, hist)
      BY <1>2, <2>2 DEF StepOf
    <3> HIDE DEF t, step
    <3> QED
      BY <3>1, <3>2, ChecksFacts
  <2> QED
    BY <2>1, <2>2
<1> HIDE DEF step, n
<1>4. \A i \in 1..(n - 1) : i \in 1..n
  BY <1>1
<1>5. PivotsAre(step.d, hist, n)
  BY <1>3, <1>4 DEF PivotsAre
<1> QED
  BY <1>5 DEF step, n

\* Nothing is held before there is an engine.
LEMMA BlocksOfNone == ShortSound(NoEngine) /\ BlocksFollow(NoEngine)
<1>1. Len(<<>>) = 0 /\ IsSeq(<<>>) /\ Elements(<<>>) = {}
  BY SeqFacts
<1>2. NoEngine.parsed = <<>> /\ NoEngine.obs = <<>> /\ NoEngine.candles = <<>>
  BY DEF NoEngine
<1> QED
  BY <1>1, <1>2 DEF ShortSound, BlocksFollow

\* The blocks of a whole run are not live.
LEMMA BlocksBehindFacts ==
    ASSUME NEW series, NEW n \in Nat, DOMAIN series = 1..n
    PROVE  /\ IsSeq(BlocksBehind(series))
           /\ \A ob \in Elements(BlocksBehind(series)) : IsBlock(ob) /\ ob.live = FALSE
<1> DEFINE all(size) == DetectAll(series, size)
           b1 == BlocksOf(series, all(InternalLength).breaks, all(InternalLength).d,
                          "internal", FALSE)
           b2 == BlocksOf(series, all(SwingLength).breaks, all(SwingLength).d, "swing", FALSE)
<1>1. BlocksBehind(series) = b1 \o b2
  BY DEF BlocksBehind
<1>2. /\ IsSeq(b1)
      /\ Elements(b1) \subseteq NewBlocks(series, all(InternalLength).breaks,
                                          all(InternalLength).d, "internal", FALSE)
  <2>1. IsSeq(all(InternalLength).breaks)
    BY DetectAllBreaks
  <2> HIDE DEF all
  <2> QED
    BY <2>1, BlocksOfFacts
<1>3. /\ IsSeq(b2)
      /\ Elements(b2) \subseteq NewBlocks(series, all(SwingLength).breaks,
                                          all(SwingLength).d, "swing", FALSE)
  <2>1. IsSeq(all(SwingLength).breaks)
    BY DetectAllBreaks
  <2> HIDE DEF all
  <2> QED
    BY <2>1, BlocksOfFacts
<1>4. \A breaks, d, scope : \A ob \in NewBlocks(series, breaks, d, scope, FALSE) :
          IsBlock(ob) /\ ob.live = FALSE
  <2> TAKE breaks, d, scope
  <2> TAKE ob \in NewBlocks(series, breaks, d, scope, FALSE)
  <2>1. PICK b : ob = NewBlock(series, b, d, scope, FALSE)
    BY DEF NewBlocks
  <2> DEFINE bar == series[Extreme(series, BrokenPivot(b, d, LengthOf(scope)), b.at, b.up)]
  <2>2. NewBlockIs(ob, b, FALSE, bar)
    BY <2>1, NewBlockFacts
  <2> HIDE DEF bar
  <2> QED
    BY <2>2 DEF NewBlockIs
<1> HIDE DEF b1, b2
<1>5. IsSeq(b1 \o b2) /\ Elements(b1 \o b2) \subseteq Elements(b1) \cup Elements(b2)
  BY <1>2, <1>3, JoinFacts
<1>6. \A ob \in Elements(b1) \cup Elements(b2) : IsBlock(ob) /\ ob.live = FALSE
  BY <1>2, <1>3, <1>4
<1> QED
  BY <1>1, <1>5, <1>6

\* The blocks and the bars of an engine built from rows.
LEMMA BlocksOfBuilt ==
    ASSUME NEW cs \in Seq(AllRows)
    PROVE  ShortSound(Initialize(cs)) /\ BlocksFollow(Initialize(cs))
<1> DEFINE e == Initialize(cs)
<1>1. Len(cs) \in Nat /\ DOMAIN cs = 1..Len(cs)
  BY LenProperties
<1>2. CASE cs = <<>>
  BY <1>2, InitializeFields, BlocksOfNone
<1>3. CASE cs # <<>> /\ Enough(Len(cs))
  <2>1. e.candles = cs /\ e.parsed = Series(cs) /\ e.obs = BlocksBehind(Series(cs))
    BY <1>3, InitializeFields
  <2>2. Len(Series(cs)) = Len(cs) /\ DOMAIN Series(cs) = 1..Len(cs)
    BY <1>1, SeriesFacts
  <2>3. /\ IsSeq(BlocksBehind(Series(cs)))
        /\ \A ob \in Elements(BlocksBehind(Series(cs))) : IsBlock(ob) /\ ob.live = FALSE
    BY <1>1, <2>2, BlocksBehindFacts
  <2> HIDE DEF e
  <2>4. ShortSound(e)
    BY <1>1, <1>3, <2>1, <2>2 DEF ShortSound
  <2>5. BlocksFollow(e)
    BY <2>1, <2>3 DEF BlocksFollow, Follows
  <2> QED
    BY <2>4, <2>5 DEF e
<1>4. CASE cs # <<>> /\ ~Enough(Len(cs))
  <2>1. /\ e.candles = cs /\ e.parsed = <<>> /\ e.obs = <<>>
        /\ e.internal = NewDetector /\ e.swing = NewDetector
    BY <1>4, InitializeFields
  <2> HIDE DEF e
  <2>2. <<>> \in Seq(ParsedRows) /\ DOMAIN <<>> = {} /\ Len(<<>>) = 0
    BY EmptySeq
  <2>3. Ordered(<<>>)
    BY <2>2 DEF Ordered
  <2>4. PivotsAre(NewDetector, <<>>, 0)
    <3>1. NoPivot \in Pivots /\ NoPivot.at = 0
      BY DEF NoPivot, Pivots
    <3>2. NewDetector \in Detectors /\ NewDetector.high = NoPivot /\ NewDetector.low = NoPivot
      BY <3>1 DEF NewDetector, Detectors
    <3> QED
      BY <3>1, <3>2 DEF PivotsAre
  <2>5. ShortSound(e)
    BY <2>1, <2>2, <2>3, <2>4 DEF ShortSound
  <2>6. BlocksFollow(e)
    BY <2>1, SeqFacts DEF BlocksFollow
  <2> QED
    BY <2>5, <2>6 DEF e
<1> QED
  BY <1>2, <1>3, <1>4

\* The pivots of some bars are pivots of those and one more.
LEMMA PivotsStay ==
    ASSUME NEW hist \in Seq(ParsedRows), NEW bar \in ParsedRows, NEW d,
           PivotsAre(d, hist, Len(hist))
    PROVE  PivotsAre(d, Append(hist, bar), Len(Append(hist, bar)) - 1)
<1> DEFINE n == Len(hist)
           longer == Append(hist, bar)
<1>1. /\ n \in Nat /\ Len(longer) = n + 1
      /\ \A i \in 1..n : longer[i] = hist[i]
  BY LenProperties, AppendProperties
<1> HIDE DEF n, longer
<1>2. PivotsAre(d, hist, n)
  BY DEF n
<1>3. PivotsAre(d, longer, n)
  BY <1>1, <1>2 DEF PivotsAre
<1>4. Len(longer) - 1 = n
  BY <1>1
<1>5. PivotsAre(d, longer, Len(longer) - 1)
  BY <1>3, <1>4
<1> QED
  BY <1>5 DEF longer

\* An engine of bars stays sound with one candle more.
LEMMA ShortStaysSound ==
    ASSUME NEW e, IsEngine(e), e.candles \in Seq(AllRows), e.candles # <<>>,
           StructureFollows(e), ShortSound(e), NEW c \in AllRows, InOrder(c)
    PROVE  ShortSound(ProcessCandle(e, c))
<1> DEFINE p == ProcessCandle(e, c)
           n == Len(e.candles)
           m == Len(e.parsed)
           at == Len(Append(e.candles, c))
           bar == Parsed(c, at)
           hist == Append(e.parsed, bar)
<1>1. TakesCandle(e, c, p)
  BY ProcessCandleFields
<1>2. n \in Nat /\ m \in Nat /\ m <= n /\ at = n + 1
  <2>1. n \in Nat /\ at = n + 1
    BY LenProperties, AppendProperties
  <2>2. e.parsed \in Seq(ParsedRows) /\ m <= n
    BY DEF StructureFollows
  <2>3. m \in Nat
    BY <2>2, LenProperties
  <2> QED
    BY <2>1, <2>2, <2>3
<1>3. AtrPeriod \in Nat
  BY EngineAssumption
<1>4. e.parsed \in Seq(ParsedRows) /\ bar \in ParsedRows
  <2> HIDE DEF at
  <2> QED
    BY <1>2 DEF StructureFollows, ParsedRows
<1>5. /\ p.candles = Append(e.candles, c)
      /\ ~Enough(at) => p.parsed = e.parsed
      /\ Enough(at) => /\ p.parsed = hist
                       /\ p.internal = DetectorStep(e.internal, hist, InternalLength).d
                       /\ p.swing = DetectorStep(e.swing, hist, SwingLength).d
      /\ ~Enough(at) => p.internal = e.internal /\ p.swing = e.swing
  <2> HIDE DEF p
  <2> QED
    BY <1>1 DEF TakesCandle
<1>6. /\ hist \in Seq(ParsedRows) /\ Len(hist) = m + 1 /\ DOMAIN hist = 1..(m + 1)
      /\ \A i \in 1..m : hist[i] = e.parsed[i]
      /\ hist[m + 1] = bar
  <2> HIDE DEF bar
  <2> QED
    BY <1>4, LenProperties, AppendProperties
<1>7. Len(p.candles) = n + 1
  BY <1>2, <1>5
<1>8. CASE ~Enough(at)
  <2>1. m = 0
    BY <1>2, <1>3, <1>8 DEF ShortSound, Enough
  <2>2. m < n
    <3>1. n # 0
      BY EmptySeq
    <3> QED
      BY <1>2, <2>1, <3>1
  <2>3. /\ p.parsed = e.parsed /\ p.internal = e.internal /\ p.swing = e.swing
    BY <1>5, <1>8
  <2>4. /\ Ordered(e.parsed)
        /\ PivotsAre(e.internal, e.parsed, Len(e.parsed))
        /\ PivotsAre(e.swing, e.parsed, Len(e.parsed))
    BY <2>2 DEF ShortSound
  <2> HIDE DEF p
  <2>5. Len(p.parsed) = 0
    BY <2>1, <2>3
  <2>6. ShortSound(p)
    BY <2>3, <2>4, <2>5 DEF ShortSound
  <2> QED
    BY <2>6 DEF p
<1>9. CASE Enough(at)
  <2>1. p.parsed = hist /\ Len(p.parsed) = m + 1 /\ Enough(Len(p.candles))
    BY <1>2, <1>5, <1>6, <1>7, <1>9
  <2>2. ASSUME Len(p.parsed) < Len(p.candles)
        PROVE  /\ Ordered(p.parsed)
               /\ PivotsAre(p.internal, p.parsed, Len(p.parsed))
               /\ PivotsAre(p.swing, p.parsed, Len(p.parsed))
    <3>1. m < n
      BY <1>2, <1>7, <2>1, <2>2
    <3>2. Ordered(e.parsed) /\ PivotsAre(e.internal, e.parsed, m) /\ PivotsAre(e.swing, e.parsed, m)
      BY <3>1 DEF ShortSound
    <3>3. OrderedBar(bar)
      BY ParsedFacts
    <3>4. /\ PivotsAre(e.internal, hist, Len(hist) - 1)
          /\ PivotsAre(e.swing, hist, Len(hist) - 1)
      <4> HIDE DEF bar
      <4> QED
        BY <1>4, <3>2, PivotsStay
    <3> HIDE DEF hist, bar, m, n, p, at
    <3>5. Ordered(hist)
      <4>1. \A i \in 1..m : OrderedBar(e.parsed[i])
        <5>1. DOMAIN e.parsed = 1..m
          BY <1>4, LenProperties DEF m
        <5> QED
          BY <3>2, <5>1 DEF Ordered
      <4>2. \A i \in 1..(m + 1) : i \in 1..m \/ i = m + 1
        BY <1>2
      <4>3. \A i \in 1..(m + 1) : OrderedBar(hist[i])
        BY <1>6, <3>3, <4>1, <4>2
      <4> QED
        BY <1>6, <4>3 DEF Ordered
    <3>6. /\ PivotsAre(p.internal, hist, Len(hist))
          /\ PivotsAre(p.swing, hist, Len(hist))
      BY <1>5, <1>9, <3>4, <3>5, DetectorKeeps, Lengths
    <3> QED
      BY <2>1, <3>5, <3>6
  <2> HIDE DEF p
  <2>3. ShortSound(p)
    BY <2>1, <2>2 DEF ShortSound
  <2> QED
    BY <2>3 DEF p
<1> QED
  BY <1>8, <1>9

\* A new live block follows the candles: it was aged at once only where bars lag behind
\* candles, by the candle that broke the pivot, which does not close through it.
LEMMA NewBlockFollows ==
    ASSUME NEW hist, NEW m \in Nat, Len(hist) = m + 1, NEW scope \in Scopes, NEW d,
           LengthOf(scope) \in Nat \ {0}, NEW n \in Nat, m <= n,
           m < n => Ordered(hist) /\ PivotsAre(d, hist, m),
           NEW ob \in NewBlocks(hist, DetectorStep(d, hist, LengthOf(scope)).breaks,
                                DetectorStep(d, hist, LengthOf(scope)).d, scope, TRUE),
           NEW c, c.close = Last(hist).close
    PROVE  /\ IsBlock(ob) /\ ob.live = TRUE /\ ob.brk = m + 1
           /\ Aged(ob, c, n + 1).active = TRUE
<1> DEFINE size == LengthOf(scope)
           step == DetectorStep(d, hist, size)
           t == Turned(d, hist, size)
<1>1. PICK b \in Elements(step.breaks) : ob = NewBlock(hist, b, step.d, scope, TRUE)
  <2>1. ob \in NewBlocks(hist, step.breaks, step.d, scope, TRUE)
    OBVIOUS
  <2> HIDE DEF step
  <2> QED
    BY <2>1 DEF NewBlocks
<1>2. b.at = m + 1
  <2>1. StepOf(step, d, t, hist, size)
    BY StepBreaks
  <2> HIDE DEF step, t, size
  <2> QED
    BY <1>1, <2>1 DEF StepOf
<1>3. IsBlock(ob) /\ ob.live = TRUE /\ ob.brk = m + 1 /\ ob.active = TRUE
  <2> DEFINE bar == hist[Extreme(hist, BrokenPivot(b, step.d, size), b.at, b.up)]
  <2>1. NewBlockIs(ob, b, TRUE, bar)
    BY <1>1, NewBlockFacts
  <2> HIDE DEF bar
  <2> QED
    BY <1>2, <2>1 DEF NewBlockIs
<1>4. AgedIs(Aged(ob, c, n + 1), ob, c, n + 1)
  BY <1>3, AgedFacts
<1>5. ~(ob.brk < n + 1 /\ ClosesThrough(ob, c))
  <2>1. CASE m = n
    BY <1>3, <2>1
  <2>2. CASE m < n
    <3>1. PivotsAre(d, hist, Len(hist) - 1)
      <4>1. Len(hist) - 1 = m
        OBVIOUS
      <4> QED
        BY <2>2, <4>1
    <3>2. Ordered(hist)
      BY <2>2
    <3>3. ~ClosesThrough(ob, c)
      BY <3>1, <3>2, BreakClears
    <3> QED
      BY <3>3
  <2> QED
    BY <2>1, <2>2
<1>6. Aged(ob, c, n + 1).active = TRUE
  <2> DEFINE aged == Aged(ob, c, n + 1)
  <2> HIDE DEF aged
  <2>1. aged.active <=> TRUE
    BY <1>3, <1>4, <1>5 DEF AgedIs, aged
  <2>2. aged.active \in BOOLEAN
    BY <1>4 DEF AgedIs, IsBlock, aged
  <2> QED
    BY <2>1, <2>2 DEF aged
<1> QED
  BY <1>3, <1>6

\* A block keeps following the candles when one more is taken.
LEMMA OldBlockFollows ==
    ASSUME NEW e, NEW p, e.candles \in Seq(AllRows), NEW c \in AllRows,
           p.candles = Append(e.candles, c), NEW m \in Nat, Len(e.parsed) = m,
           Len(p.parsed) = m + 1, m <= Len(e.candles),
           NEW ob, IsBlock(ob), Follows(ob, e)
    PROVE  Follows(Aged(ob, c, Len(e.candles) + 1), p)
<1> DEFINE n == Len(e.candles)
           aged == Aged(ob, c, n + 1)
           first == ob.brk + (n - m) + 1
<1>1. /\ n \in Nat /\ Len(p.candles) = n + 1
      /\ \A i \in 1..n : p.candles[i] = e.candles[i]
      /\ p.candles[n + 1] = c
  BY LenProperties, AppendProperties
<1>2. AgedIs(aged, ob, c, n + 1)
  BY AgedFacts
<1> HIDE DEF n, aged
<1>3. CASE ob.live = FALSE
  BY <1>2, <1>3 DEF AgedIs, Follows, aged, n
<1>4. CASE ob.live = TRUE
  <2>1. /\ ob.brk \in 1..m
        /\ ob.active <=> \A i \in first..n : ~ClosesThrough(ob, e.candles[i])
    BY <1>4 DEF Follows, n
  <2>2. /\ ob.brk < n + 1 /\ first \in Nat /\ 1 <= first /\ first <= n + 1
    BY <1>1, <2>1 DEF n
  <2> HIDE DEF first
  <2>3. \A i \in first..n : i \in 1..n /\ i \in first..(n + 1)
    BY <1>1, <2>2
  <2>4. \A i \in first..(n + 1) : i = n + 1 \/ i \in first..n
    BY <1>1, <2>2
  <2>5. n + 1 \in first..(n + 1)
    BY <1>1, <2>2
  <2>6. \A x : ClosesThrough(aged, x) <=> ClosesThrough(ob, x)
    BY <1>2 DEF AgedIs, ClosesThrough
  <2>7. aged.active <=> ob.active /\ ~ClosesThrough(ob, c)
    BY <1>2, <2>2 DEF AgedIs
  <2>8. aged.active <=> \A i \in first..(n + 1) : ~ClosesThrough(aged, p.candles[i])
    BY <1>1, <2>1, <2>3, <2>4, <2>5, <2>6, <2>7
  <2>9. aged.brk = ob.brk
    BY <1>2 DEF AgedIs
  <2>10. first = aged.brk + (Len(p.candles) - Len(p.parsed)) + 1
    BY <1>1, <2>1, <2>9 DEF first
  <2>11. aged.brk \in 1..Len(p.parsed)
    BY <2>1, <2>9
  <2>12. Follows(aged, p)
    BY <1>1, <2>8, <2>10, <2>11 DEF Follows
  <2> QED
    BY <2>12 DEF aged, n
<1> QED
  BY <1>3, <1>4 DEF IsBlock

\* Every block of a sequence, aged.
AgesAll(aged, s, c, at) == aged = [k \in DOMAIN s |-> Aged(s[k], c, at)]

\* Aging a sequence of blocks ages each of them.
LEMMA AgedElements ==
    ASSUME NEW s, IsSeq(s), NEW c, NEW at, NEW aged,
           AgesAll(aged, s, c, at)
    PROVE  /\ IsSeq(aged)
           /\ \A x \in Elements(aged) : \E ob \in Elements(s) : x = Aged(ob, c, at)
<1>1. Len(s) \in Nat /\ DOMAIN s = 1..Len(s)
  BY SeqFacts
<1>2. DOMAIN aged = 1..Len(s) /\ aged = [k \in 1..Len(s) |-> aged[k]]
  BY <1>1 DEF AgesAll
<1>3. \A k \in DOMAIN aged : aged[k] = Aged(s[k], c, at) /\ s[k] \in Elements(s)
  BY DEF Elements, AgesAll
<1>4. IsSeq(aged)
  BY <1>1, <1>2 DEF IsSeq
<1>5. \A x \in Elements(aged) : \E ob \in Elements(s) : x = Aged(ob, c, at)
  <2> TAKE x \in Elements(aged)
  <2>1. PICK k \in DOMAIN aged : x = aged[k]
    BY DEF Elements
  <2> QED
    BY <1>3, <2>1
<1> QED
  BY <1>4, <1>5

\* The blocks of an engine that takes one more candle follow it.
LEMMA BlocksOfNext ==
    ASSUME NEW e, IsEngine(e), e.candles \in Seq(AllRows), StructureFollows(e), ShortSound(e),
           BlocksFollow(e), NEW c \in AllRows, InOrder(c)
    PROVE  BlocksFollow(ProcessCandle(e, c))
<1> DEFINE p == ProcessCandle(e, c)
           n == Len(e.candles)
           m == Len(e.parsed)
           at == Len(Append(e.candles, c))
           bar == Parsed(c, at)
           hist == Append(e.parsed, bar)
           step1 == DetectorStep(e.internal, hist, LengthOf("internal"))
           step2 == DetectorStep(e.swing, hist, LengthOf("swing"))
           b1 == BlocksOf(hist, step1.breaks, step1.d, "internal", TRUE)
           b2 == BlocksOf(hist, step2.breaks, step2.d, "swing", TRUE)
           new1 == NewBlocks(hist, step1.breaks, step1.d, "internal", TRUE)
           new2 == NewBlocks(hist, step2.breaks, step2.d, "swing", TRUE)
           blocks == BlocksNow(e, hist)
           aged == [k \in DOMAIN blocks |-> Aged(blocks[k], c, at)]
<1>1. n \in Nat /\ m \in Nat /\ m <= n /\ at = n + 1
  <2>1. n \in Nat /\ at = n + 1
    BY LenProperties, AppendProperties
  <2>2. e.parsed \in Seq(ParsedRows) /\ m <= n
    BY DEF StructureFollows
  <2>3. m \in Nat
    BY <2>2, LenProperties
  <2> QED
    BY <2>1, <2>2, <2>3
<1>2. AtrPeriod \in Nat
  BY EngineAssumption
<1>3. e.parsed \in Seq(ParsedRows) /\ bar \in ParsedRows
  <2> HIDE DEF at
  <2> QED
    BY <1>1 DEF StructureFollows, ParsedRows
<1>4. /\ p.candles = Append(e.candles, c)
      /\ ~Enough(at) => p.parsed = e.parsed /\ p.obs = e.obs
      /\ Enough(at) => p.parsed = hist /\ p.obs = aged
  <2>1. TakesCandle(e, c, p)
    BY ProcessCandleFields
  <2> HIDE DEF p
  <2> QED
    BY <2>1 DEF TakesCandle
<1>5. Len(hist) = m + 1 /\ hist[m + 1] = bar /\ hist \in Seq(ParsedRows)
  <2> HIDE DEF bar
  <2> QED
    BY <1>3, LenProperties, AppendProperties
<1>6. IsSeq(e.obs) /\ \A ob \in Elements(e.obs) : IsBlock(ob) /\ Follows(ob, e)
  BY DEF BlocksFollow
<1>7. c.close = Last(hist).close
  <2>1. bar.close = c.close
    BY ParsedFacts
  <2> HIDE DEF bar, hist, m
  <2> QED
    BY <1>5, <2>1 DEF Last
<1>8. CASE ~Enough(at)
  <2>1. m = 0
    BY <1>1, <1>2, <1>8 DEF ShortSound, Enough
  <2>2. p.parsed = e.parsed /\ p.obs = e.obs
    BY <1>4, <1>8
  <2> HIDE DEF p
  <2>3. ASSUME NEW ob \in Elements(e.obs) PROVE ob.live = FALSE
    <3>1. ob.live => ob.brk \in 1..0
      BY <1>6, <2>1 DEF Follows
    <3> QED
      BY <1>6, <3>1 DEF IsBlock
  <2>4. BlocksFollow(p)
    BY <1>6, <2>2, <2>3 DEF BlocksFollow, Follows
  <2> QED
    BY <2>4 DEF p
<1>9. CASE Enough(at)
  <2>1. blocks = e.obs \o b1 \o b2
    BY Lengths DEF BlocksNow
  <2>2. IsSeq(b1) /\ Elements(b1) \subseteq new1
    <3>1. IsSeq(step1.breaks)
      BY StepBreaks DEF StepOf
    <3> HIDE DEF step1, hist
    <3> QED
      BY <3>1, BlocksOfFacts
  <2>3. IsSeq(b2) /\ Elements(b2) \subseteq new2
    <3>1. IsSeq(step2.breaks)
      BY StepBreaks DEF StepOf
    <3> HIDE DEF step2, hist
    <3> QED
      BY <3>1, BlocksOfFacts
  <2>4. IsSeq(blocks) /\ Elements(blocks) \subseteq Elements(e.obs) \cup new1 \cup new2
    <3> HIDE DEF blocks, b1, b2, new1, new2
    <3>1. IsSeq(e.obs \o b1) /\ Elements(e.obs \o b1) \subseteq Elements(e.obs) \cup Elements(b1)
      BY <1>6, <2>2, JoinFacts
    <3> DEFINE old == e.obs \o b1
    <3> HIDE DEF old
    <3>2. IsSeq(old \o b2) /\ Elements(old \o b2) \subseteq Elements(old) \cup Elements(b2)
      BY <2>3, <3>1, JoinFacts DEF old
    <3> QED
      BY <2>1, <2>2, <2>3, <3>1, <3>2 DEF old
  <2>5. /\ p.parsed = hist /\ p.obs = aged /\ p.candles = Append(e.candles, c)
        /\ Len(p.parsed) = m + 1 /\ Len(p.candles) = n + 1
    BY <1>1, <1>4, <1>5, <1>9
  <2>6. IsSeq(aged) /\ \A x \in Elements(aged) : \E ob \in Elements(blocks) : x = Aged(ob, c, at)
    <3>1. AgesAll(aged, blocks, c, at)
      BY DEF AgesAll
    <3> HIDE DEF blocks, at, aged
    <3> QED
      BY <2>4, <3>1, AgedElements
  <2>7. m < n => /\ Ordered(hist) /\ PivotsAre(e.internal, hist, m)
                 /\ PivotsAre(e.swing, hist, m)
    <3> SUFFICES ASSUME m < n
                 PROVE  /\ Ordered(hist) /\ PivotsAre(e.internal, hist, m)
                        /\ PivotsAre(e.swing, hist, m)
      OBVIOUS
    <3>1. Ordered(e.parsed) /\ PivotsAre(e.internal, e.parsed, m) /\ PivotsAre(e.swing, e.parsed, m)
      BY DEF ShortSound
    <3>2. OrderedBar(bar)
      BY ParsedFacts
    <3>3. PivotsAre(e.internal, hist, Len(hist) - 1) /\ PivotsAre(e.swing, hist, Len(hist) - 1)
      <4> HIDE DEF bar
      <4> QED
        BY <1>3, <3>1, PivotsStay
    <3>4. Len(hist) - 1 = m
      <4> HIDE DEF hist, m
      <4> QED
        BY <1>1, <1>5
    <3>5. Ordered(hist)
      <4>1. DOMAIN hist = 1..(m + 1) /\ \A i \in 1..m : hist[i] = e.parsed[i]
        <5> HIDE DEF bar
        <5> QED
          BY <1>3, LenProperties, AppendProperties
      <4>2. DOMAIN e.parsed = 1..m
        BY <1>3, LenProperties
      <4> HIDE DEF hist, bar, m
      <4>3. \A i \in 1..(m + 1) : i \in 1..m \/ i = m + 1
        BY <1>1
      <4> QED
        BY <1>5, <3>1, <3>2, <4>1, <4>2, <4>3 DEF Ordered
    <3> HIDE DEF hist, m
    <3> QED
      BY <3>3, <3>4, <3>5
  <2>8. ASSUME NEW ob \in new1 \cup new2
        PROVE  IsBlock(ob) /\ ob.live = TRUE /\ ob.brk = m + 1 /\ Aged(ob, c, n + 1).active = TRUE
    <3>1. CASE ob \in new1
      <4> HIDE DEF hist, n, m
      <4> QED
        BY <1>1, <1>5, <1>7, <2>7, <3>1, Lengths, NewBlockFollows
    <3>2. CASE ob \in new2
      <4> HIDE DEF hist, n, m
      <4> QED
        BY <1>1, <1>5, <1>7, <2>7, <3>2, Lengths, NewBlockFollows
    <3> QED
      BY <3>1, <3>2
  <2> HIDE DEF p, blocks, aged, new1, new2, hist, m, n, at
  <2>9. ASSUME NEW x \in Elements(aged) PROVE IsBlock(x) /\ Follows(x, p)
    <3>1. PICK ob \in Elements(blocks) : x = Aged(ob, c, n + 1)
      BY <1>1, <2>6
    <3>2. CASE ob \in Elements(e.obs)
      <4>1. IsBlock(ob) /\ Follows(ob, e)
        BY <1>6, <3>2
      <4>2. IsBlock(x)
        BY <3>1, <4>1, AgedFacts DEF AgedIs
      <4>3. Follows(x, p)
        <5>1. x = Aged(ob, c, Len(e.candles) + 1) /\ m <= Len(e.candles) /\ Len(e.parsed) = m
          BY <1>1, <3>1 DEF m, n
        <5> QED
          BY <1>1, <2>5, <4>1, <5>1, OldBlockFollows
      <4> QED
        BY <4>2, <4>3
    <3>3. CASE ob \in new1 \cup new2
      <4>1. IsBlock(ob) /\ ob.live = TRUE /\ ob.brk = m + 1 /\ x.active = TRUE
        BY <2>8, <3>1, <3>3
      <4>2. IsBlock(x) /\ x.live = TRUE /\ x.brk = m + 1
        BY <3>1, <4>1, AgedFacts DEF AgedIs
      <4>3. m + 1 \in 1..(m + 1)
        BY <1>1
      <4>4. (m + 1 + ((n + 1) - (m + 1)) + 1)..(n + 1) = {}
        BY <1>1
      <4>5. Follows(x, p)
        BY <2>5, <4>1, <4>2, <4>3, <4>4 DEF Follows
      <4> QED
        BY <4>2, <4>5
    <3> QED
      BY <2>4, <3>1, <3>2, <3>3
  <2>10. BlocksFollow(p)
    BY <2>5, <2>6, <2>9 DEF BlocksFollow
  <2> QED
    BY <2>10 DEF p
<1> QED
  BY <1>8, <1>9

\* The strengthening of BlocksFollowCandles that every step keeps.
BlocksInv == ShortSound(engine) /\ BlocksFollow(engine)

\* A genuine row closes between its low and its high.
LEMMA GenuineInOrder ==
    ASSUME NEW c, RowIsGenuine(c)
    PROVE  InOrder(c)
<1>1. InOrder(CandleOf(c))
  BY DEF RowIsGenuine, Genuine
<1>2. CandleOf(c).low = c.low /\ CandleOf(c).high = c.high /\ CandleOf(c).close = c.close
  BY DEF CandleOf, CandleFields
<1> QED
  BY <1>1, <1>2 DEF InOrder

\* Every step keeps it: the engine is left alone, lost, built from the file or fed.
LEMMA BlocksStep == FeedInv /\ StructureInv /\ BlocksInv /\ [Next]_vars => BlocksInv'
<1> SUFFICES ASSUME FeedInv, StructureInv, BlocksInv, [Next]_vars
             PROVE  ShortSound(engine') /\ BlocksFollow(engine')
  BY DEF BlocksInv
<1>1. Typed /\ HandlersInPhase /\ FilesAreGenuine /\ now \in Nat /\ TapeTyped
  BY DEF FeedInv, Typed, TapeTyped
<1>2. CASE engine' = engine
  BY <1>2 DEF BlocksInv
<1>3. CASE engine' = NoEngine
  BY <1>3, BlocksOfNone
<1>4. CASE engine' = Initialize(Rows(csv))
  <2>1. Rows(csv) \in Seq(AllRows)
    BY <1>1, GenuineRows DEF FilesAreGenuine
  <2> QED
    BY <1>4, <2>1, BlocksOfBuilt
<1>5. CASE CanFeed /\ engine' = ProcessNew(engine, Head(job.feed))
  <2> DEFINE c == Head(job.feed)
  <2>1. c \in AllRows /\ RowIsGenuine(c)
    BY <1>1, <1>5, FeedFacts
  <2>2. InOrder(c)
    BY <2>1, GenuineInOrder
  <2>3. IsEngine(engine) /\ engine.candles \in Seq(AllRows)
    BY <1>1 DEF Typed, EngineTyped, IsEngine
  <2>4. engine' = IF engine.ready /\ c.hour > engine.last
                  THEN ProcessCandle(engine, c) ELSE engine
    BY <1>5 DEF ProcessNew
  <2> HIDE DEF c
  <2>5. CASE engine.ready /\ c.hour > engine.last
    <3>1. StructureFollows(engine) /\ engine.candles # <<>>
      BY <2>5 DEF StructureInv, StructureFollows
    <3>2. ShortSound(engine) /\ BlocksFollow(engine)
      BY DEF BlocksInv
    <3>3. ShortSound(ProcessCandle(engine, c))
      BY <2>1, <2>2, <2>3, <3>1, <3>2, ShortStaysSound
    <3>4. BlocksFollow(ProcessCandle(engine, c))
      BY <2>1, <2>2, <2>3, <3>1, <3>2, BlocksOfNext
    <3> QED
      BY <2>4, <2>5, <3>3, <3>4
  <2>6. CASE ~(engine.ready /\ c.hour > engine.last)
    BY <2>4, <2>6 DEF BlocksInv
  <2> QED
    BY <2>5, <2>6
<1> QED
  BY <1>1, <1>2, <1>3, <1>4, <1>5, EngineMove DEF EngineMoves

\* Every block of the engine that formed while it ran is active exactly as long as no
\* candle the engine has taken since the break closed through it, and an engine that began
\* on too short a history tracks pivots that are highs and lows of bars it has parsed
\* (IncrementalSMCEngine._process_candle, StructureDetector).
THEOREM BlocksInvariance == Spec => []BlocksInv
<1>1. Init => BlocksInv
  BY BlocksOfNone DEF Init, BlocksInv
<1>2. FeedInv /\ StructureInv /\ BlocksInv /\ [Next]_vars => BlocksInv'
  BY BlocksStep
<1> QED
  BY <1>1, <1>2, FeedInvariance, StructureInvariance, PTL DEF Spec

\* The rows from the one at position from + 1 on.
LEMMA RowsAfter ==
    ASSUME NEW rows \in Seq(AllRows), NEW from \in Nat
    PROVE  LET s == SubSeq(rows, from + 1, Len(rows))
           IN  /\ \A i \in DOMAIN s : \E j \in (from + 1)..Len(rows) : s[i] = rows[j]
               /\ \A j \in (from + 1)..Len(rows) : \E i \in DOMAIN s : rows[j] = s[i]
<1> DEFINE n == Len(rows)
           s == SubSeq(rows, from + 1, n)
<1>1. n \in Nat
  BY LenProperties
<1>2. CASE from + 1 <= n
  <2>1. DOMAIN s = 1..(n - from) /\ \A i \in 1..(n - from) : s[i] = rows[from + i]
    BY <1>1, <1>2
  <2>2. \A i \in 1..(n - from) : from + i \in (from + 1)..n
    BY <1>1
  <2>3. \A j \in (from + 1)..n : j - from \in 1..(n - from) /\ from + (j - from) = j
    BY <1>1
  <2> HIDE DEF s, n
  <2>4. /\ \A i \in DOMAIN s : \E j \in (from + 1)..n : s[i] = rows[j]
        /\ \A j \in (from + 1)..n : \E i \in DOMAIN s : rows[j] = s[i]
    BY <2>1, <2>2, <2>3
  <2> QED
    BY <2>4 DEF s, n
<1>3. CASE n < from + 1
  <2>1. DOMAIN s = {} /\ (from + 1)..n = {}
    BY <1>1, <1>3
  <2> QED
    BY <2>1 DEF s, n
<1> QED
  BY <1>1, <1>2, <1>3

\* What the engine knows of the hour of a candle it took: what is published, or, of an
\* hour that was corrected, the candle it took.
Known(c) == IF c.hour \in holes.amended THEN c ELSE tape[c.hour]

\* An order block that formed while the engine was running is active exactly as long as no
\* candle it took since the break has closed through the block, as the exchange publishes
\* it, or, of an hour that was corrected, as the engine took it: none is dropped early,
\* none outlives its invalidation, and the candle that breaks the structure never closes
\* through the block it leaves (incremental_engine.py).
THEOREM BlocksFollowTaken == Spec => []BlocksFollowCandles
<1>1. FeedInv /\ StructureInv /\ BlocksInv => BlocksFollowCandles
  <2> DEFINE n == Len(engine.candles)
             m == Len(engine.parsed)
             since(ob) == SubSeq(engine.candles, ob.brk + (n - m) + 1, n)
  <2> SUFFICES ASSUME FeedInv, StructureInv, BlocksInv, NEW k \in DOMAIN engine.obs,
                      engine.obs[k].live
               PROVE  engine.obs[k].active <=>
                          \A i \in DOMAIN since(engine.obs[k]) :
                              ~ClosesThrough(engine.obs[k], Known(since(engine.obs[k])[i]))
    BY DEF BlocksFollowCandles, Known
  <2> DEFINE ob == engine.obs[k]
             from == ob.brk + (n - m)
  <2>1. ob \in Elements(engine.obs)
    BY DEF Elements
  <2>2. Follows(ob, engine)
    BY <2>1 DEF BlocksInv, BlocksFollow
  <2>3. /\ ob.brk \in 1..m
        /\ ob.active <=> \A i \in (from + 1)..n : ~ClosesThrough(ob, engine.candles[i])
    BY <2>2 DEF Follows
  <2>4. engine.candles \in Seq(AllRows) /\ engine.parsed \in Seq(ParsedRows) /\ m <= n
    BY DEF FeedInv, Typed, EngineTyped, StructureInv, StructureFollows
  <2>5. n \in Nat /\ m \in Nat /\ DOMAIN engine.candles = 1..n
    BY <2>4, LenProperties
  <2>6. from \in Nat /\ (from + 1)..n \subseteq 1..n
    <3> DEFINE b == ob.brk
    <3>1. b \in 1..m
      BY <2>3
    <3> HIDE DEF b, n, m
    <3>2. b + (n - m) \in Nat /\ (b + (n - m) + 1)..n \subseteq 1..n
      BY <2>4, <2>5, <3>1
    <3> QED
      BY <3>2 DEF b
  <2>7. ASSUME NEW i \in (from + 1)..n
        PROVE  ClosesThrough(ob, engine.candles[i])
                   <=> ClosesThrough(ob, Known(engine.candles[i]))
    <3> DEFINE c == engine.candles[i]
    <3>1. RowIsGenuine(c)
      BY <2>5, <2>6 DEF FeedInv, FilesAreGenuine
    <3>2. CandleOf(c).close = c.close
      BY DEF CandleOf, CandleFields
    <3> HIDE DEF c
    <3>3. c.close = Known(c).close
      BY <3>1, <3>2 DEF RowIsGenuine, Genuine, Known
    <3>4. ClosesThrough(ob, c) <=> ClosesThrough(ob, Known(c))
      BY <3>3 DEF ClosesThrough
    <3> QED
      BY <3>4 DEF c
  <2>8. /\ \A i \in DOMAIN since(ob) :
               \E j \in (from + 1)..n : since(ob)[i] = engine.candles[j]
        /\ \A j \in (from + 1)..n :
               \E i \in DOMAIN since(ob) : engine.candles[j] = since(ob)[i]
    BY <2>4, <2>6, RowsAfter
  <2> HIDE DEF ob, from, n, m, since
  <2>9. ob.active <=> \A i \in DOMAIN since(ob) : ~ClosesThrough(ob, Known(since(ob)[i]))
    BY <2>3, <2>7, <2>8
  <2> QED
    BY <2>9 DEF ob
<1> QED
  BY <1>1, FeedInvariance, StructureInvariance, BlocksInvariance, PTL

=============================================================================
