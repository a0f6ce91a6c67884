-------------------------- MODULE ManualSMCProofs --------------------------
(***************************************************************************)
(* Theorems about the Manual SMC strategy for every set of pairs and order *)
(* blocks, every price of a block and every window, holding time and bound *)
(* on the hours: the bracket keeps the risk budget after rounding, and the *)
(* lifecycle, the portfolio lock and the sizing tell of one trade.         *)
(*                                                                         *)
(* A candle closes the trade, fills one, or leaves the slot as it is       *)
(* (CandleOutcome).  What each does to the pool is PoolOutcome, and the    *)
(* inductive invariant CandleInv follows case by case.  A resumption keeps *)
(* it because the snapshot holds all it speaks of except the lock's last   *)
(* close, which LockKnowsNoMore leaves open downwards.                     *)
(***************************************************************************)
EXTENDS SMCSubmission, TLAPS, WellFoundedInduction

-----------------------------------------------------------------------------
(* The bracket.                                                            *)

\* A product with a natural number keeps the order of its other factor.
LEMMA ProductOrder ==
    ASSUME NEW a \in Int, NEW b \in Int, NEW c \in Nat, a <= b
    PROVE  c * a <= c * b
<1>1. b - a \in Nat
  OBVIOUS
<1>2. c * (b - a) >= 0
  BY <1>1
<1>3. c * (b - a) = c * b - c * a
  OBVIOUS
<1> QED
  BY <1>2, <1>3

\* An integer quotient and its successor bound the dividend (quantize_price).
LEMMA FloorOfQuotient ==
    ASSUME NEW n \in Nat, NEW d \in Nat \ {0}
    PROVE  /\ n \div d \in Nat
           /\ d * (n \div d) <= n
           /\ n % d # 0 => n <= d * (n \div d + 1)
           /\ n % d = 0 => d * (n \div d) = n
<1>1. n \div d \in Nat /\ n % d \in 0..(d - 1)
  OBVIOUS
<1>2. n = d * (n \div d) + (n % d)
  OBVIOUS
<1>3. d * (n \div d) \in Int /\ d * (n \div d + 1) = d * (n \div d) + d
  BY <1>1
<1> QED
  BY <1>1, <1>2, <1>3

\* Rounding a long entry down and its stop up does not raise the share of the entry
\* that a stop costs.
LEMMA LongKeepsBudget ==
    ASSUME NEW lev \in Nat \ {0}, NEW e \in Nat, NEW s \in Nat,
           NEW f \in Nat, NEW u \in Nat,
           f <= e, s <= u,
           lev * (100 * (e - s)) <= 35 * e
    PROVE  lev * 100 * (f - u) <= 35 * f
<1>1. 100 * lev - 35 \in Nat
  OBVIOUS
<1>2. (100 * lev - 35) * f <= (100 * lev - 35) * e
  BY <1>1, ProductOrder
<1>3. (100 * lev) * s <= (100 * lev) * u
  BY ProductOrder
<1>4. lev * (100 * (e - s)) = (100 * lev) * e - (100 * lev) * s
  OBVIOUS
<1>5. lev * 100 * (f - u) = (100 * lev) * f - (100 * lev) * u
  OBVIOUS
<1>6. (100 * lev - 35) * f = (100 * lev) * f - 35 * f
  OBVIOUS
<1>7. (100 * lev - 35) * e = (100 * lev) * e - 35 * e
  OBVIOUS
<1>8. /\ (100 * lev) * f \in Int /\ (100 * lev) * u \in Int
      /\ (100 * lev) * e \in Int /\ (100 * lev) * s \in Int
  OBVIOUS
<1> QED
  BY <1>2, <1>3, <1>4, <1>5, <1>6, <1>7, <1>8

\* Rounding a short entry up and its stop down does not either.
LEMMA ShortKeepsBudget ==
    ASSUME NEW lev \in Nat \ {0}, NEW e \in Nat, NEW s \in Nat,
           NEW f \in Nat, NEW u \in Nat,
           e <= f, u <= s,
           lev * (100 * (s - e)) <= 35 * e
    PROVE  lev * 100 * (u - f) <= 35 * f
<1>2. (100 * lev + 35) * e <= (100 * lev + 35) * f
  BY ProductOrder
<1>3. (100 * lev) * u <= (100 * lev) * s
  BY ProductOrder
<1>4. lev * (100 * (s - e)) = (100 * lev) * s - (100 * lev) * e
  OBVIOUS
<1>5. lev * 100 * (u - f) = (100 * lev) * u - (100 * lev) * f
  OBVIOUS
<1>6. (100 * lev + 35) * e = (100 * lev) * e + 35 * e
  OBVIOUS
<1>7. (100 * lev + 35) * f = (100 * lev) * f + 35 * f
  OBVIOUS
<1>8. /\ (100 * lev) * f \in Int /\ (100 * lev) * u \in Int
      /\ (100 * lev) * e \in Int /\ (100 * lev) * s \in Int
  OBVIOUS
<1> QED
  BY <1>2, <1>3, <1>4, <1>5, <1>6, <1>7, <1>8

\* Rounding goes the way it is asked to.
LEMMA QuantizeBounds ==
    ASSUME NEW p \in Nat, NEW tick \in Nat \ {0}
    PROVE  /\ Quantize(p, tick, "DOWN") \in Nat
           /\ Quantize(p, tick, "DOWN") <= p
           /\ Quantize(p, tick, "UP") \in Nat
           /\ p <= Quantize(p, tick, "UP")
<1> DEFINE q == p \div tick
<1>1. /\ q \in Nat /\ tick * q <= p
      /\ p % tick # 0 => p <= tick * (q + 1)
      /\ p % tick = 0 => tick * q = p
  BY FloorOfQuotient
<1>2. tick * q \in Nat /\ tick * (q + 1) \in Nat
  BY <1>1
<1>3. Quantize(p, tick, "DOWN") = tick * q
  BY DEF Quantize
<1>4. Quantize(p, tick, "UP") = IF p % tick # 0 THEN tick * (q + 1) ELSE tick * q
  BY DEF Quantize
<1> HIDE DEF q
<1> QED
  BY <1>1, <1>2, <1>3, <1>4

\* The stop of an order block is on the losing side of its entry, and both are prices.
LEMMA RawPrices ==
    ASSUME NEW z \in Zones
    PROVE  /\ Raw(z).ENTRY \in Nat /\ Raw(z).STOP_LOSS \in Nat
           /\ z.direction \in Directions
           /\ z.direction = "LONG" => Raw(z).STOP_LOSS < Raw(z).ENTRY
           /\ z.direction = "SHORT" => Raw(z).ENTRY < Raw(z).STOP_LOSS
           /\ Grain * z.tick \in Nat \ {0}
  BY DEF Zones, Raw, Grain, Directions

\* What compute_leverage promises: at the leverage the unrounded stop costs no more
\* than the budget.
LEMMA LeverageKeepsBudget ==
    ASSUME NEW z \in Zones
    PROVE  /\ CalculatedLeverage(z) \in Nat
           /\ CalculatedLeverage(z) * (100 * Distance(Raw(z).ENTRY, Raw(z).STOP_LOSS))
                  <= 35 * Raw(z).ENTRY
<1> DEFINE n == 35 * Raw(z).ENTRY
           d == 100 * Distance(Raw(z).ENTRY, Raw(z).STOP_LOSS)
<1>1. n \in Nat /\ d \in Nat \ {0}
  BY RawPrices DEF Distance, Directions
<1>2. CalculatedLeverage(z) = IF n \div d > 100 THEN 100 ELSE n \div d
  BY DEF CalculatedLeverage, RiskBudget, Cap
<1> HIDE DEF n, d
<1>3. n \div d \in Nat /\ d * (n \div d) <= n
  BY <1>1, FloorOfQuotient
<1>4. CalculatedLeverage(z) \in Nat /\ CalculatedLeverage(z) <= n \div d
  BY <1>2, <1>3
<1>5. d * CalculatedLeverage(z) <= d * (n \div d)
  BY <1>1, <1>3, <1>4, ProductOrder
<1>6. d * CalculatedLeverage(z) \in Int /\ d * (n \div d) \in Int
      /\ d * CalculatedLeverage(z) = CalculatedLeverage(z) * d
  BY <1>1, <1>3, <1>4
<1>7. CalculatedLeverage(z) * d <= n
  BY <1>1, <1>3, <1>5, <1>6
<1> QED
  BY <1>4, <1>7 DEF n, d

\* A bracket that can be sent keeps the risk budget after it was rounded.
LEMMA SendableKeepsBudget ==
    ASSUME NEW z \in Zones, Sendable(z)
    PROVE  WithinBudget(z)
<1> DEFINE lev == CalculatedLeverage(z)
           e == Raw(z).ENTRY
           s == Raw(z).STOP_LOSS
           f == Legs(z).ENTRY
           u == Legs(z).STOP_LOSS
           tick == Grain * z.tick
<1>1. lev \in Nat \ {0}
  BY LeverageKeepsBudget DEF Sendable
<1>2. lev * (100 * Distance(e, s)) <= 35 * e
  BY LeverageKeepsBudget
<1>3. e \in Nat /\ s \in Nat /\ tick \in Nat \ {0}
  BY RawPrices
<1>4. /\ f = Quantize(e, tick, Rounding("ENTRY", z.direction))
      /\ u = Quantize(s, tick, Rounding("STOP_LOSS", z.direction))
  BY DEF Legs, Roles
<1>5. CASE z.direction = "LONG"
  <2>1. f = Quantize(e, tick, "DOWN") /\ u = Quantize(s, tick, "UP")
    BY <1>4, <1>5 DEF Rounding
  <2>2. f \in Nat /\ u \in Nat /\ f <= e /\ s <= u
    BY <2>1, <1>3, QuantizeBounds
  <2>3. u < f
    BY <1>5 DEF Sendable, Ordered
  <2>4. s < e
    BY <1>5, RawPrices
  <2>5. Distance(e, s) = e - s /\ Distance(f, u) = f - u
    BY <2>2, <2>3, <2>4, <1>3 DEF Distance
  <2> HIDE DEF lev, e, s, f, u
  <2>6. lev * (100 * (e - s)) <= 35 * e
    BY <1>2, <2>5
  <2>7. lev * 100 * (f - u) <= 35 * f
    BY <1>1, <1>3, <2>2, <2>6, LongKeepsBudget
  <2> QED
    BY <2>5, <2>7 DEF WithinBudget, RiskBudget, lev, f, u
<1>6. CASE z.direction = "SHORT"
  <2>1. f = Quantize(e, tick, "UP") /\ u = Quantize(s, tick, "DOWN")
    BY <1>4, <1>6 DEF Rounding
  <2>2. f \in Nat /\ u \in Nat /\ e <= f /\ u <= s
    BY <2>1, <1>3, QuantizeBounds
  <2>3. f < u
    BY <1>6 DEF Sendable, Ordered
  <2>4. e < s
    BY <1>6, RawPrices
  <2>5. Distance(e, s) = s - e /\ Distance(f, u) = u - f
    BY <2>2, <2>3, <2>4, <1>3 DEF Distance
  <2> HIDE DEF lev, e, s, f, u
  <2>6. lev * (100 * (s - e)) <= 35 * e
    BY <1>2, <2>5
  <2>7. lev * 100 * (u - f) <= 35 * f
    BY <1>1, <1>3, <2>2, <2>6, ShortKeepsBudget
  <2> QED
    BY <2>5, <2>7 DEF WithinBudget, RiskBudget, lev, f, u
<1> QED
  BY <1>5, <1>6, RawPrices DEF Directions

-----------------------------------------------------------------------------
(* The inductive invariant.                                                *)

\* What the variables hold, as far as the single trade depends on it.
TypeInv ==
    /\ mode \in Modes
    /\ ob \in [OBs -> OBRecords]
    /\ \A o \in OBs : ob[o].state = "LIMIT_RESTING" => ob[o].from # 0
    /\ active \in Trades /\ (active.ob = NoOB => active = NoTrade)
    /\ closedAt \in Nat
    /\ scanned \in [Assets -> Nat]
    /\ mark \in [Assets -> Nat]
    /\ lock \in [holder: OBs \cup {NoOB}, closedAt: Nat]
    /\ balance \in Nat /\ sizing \in Nat \cup {NoSizing}
    /\ resumed \in BOOLEAN

\* The lock knows of no close the lifecycle does not know of, and of the last one in a
\* process that was never resumed.
LockKnowsNoMore ==
    /\ lock.closedAt <= closedAt
    /\ ~resumed => lock.closedAt = closedAt

\* A trade was filled on a candle its pair has processed, after the last close.
FilledOnProcessedCandle ==
    active.ob # NoOB => /\ active.filledAt <= mark[AssetOf[active.ob]]
                        /\ active.filledAt > closedAt

\* A live order block was made by a candle its pair has processed, or by one that
\* raised because it reached an entry no later than the last close.
MadeBefore ==
    \A o \in OBs : Live(o) => \/ ob[o].bos <= mark[AssetOf[o]]
                              \/ ob[o].bos <= closedAt

SlotInv == TypeInv /\ SlotMirrorsTrade /\ LockKnowsNoMore /\ FilledOnProcessedCandle

CandleInv == SlotInv /\ MadeBefore /\ EntriesInsideWindow /\ WindowsClose

\* The process starts with no order block and a free slot.
LEMMA Initially == Init => CandleInv
<1> SUFFICES ASSUME Init PROVE CandleInv
  OBVIOUS
<1> USE ParametersAssumption
<1>1. \A o \in OBs : ob[o] \in OBRecords /\ ob[o].state = "UNBORN"
  BY DEF Init, Unborn, OBRecords, OBStates
<1>2. TypeInv
  BY <1>1 DEF Init, TypeInv, Trades, NoTrade, FreeLock, NoSizing
<1>3. SlotMirrorsTrade
  BY <1>1 DEF Init, SlotMirrorsTrade, NoTrade, FreeLock
<1>4. LockKnowsNoMore /\ FilledOnProcessedCandle
  BY DEF Init, LockKnowsNoMore, FilledOnProcessedCandle, NoTrade, FreeLock
<1>5. MadeBefore /\ WindowsClose
  BY <1>1 DEF MadeBefore, WindowsClose, Live, LiveStates
<1>6. EntriesInsideWindow
  BY DEF Init, EntriesInsideWindow, NoTrade
<1> QED
  BY <1>2, <1>3, <1>4, <1>5, <1>6 DEF CandleInv, SlotInv

-----------------------------------------------------------------------------
(* Who is entered.                                                         *)

\* A set of numbers has a least one.
LEMMA LeastExists ==
    ASSUME NEW S \in SUBSET Nat, S # {}
    PROVE  \E m \in S : \A k \in S : m <= k
<1> DEFINE R == OpToRel(<, Nat)
<1>1. IsWellFoundedOn(R, Nat)
  BY NatLessThanWellFounded
<1>2. \A x, y \in Nat : <<y, x>> \in R <=> y < x
  BY DEF OpToRel
<1> HIDE DEF R
<1>3. PICK m \in S : \A k \in S : ~(<<k, m>> \in R)
  BY <1>1, WFMin
<1>4. \A k \in S : k \in Nat /\ m \in Nat
  OBVIOUS
<1>5. \A k \in S : ~(k < m)
  BY <1>2, <1>3, <1>4
<1>6. \A k \in S : m <= k
  BY <1>4, <1>5
<1> QED
  BY <1>6

\* The pool has a first order block among any of its own, so that the contender which
\* the sweep admits exists.
LEMMA FirstExists ==
    ASSUME TypeInv, NEW S \in SUBSET OBs, S # {}
    PROVE  \E o \in S : \A p \in S \ {o} : ~Earlier(p, o)
<1> DEFINE Ages == {ob[o].bos : o \in S}
<1>1. \A o \in S : ob[o].bos \in Nat
  BY DEF TypeInv, OBRecords
<1>2. Ages \in SUBSET Nat /\ Ages # {}
  BY <1>1
<1>3. PICK m \in Ages : \A k \in Ages : m <= k
  BY <1>2, LeastExists
<1>4. \A p \in S : m <= ob[p].bos
  BY <1>3
<1>5. CASE \E o \in S : ob[o].bos = m /\ o \in Short
  <2>1. PICK o \in S : ob[o].bos = m /\ o \in Short
    BY <1>5
  <2>2. \A p \in S : ~Earlier(p, o)
    BY <2>1, <1>1, <1>2, <1>4 DEF Earlier
  <2> QED
    BY <2>2
<1>6. CASE ~\E o \in S : ob[o].bos = m /\ o \in Short
  <2>1. PICK o \in S : ob[o].bos = m
    BY <1>3
  <2>2. \A p \in S : ~Earlier(p, o)
    BY <2>1, <1>1, <1>2, <1>4, <1>6 DEF Earlier
  <2> QED
    BY <2>2
<1> QED
  BY <1>5, <1>6

\* The admitted contender is one, and the slot was free for it.
LEMMA WinnerContends ==
    ASSUME TypeInv, NEW a \in Assets, NEW t \in Nat, NEW wick, NEW hit \in BOOLEAN,
           Winner(a, t, wick, hit) # NoOB
    PROVE  /\ Winner(a, t, wick, hit) \in Contenders(a, t, wick)
           /\ ~ExitDue(a, t, hit)
           /\ active.ob = NoOB /\ t > closedAt
<1> DEFINE trade == IF ExitDue(a, t, hit) THEN NoTrade ELSE active
           closed == IF ExitDue(a, t, hit) THEN t ELSE closedAt
           Among == Contenders(a, t, wick)
<1>1. ~EntryBlocked(trade, closed, t) /\ Among # {}
  BY DEF Winner
<1>2. Winner(a, t, wick, hit) = CHOOSE o \in Among : \A p \in Among \ {o} : ~Earlier(p, o)
  BY <1>1 DEF Winner
<1>3. Among \in SUBSET OBs
  BY DEF Contenders, Candidates
<1>4. \E o \in Among : \A p \in Among \ {o} : ~Earlier(p, o)
  BY <1>1, <1>3, FirstExists
<1>5. Winner(a, t, wick, hit) \in Among
  BY <1>2, <1>4
<1>6. ~ExitDue(a, t, hit)
  BY <1>1 DEF EntryBlocked
<1>7. active.ob = NoOB /\ ~(t <= closedAt)
  BY <1>1, <1>6 DEF EntryBlocked
<1> QED
  BY <1>5, <1>6, <1>7 DEF TypeInv

\* The candle that closes a trade admits no entry.
LEMMA NobodyOnClose ==
    ASSUME NEW a, NEW t \in Nat, NEW wick, NEW hit, ExitDue(a, t, hit)
    PROVE  Winner(a, t, wick, hit) = NoOB
  BY DEF Winner, EntryBlocked

\* Contenders of which none is admitted were refused by the lifecycle.
LEMMA NobodyWhenBlocked ==
    ASSUME TypeInv, NEW a \in Assets, NEW t \in Nat, NEW wick, NEW hit \in BOOLEAN,
           ~ExitDue(a, t, hit), Contenders(a, t, wick) # {},
           Winner(a, t, wick, hit) = NoOB
    PROVE  EntryBlocked(active, closedAt, t)
<1> DEFINE Among == Contenders(a, t, wick)
<1>1. SUFFICES ASSUME ~EntryBlocked(active, closedAt, t) PROVE FALSE
  OBVIOUS
<1>2. Winner(a, t, wick, hit) = CHOOSE o \in Among : \A p \in Among \ {o} : ~Earlier(p, o)
  BY <1>1 DEF Winner
<1>3. Among \in SUBSET OBs
  BY DEF Contenders, Candidates
<1>4. \E o \in Among : \A p \in Among \ {o} : ~Earlier(p, o)
  BY <1>3, FirstExists
<1>5. Winner(a, t, wick, hit) \in Among
  BY <1>2, <1>4
<1> QED
  BY <1>3, <1>5, ParametersAssumption

-----------------------------------------------------------------------------
(* What the events of a candle do to the books.                            *)

\* A close settles the trade and frees the slot, and then the lock refuses with
\* the lifecycle what reached its entry on the same candle.
LEMMA BooksOfClose ==
    ASSUME SlotInv, NEW t \in Nat, active.ob # NoOB, NEW blocked
    PROVE  HandleEvents(t, TRUE, NoOB, blocked)
              = [lock |-> [holder |-> NoOB, closedAt |-> t], balance |-> balance + 1,
                 sizing |-> NoSizing, fault |-> "none"]
<1>1. sizing # NoSizing /\ lock.holder = active.ob
  BY DEF SlotInv, SlotMirrorsTrade, TypeInv, NoSizing
<1>2. lock = [holder |-> lock.holder, closedAt |-> lock.closedAt]
  BY DEF SlotInv, TypeInv
<1>3. OnTradeClosed(Books, t)
         = [lock |-> [holder |-> NoOB, closedAt |-> t], balance |-> balance + 1,
            sizing |-> NoSizing, fault |-> "none"]
  BY <1>1, <1>2 DEF OnTradeClosed, Books, Release
<1> QED
  BY <1>3 DEF HandleEvents, OnEntryBlocked, LockRefuses

\* A fill takes the slot, is sized on the balance as it stands, and the lock
\* refuses the other contenders.
LEMMA BooksOfFill ==
    ASSUME SlotInv, NEW t \in Nat, NEW o \in OBs, active.ob = NoOB, t > closedAt,
           NEW blocked
    PROVE  HandleEvents(t, FALSE, o, blocked)
              = [lock |-> [holder |-> o, closedAt |-> lock.closedAt],
                 balance |-> balance, sizing |-> balance, fault |-> "none"]
<1> USE ParametersAssumption
<1>1. lock.holder = NoOB /\ ~(t <= lock.closedAt)
  BY DEF SlotInv, SlotMirrorsTrade, LockKnowsNoMore, TypeInv
<1>2. lock = [holder |-> lock.holder, closedAt |-> lock.closedAt]
  BY DEF SlotInv, TypeInv
<1>3. OnEntryFilled(Books, o, t)
         = [lock |-> [holder |-> o, closedAt |-> lock.closedAt],
            balance |-> balance, sizing |-> balance, fault |-> "none"]
  BY <1>1, <1>2 DEF OnEntryFilled, Books, Acquire, LockRefuses
<1>4. Books.fault = "none" /\ o # NoOB
  BY DEF Books
<1> QED
  BY <1>3, <1>4 DEF HandleEvents, OnEntryBlocked, LockRefuses

\* Without either the books stay, and the candle raises only if an entry the
\* lifecycle refused would be granted by the lock.
LEMMA BooksOfIdle ==
    ASSUME NEW t \in Nat, NEW blocked
    PROVE  /\ HandleEvents(t, FALSE, NoOB, blocked).lock = lock
           /\ HandleEvents(t, FALSE, NoOB, blocked).balance = balance
           /\ HandleEvents(t, FALSE, NoOB, blocked).sizing = sizing
           /\ \/ HandleEvents(t, FALSE, NoOB, blocked).fault = "none"
              \/ /\ HandleEvents(t, FALSE, NoOB, blocked).fault = "PortfolioLockDesyncError"
                 /\ blocked # {} /\ ~LockRefuses(lock, t)
  BY DEF HandleEvents, OnEntryBlocked, Books, Raise

\* The names of what a candle does to the trade, the books and the watermark.
Marked(a, t) == mark' = [mark EXCEPT ![a] = t]
Closing(a, t) ==
    /\ active.ob # NoOB /\ AssetOf[active.ob] = a
    /\ active' = NoTrade /\ closedAt' = t
    /\ lock' = [holder |-> NoOB, closedAt |-> t]
    /\ balance' = balance + 1 /\ sizing' = NoSizing
    /\ Marked(a, t)
Filling(a, t, wick, o) ==
    /\ o \in Contenders(a, t, wick)
    /\ active.ob = NoOB /\ t > closedAt
    /\ active' = [ob |-> o, filledAt |-> t] /\ closedAt' = closedAt
    /\ lock' = [holder |-> o, closedAt |-> lock.closedAt]
    /\ balance' = balance /\ sizing' = balance
    /\ Marked(a, t)
Idle(a, t) ==
    /\ UNCHANGED <<active, closedAt, lock, balance, sizing>>
    /\ Marked(a, t) \/ (mark' = mark /\ t <= closedAt)

\* The parts of one candle.
Candle(a, t, wick, side, hit, born) ==
    /\ Admissible(a, t)
    /\ ProcessCandle(a, t, wick, side, hit, born, Winner(a, t, wick, hit))
    /\ Evaluate(a, t, ExitDue(a, t, hit), Winner(a, t, wick, hit),
                Contenders(a, t, wick) \ {Winner(a, t, wick, hit)})
    /\ resumed' = resumed

\* A candle closes the trade, or fills one, or leaves the slot as it is.
LEMMA CandleOutcome ==
    ASSUME SlotInv, NEW a \in Assets, NEW t \in Hours, NEW wick, NEW side,
           NEW hit \in BOOLEAN, NEW born, Candle(a, t, wick, side, hit, born)
    PROVE  \/ ExitDue(a, t, hit) /\ Winner(a, t, wick, hit) = NoOB /\ Closing(a, t)
           \/ /\ ~ExitDue(a, t, hit)
              /\ Winner(a, t, wick, hit) # NoOB
              /\ Filling(a, t, wick, Winner(a, t, wick, hit))
           \/ ~ExitDue(a, t, hit) /\ Winner(a, t, wick, hit) = NoOB /\ Idle(a, t)
<1> DEFINE winner  == Winner(a, t, wick, hit)
           blocked == Contenders(a, t, wick) \ {winner}
           books   == HandleEvents(t, ExitDue(a, t, hit), winner, blocked)
<1> USE ParametersAssumption
<1>1. t \in Nat /\ TypeInv
  BY DEF Hours, SlotInv
<1>2. /\ active' = IF winner # NoOB THEN [ob |-> winner, filledAt |-> t]
                   ELSE IF ExitDue(a, t, hit) THEN NoTrade ELSE active
      /\ closedAt' = IF ExitDue(a, t, hit) THEN t ELSE closedAt
  BY DEF Candle, ProcessCandle
<1>3. /\ lock' = books.lock /\ balance' = books.balance /\ sizing' = books.sizing
      /\ books.fault = "none" => Marked(a, t)
      /\ books.fault # "none" => mark' = mark
  BY DEF Candle, Evaluate, AdvanceWatermark, Advance, Marked
<1> HIDE DEF winner, blocked
<1>4. CASE ExitDue(a, t, hit)
  <2>1. winner = NoOB
    BY <1>1, <1>4, NobodyOnClose DEF winner
  <2>2. active.ob # NoOB /\ AssetOf[active.ob] = a
    BY <1>4 DEF ExitDue
  <2>3. books = [lock |-> [holder |-> NoOB, closedAt |-> t], balance |-> balance + 1,
                 sizing |-> NoSizing, fault |-> "none"]
    BY <1>1, <1>4, <2>1, <2>2, BooksOfClose
  <2>4. ExitDue(a, t, hit) = TRUE
    BY <1>4 DEF ExitDue
  <2> HIDE DEF books
  <2>5. active' = NoTrade /\ closedAt' = t
    BY <1>2, <1>4, <2>1
  <2>6. /\ lock' = [holder |-> NoOB, closedAt |-> t] /\ balance' = balance + 1
        /\ sizing' = NoSizing /\ Marked(a, t)
    BY <1>3, <2>3
  <2> QED
    BY <1>4, <2>1, <2>2, <2>5, <2>6 DEF Closing, winner
<1>5. CASE ~ExitDue(a, t, hit) /\ winner # NoOB
  <2>1. /\ winner \in Contenders(a, t, wick)
        /\ active.ob = NoOB /\ t > closedAt
    BY <1>1, <1>5, WinnerContends DEF winner
  <2>2. winner \in OBs
    BY <2>1 DEF Contenders, Candidates
  <2>3. ExitDue(a, t, hit) = FALSE
    BY <1>5 DEF ExitDue
  <2>4. books = [lock |-> [holder |-> winner, closedAt |-> lock.closedAt],
                 balance |-> balance, sizing |-> balance, fault |-> "none"]
    BY <1>1, <2>1, <2>2, <2>3, BooksOfFill
  <2> HIDE DEF books
  <2>5. active' = [ob |-> winner, filledAt |-> t] /\ closedAt' = closedAt
    BY <1>2, <1>5
  <2>6. /\ lock' = [holder |-> winner, closedAt |-> lock.closedAt]
        /\ balance' = balance /\ sizing' = balance /\ Marked(a, t)
    BY <1>3, <2>4
  <2> QED
    BY <1>5, <2>1, <2>5, <2>6 DEF Filling, winner
<1>6. CASE ~ExitDue(a, t, hit) /\ winner = NoOB
  <2>0. ExitDue(a, t, hit) = FALSE
    BY <1>6 DEF ExitDue
  <2>a. books = HandleEvents(t, FALSE, NoOB, blocked)
    BY <1>6, <2>0
  <2> HIDE DEF books
  <2>1. /\ books.lock = lock /\ books.balance = balance /\ books.sizing = sizing
        /\ books.fault = "none" \/ (blocked # {} /\ ~LockRefuses(lock, t))
    BY <1>1, <2>a, BooksOfIdle
  <2>2. ASSUME books.fault # "none" PROVE t <= closedAt
    <3>1. Contenders(a, t, wick) # {} /\ ~LockRefuses(lock, t)
      BY <2>1, <2>2 DEF blocked
    <3>2. EntryBlocked(active, closedAt, t)
      BY <1>1, <1>6, <3>1, NobodyWhenBlocked DEF winner
    <3> QED
      BY <3>1, <3>2 DEF LockRefuses, EntryBlocked, SlotInv, SlotMirrorsTrade
  <2> QED
    BY <1>2, <1>3, <1>6, <2>1, <2>2 DEF Idle, winner
<1> QED
  BY <1>4, <1>5, <1>6 DEF winner

\* A candle that raises is one whose entry the lock would have granted, no later than
\* the last close.  It leaves the watermark and offers nothing; any other is
\* marked, and what it offers rests on its own pair.
LEMMA CandleReports ==
    ASSUME SlotInv, NEW a \in Assets, NEW t \in Hours, NEW wick, NEW side,
           NEW hit \in BOOLEAN, NEW born, Candle(a, t, wick, side, hit, born)
    PROVE  /\ \/ fault' = "none" /\ Marked(a, t) /\ lastTs' = t
              \/ /\ fault' = "PortfolioLockDesyncError"
                 /\ mark' = mark /\ lastTs' = lastTs /\ offered' = {}
                 /\ t <= closedAt /\ closedAt' = closedAt /\ ~LockRefuses(lock, t)
           /\ \A o \in offered' : /\ o \in OBs /\ AssetOf[o] = a
                                  /\ ob'[o].state = "LIMIT_RESTING"
<1> DEFINE winner  == Winner(a, t, wick, hit)
           blocked == Contenders(a, t, wick) \ {winner}
           books   == HandleEvents(t, ExitDue(a, t, hit), winner, blocked)
<1> USE ParametersAssumption
<1>1. t \in Nat /\ TypeInv
  BY DEF Hours, SlotInv
<1>2. closedAt' = IF ExitDue(a, t, hit) THEN t ELSE closedAt
  BY DEF Candle, ProcessCandle
<1>3. /\ fault' = books.fault
      /\ books.fault = "none" => /\ Marked(a, t) /\ lastTs' = t
                                 /\ offered' = ReadyDecisions(Decisions(a, blocked, books.lock))
      /\ books.fault # "none" => mark' = mark /\ lastTs' = lastTs /\ offered' = {}
  BY DEF Candle, Evaluate, AdvanceWatermark, Advance, Marked
<1>4. \A o \in ReadyDecisions(Decisions(a, blocked, books.lock)) :
          /\ o \in OBs /\ AssetOf[o] = a /\ ob'[o].state = "LIMIT_RESTING"
  <2> HIDE DEF blocked, books
  <2> SUFFICES ASSUME NEW o \in ReadyDecisions(Decisions(a, blocked, books.lock))
               PROVE  o \in OBs /\ AssetOf[o] = a /\ ob'[o].state = "LIMIT_RESTING"
    OBVIOUS
  <2>1. /\ o \in OBs /\ AssetOf[o] = a
        /\ ob'[o].state \in {"AWAITING_DISPLACEMENT", "LIMIT_RESTING"}
        /\ SetupState(o, blocked, books.lock) = "TRADE_SETUP_READY"
    BY DEF ReadyDecisions, Decisions
  <2> QED
    BY <2>1 DEF SetupState
<1> HIDE DEF winner, blocked
<1>5. CASE ExitDue(a, t, hit)
  <2>1. winner = NoOB
    BY <1>1, <1>5, NobodyOnClose DEF winner
  <2>2. active.ob # NoOB /\ ExitDue(a, t, hit) = TRUE
    BY <1>5 DEF ExitDue
  <2>3. books = [lock |-> [holder |-> NoOB, closedAt |-> t], balance |-> balance + 1,
                 sizing |-> NoSizing, fault |-> "none"]
    BY <1>1, <2>1, <2>2, BooksOfClose
  <2> HIDE DEF books
  <2>4. books.fault = "none"
    BY <2>3
  <2> QED
    BY <1>3, <1>4, <2>4
<1>6. CASE ~ExitDue(a, t, hit) /\ winner # NoOB
  <2>1. /\ winner \in Contenders(a, t, wick)
        /\ active.ob = NoOB /\ t > closedAt
    BY <1>1, <1>6, WinnerContends DEF winner
  <2>2. winner \in OBs
    BY <2>1 DEF Contenders, Candidates
  <2>3. ExitDue(a, t, hit) = FALSE
    BY <1>6 DEF ExitDue
  <2>4. books = [lock |-> [holder |-> winner, closedAt |-> lock.closedAt],
                 balance |-> balance, sizing |-> balance, fault |-> "none"]
    BY <1>1, <2>1, <2>2, <2>3, BooksOfFill
  <2> HIDE DEF books
  <2>5. books.fault = "none"
    BY <2>4
  <2> QED
    BY <1>3, <1>4, <2>5
<1>7. CASE ~ExitDue(a, t, hit) /\ winner = NoOB
  <2>1. ExitDue(a, t, hit) = FALSE
    BY <1>7 DEF ExitDue
  <2>2. books = HandleEvents(t, FALSE, NoOB, blocked)
    BY <1>7, <2>1
  <2> HIDE DEF books
  <2>3. \/ books.fault = "none"
        \/ /\ books.fault = "PortfolioLockDesyncError"
           /\ blocked # {} /\ ~LockRefuses(lock, t)
    BY <1>1, <2>2, BooksOfIdle
  <2>4. ASSUME books.fault # "none" PROVE t <= closedAt
    <3>1. Contenders(a, t, wick) # {} /\ ~LockRefuses(lock, t)
      BY <2>3, <2>4 DEF blocked
    <3>2. EntryBlocked(active, closedAt, t)
      BY <1>1, <1>7, <3>1, NobodyWhenBlocked DEF winner
    <3> QED
      BY <3>1, <3>2 DEF LockRefuses, EntryBlocked, SlotInv, SlotMirrorsTrade
  <2>5. CASE books.fault = "none"
    BY <1>3, <1>4, <2>5
  <2>6. CASE books.fault # "none"
    BY <1>2, <1>3, <1>7, <2>3, <2>4, <2>6
  <2> QED
    BY <2>5, <2>6
<1> QED
  BY <1>5, <1>6, <1>7 DEF winner

-----------------------------------------------------------------------------
(* What a candle does to the pool.                                         *)

\* How far the record of a candidate may have come by the end of a candle.
LEMMA UpdatedCandidate ==
    ASSUME TypeInv, NEW a \in Assets, NEW t \in Hours, NEW wick, NEW side, NEW winner,
           NEW o \in Candidates(a)
    PROVE  /\ UpdateCandidate(o, t, wick, side, winner) \in OBRecords
           /\ UpdateCandidate(o, t, wick, side, winner).state
                 \in LiveStates \cup {"INVALIDATED"}
           /\ UpdateCandidate(o, t, wick, side, winner).state = "TRADE_ACTIVE"
                 => o = winner
           /\ UpdateCandidate(o, t, wick, side, winner).state # "INVALIDATED"
                 => UpdateCandidate(o, t, wick, side, winner).bos = ob[o].bos
<1> USE ParametersAssumption
<1>1. t \in Nat /\ t # 0 /\ t + 1 \in Nat
  BY DEF Hours
<1>2. /\ o \in OBs /\ ob[o] \in OBRecords
      /\ ob[o].state \in {"AWAITING_DISPLACEMENT", "LIMIT_RESTING"}
  BY DEF Candidates, TypeInv
<1>3. UpdateAwaiting(o, t, wick, side)
        \in [state: {"AWAITING_DISPLACEMENT", "LIMIT_RESTING"} \cup {ob[o].state},
             from: Nat, probe: BOOLEAN, bos: {ob[o].bos}]
  BY <1>1, <1>2, Zenon DEF UpdateAwaiting, OBRecords
<1> QED
  BY <1>1, <1>2, <1>3 DEF UpdateCandidate, Dead, Unborn, OBRecords, OBStates, LiveStates

\* A limit that rests after a candle is inside its window, and so is the fill of the
\* contender that is admitted.
LEMMA InsideWindow ==
    ASSUME TypeInv, NEW a \in Assets, NEW t \in Hours, NEW wick, NEW side, NEW winner,
           NEW o \in Candidates(a), NEW r, r = UpdateCandidate(o, t, wick, side, winner)
    PROVE  /\ r.state = "LIMIT_RESTING"
                 => /\ r.from # 0
                    /\ mode = "FIRST_TOUCH_WINDOW" => t < r.from + Window
           /\ o = winner /\ Reaches(o, t, wick)
                 => /\ r.state = "TRADE_ACTIVE" /\ r.bos = ob[o].bos
                    /\ r.from # 0 /\ r.from <= t
                    /\ mode = "FIRST_TOUCH_WINDOW" => t < r.from + Window
<1> USE ParametersAssumption
<1>1. t \in Nat /\ t # 0 /\ t + 1 \in Nat /\ t < t + Window
  BY DEF Hours
<1>2. /\ o \in OBs /\ ob[o] \in OBRecords /\ ob[o].from \in Nat
      /\ ob[o].state \in {"AWAITING_DISPLACEMENT", "LIMIT_RESTING"}
      /\ ob[o].state = "LIMIT_RESTING" => ob[o].from # 0
  BY DEF Candidates, TypeInv, OBRecords
<1>3. ASSUME mode = "FIRST_TOUCH_WINDOW", ~Dies(o, t, wick), ob[o].state = "LIMIT_RESTING"
      PROVE  t < ob[o].from + Window
  BY <1>1, <1>2, <1>3 DEF Dies, Expired, LastBar
<1>4. CASE ob[o].state = "LIMIT_RESTING"
  <2>1. r = IF Dies(o, t, wick) THEN Dead("INVALIDATED")
            ELSE IF o = winner THEN [ob[o] EXCEPT !.state = "TRADE_ACTIVE"] ELSE ob[o]
    BY <1>4 DEF UpdateCandidate
  <2>2. Dead("INVALIDATED").state = "INVALIDATED"
    BY DEF Dead, Unborn
  <2>3. Reaches(o, t, wick) => ~Dies(o, t, wick) /\ ob[o].from <= t
    BY <1>1, <1>2, <1>4 DEF Reaches, FirstTouch
  <2>4. [ob[o] EXCEPT !.state = "TRADE_ACTIVE"].state = "TRADE_ACTIVE"
        /\ [ob[o] EXCEPT !.state = "TRADE_ACTIVE"].from = ob[o].from
        /\ [ob[o] EXCEPT !.state = "TRADE_ACTIVE"].bos = ob[o].bos
    BY <1>2 DEF OBRecords
  <2> QED
    BY <1>2, <1>3, <1>4, <2>1, <2>2, <2>3, <2>4
<1>5. CASE ob[o].state = "AWAITING_DISPLACEMENT"
  <2> DEFINE u == UpdateAwaiting(o, t, wick, side)
  <2>1. r = IF Dies(o, t, wick) THEN Dead("INVALIDATED")
            ELSE IF o = winner THEN [u EXCEPT !.state = "TRADE_ACTIVE"] ELSE u
    BY <1>5 DEF UpdateCandidate
  <2>2. Dead("INVALIDATED").state = "INVALIDATED"
    BY DEF Dead, Unborn
  <2>3. u \in [state: {"AWAITING_DISPLACEMENT", "LIMIT_RESTING"}, from: Nat,
               probe: BOOLEAN, bos: {ob[o].bos}]
    BY <1>1, <1>2, <1>5 DEF UpdateAwaiting, OBRecords
  <2>4. u.state = "LIMIT_RESTING"
          => u.from # 0 /\ (mode = "FIRST_TOUCH_WINDOW" => t < u.from + Window)
    BY <1>1, <1>2, <1>5 DEF UpdateAwaiting, OBRecords
  <2>5. Reaches(o, t, wick)
          => /\ ~Dies(o, t, wick)
             /\ u.from # 0 /\ u.from <= t
             /\ mode = "FIRST_TOUCH_WINDOW" => t < u.from + Window
    BY <1>1, <1>2, <1>5 DEF Reaches, FirstTouch, UpdateAwaiting, OBRecords
  <2> HIDE DEF u
  <2>6. [u EXCEPT !.state = "TRADE_ACTIVE"].state = "TRADE_ACTIVE"
        /\ [u EXCEPT !.state = "TRADE_ACTIVE"].from = u.from
        /\ [u EXCEPT !.state = "TRADE_ACTIVE"].bos = ob[o].bos
    BY <2>3
  <2> QED
    BY <2>1, <2>2, <2>3, <2>4, <2>5, <2>6
<1> QED
  BY <1>2, <1>4, <1>5

\* A block that is born was unborn, one that a candle does not concern keeps its
\* record, and the block of a trade that closes is dead.
LEMMA PoolAfterCandle ==
    ASSUME TypeInv, NEW a \in Assets, NEW t \in Hours, NEW wick, NEW side, NEW hit,
           NEW born \in Emissions(a, t), NEW winner,
           ProcessCandle(a, t, wick, side, hit, born, winner)
    PROVE  /\ ob' = [o \in OBs |-> ob'[o]]
           /\ \A o \in born :
                  /\ ob[o].state = "UNBORN" /\ AssetOf[o] = a
                  /\ ob'[o] \in OBRecords
                  /\ ob'[o].state = "AWAITING_DISPLACEMENT" /\ ob'[o].bos = t
           /\ \A o \in OBs \ born :
                  o \in Candidates(a) =>
                      ob'[o] = UpdateCandidate(o, t, wick, side, winner)
           /\ \A o \in OBs \ born :
                  o \notin Candidates(a) =>
                      ob'[o] = IF ExitDue(a, t, hit) /\ o = active.ob
                               THEN Dead("TRADE_CLOSED") ELSE ob[o]
<1> DEFINE resolved == IF ExitDue(a, t, hit) THEN CloseTrade(ob) ELSE ob
           swept    == Sweep(resolved, a, t, wick, side, winner)
<1>1. ob' = Admit(swept, t, born)
  BY DEF ProcessCandle
<1>2. \A o \in born : o \in OBs /\ ob[o].state = "UNBORN" /\ AssetOf[o] = a
  BY DEF Emissions
<1>3. \A o \in OBs : ob'[o] = IF o \in born
                              THEN [Unborn EXCEPT !.state = "AWAITING_DISPLACEMENT",
                                                  !.bos = t]
                              ELSE swept[o]
  BY <1>1 DEF Admit
<1>4. /\ [Unborn EXCEPT !.state = "AWAITING_DISPLACEMENT", !.bos = t] \in OBRecords
      /\ [Unborn EXCEPT !.state = "AWAITING_DISPLACEMENT", !.bos = t].state
            = "AWAITING_DISPLACEMENT"
      /\ [Unborn EXCEPT !.state = "AWAITING_DISPLACEMENT", !.bos = t].bos = t
  <2>1. t \in Nat
    BY DEF Hours
  <2>2. Unborn \in [state: OBStates, from: Nat, probe: BOOLEAN, bos: Nat]
    BY DEF Unborn, OBStates
  <2>3. "AWAITING_DISPLACEMENT" \in OBStates
    BY DEF OBStates, LiveStates
  <2> QED
    BY <2>1, <2>2, <2>3 DEF OBRecords
<1>5. \A o \in OBs : swept[o] = IF o \in Candidates(a)
                                THEN UpdateCandidate(o, t, wick, side, winner)
                                ELSE resolved[o]
  BY DEF Sweep
<1>6. \A o \in OBs : resolved[o] = IF ExitDue(a, t, hit) /\ o = active.ob
                                   THEN Dead("TRADE_CLOSED") ELSE ob[o]
  BY DEF CloseTrade, TypeInv
<1>7. ob' = [o \in OBs |-> ob'[o]]
  BY <1>1 DEF Admit
<1> HIDE DEF resolved, swept
<1> QED
  BY <1>2, <1>3, <1>4, <1>5, <1>6, <1>7

-----------------------------------------------------------------------------
(* A candle keeps the invariant.                                           *)

\* A trade this candle does not close.
Spared(o, a, t, hit) == ~(ExitDue(a, t, hit) /\ o = active.ob)

\* Which blocks trade after a candle, and what is known of a block that lives.
PoolOutcome(a, t, hit, winner) ==
    /\ ob' \in [OBs -> OBRecords]
    /\ \A o \in OBs : ob'[o].state = "TRADE_ACTIVE" =>
           \/ o = winner
           \/ ob[o].state = "TRADE_ACTIVE" /\ Spared(o, a, t, hit)
    /\ \A o \in OBs :
           \/ o = winner
           \/ ob[o].state = "TRADE_ACTIVE" /\ Spared(o, a, t, hit)
           => ob'[o].state = "TRADE_ACTIVE"
    /\ \A o \in OBs : ob'[o].state \in LiveStates =>
           \/ AssetOf[o] = a /\ ob'[o].bos = t
           \/ Live(o) /\ ob'[o].bos = ob[o].bos
    /\ \A o \in OBs : ob'[o].state = "LIMIT_RESTING" =>
           /\ ob'[o].from # 0
           /\ \/ ob'[o] = ob[o] /\ AssetOf[o] # a
              \/ /\ AssetOf[o] = a
                 /\ mode = "FIRST_TOUCH_WINDOW" => t < ob'[o].from + Window
    /\ winner # NoOB =>
           /\ ob'[winner].bos = ob[winner].bos
           /\ ob'[winner].from # 0 /\ ob'[winner].from <= t
           /\ mode = "FIRST_TOUCH_WINDOW" => t < ob'[winner].from + Window
    /\ \A o \in OBs : ob[o].state = "TRADE_ACTIVE" /\ ob'[o].state = "TRADE_ACTIVE"
           => ob'[o] = ob[o]

\* A candle that admits one of its contenders, or nobody, has that outcome.
LEMMA LivesAfterCandle ==
    ASSUME TypeInv, NEW a \in Assets, NEW t \in Hours, NEW wick, NEW side, NEW hit,
           NEW born \in Emissions(a, t), NEW winner,
           ProcessCandle(a, t, wick, side, hit, born, winner),
           winner # NoOB => winner \in Contenders(a, t, wick)
    PROVE  PoolOutcome(a, t, hit, winner)
<1> USE ParametersAssumption
<1>1. \A o \in born :
          /\ ob[o].state = "UNBORN" /\ AssetOf[o] = a
          /\ ob'[o] \in OBRecords
          /\ ob'[o].state = "AWAITING_DISPLACEMENT" /\ ob'[o].bos = t
  BY PoolAfterCandle
<1>2. \A o \in OBs \ born : o \in Candidates(a) =>
          ob'[o] = UpdateCandidate(o, t, wick, side, winner)
  BY PoolAfterCandle
<1>3. \A o \in OBs \ born : o \notin Candidates(a) =>
          ob'[o] = IF ExitDue(a, t, hit) /\ o = active.ob
                   THEN Dead("TRADE_CLOSED") ELSE ob[o]
  BY PoolAfterCandle
<1>4. ob' = [o \in OBs |-> ob'[o]]
  BY PoolAfterCandle
<1>5. \A o \in OBs : ob[o] \in OBRecords
  BY DEF TypeInv
<1>6. /\ Dead("TRADE_CLOSED") \in OBRecords
      /\ Dead("TRADE_CLOSED").state = "TRADE_CLOSED"
  <2>1. Unborn \in [state: OBStates, from: Nat, probe: BOOLEAN, bos: Nat]
    BY DEF Unborn, OBStates
  <2>2. "TRADE_CLOSED" \in OBStates
    BY DEF OBStates
  <2> QED
    BY <2>1, <2>2 DEF Dead, OBRecords
<1>7. \A o \in Candidates(a) :
          /\ o \in OBs /\ AssetOf[o] = a
          /\ ob[o].state \in {"AWAITING_DISPLACEMENT", "LIMIT_RESTING"}
  BY DEF Candidates
<1>8. \A o \in OBs : AssetOf[o] = a /\ ob[o].state \in {"AWAITING_DISPLACEMENT", "LIMIT_RESTING"}
                      => o \in Candidates(a)
  BY DEF Candidates
<1>9. winner # NoOB => winner \in Candidates(a) \ born /\ Reaches(winner, t, wick)
  BY <1>1, <1>7 DEF Contenders
<1>10. \A o \in Candidates(a) \ born :
          /\ ob'[o] \in OBRecords
          /\ ob'[o].state \in LiveStates \cup {"INVALIDATED"}
          /\ ob'[o].state = "TRADE_ACTIVE" => o = winner
          /\ ob'[o].state # "INVALIDATED" => ob'[o].bos = ob[o].bos
  BY <1>2, <1>7, UpdatedCandidate
<1>11. \A o \in Candidates(a) \ born :
          /\ ob'[o].state = "LIMIT_RESTING"
                => /\ ob'[o].from # 0
                   /\ mode = "FIRST_TOUCH_WINDOW" => t < ob'[o].from + Window
          /\ o = winner /\ Reaches(o, t, wick)
                => /\ ob'[o].state = "TRADE_ACTIVE" /\ ob'[o].bos = ob[o].bos
                   /\ ob'[o].from # 0 /\ ob'[o].from <= t
                   /\ mode = "FIRST_TOUCH_WINDOW" => t < ob'[o].from + Window
  BY <1>2, <1>7, InsideWindow
<1>12. \A o \in OBs : ob'[o] \in OBRecords
  BY <1>1, <1>3, <1>5, <1>6, <1>10
<1>13. ob' \in [OBs -> OBRecords]
  BY <1>4, <1>12
<1>14. ASSUME NEW o \in OBs
       PROVE  /\ ob'[o].state = "TRADE_ACTIVE" =>
                     \/ o = winner
                     \/ ob[o].state = "TRADE_ACTIVE" /\ Spared(o, a, t, hit)
              /\ \/ o = winner
                 \/ ob[o].state = "TRADE_ACTIVE" /\ Spared(o, a, t, hit)
                 => ob'[o].state = "TRADE_ACTIVE"
  <2>1. CASE o \in born
    BY <1>1, <1>7, <1>9, <2>1
  <2>2. CASE o \in Candidates(a) \ born
    BY <1>7, <1>9, <1>10, <1>11, <2>2
  <2>3. CASE o \in OBs \ born /\ o \notin Candidates(a)
    BY <1>3, <1>6, <1>9, <2>3 DEF Spared
  <2> QED
    BY <2>1, <2>2, <2>3
<1>15. ASSUME NEW o \in OBs, ob'[o].state \in LiveStates
       PROVE  \/ AssetOf[o] = a /\ ob'[o].bos = t
              \/ Live(o) /\ ob'[o].bos = ob[o].bos
  <2>1. CASE o \in born
    BY <1>1, <2>1
  <2>2. CASE o \in Candidates(a) \ born
    BY <1>7, <1>10, <1>15, <2>2 DEF Live, LiveStates
  <2>3. CASE o \in OBs \ born /\ o \notin Candidates(a)
    BY <1>3, <1>6, <1>15, <2>3 DEF Live, LiveStates
  <2> QED
    BY <2>1, <2>2, <2>3
<1>16. ASSUME NEW o \in OBs, ob'[o].state = "LIMIT_RESTING"
       PROVE  /\ ob'[o].from # 0
              /\ \/ ob'[o] = ob[o] /\ AssetOf[o] # a
                 \/ /\ AssetOf[o] = a
                    /\ mode = "FIRST_TOUCH_WINDOW" => t < ob'[o].from + Window
  <2>1. CASE o \in born
    BY <1>1, <1>16, <2>1
  <2>2. CASE o \in Candidates(a) \ born
    BY <1>7, <1>11, <1>16, <2>2
  <2>3. CASE o \in OBs \ born /\ o \notin Candidates(a)
    <3>1. ob'[o] = ob[o]
      BY <1>3, <1>6, <1>16, <2>3
    <3>2. ob[o].from # 0
      BY <1>16, <3>1 DEF TypeInv
    <3> QED
      BY <1>8, <1>16, <2>3, <3>1, <3>2
  <2> QED
    BY <2>1, <2>2, <2>3
<1>17. winner # NoOB =>
           /\ ob'[winner].bos = ob[winner].bos
           /\ ob'[winner].from # 0 /\ ob'[winner].from <= t
           /\ mode = "FIRST_TOUCH_WINDOW" => t < ob'[winner].from + Window
  BY <1>9, <1>11
<1>18. ASSUME NEW o \in OBs, ob[o].state = "TRADE_ACTIVE", ob'[o].state = "TRADE_ACTIVE"
       PROVE  ob'[o] = ob[o]
  BY <1>1, <1>3, <1>6, <1>7, <1>18
<1> QED
  BY <1>13, <1>14, <1>15, <1>16, <1>17, <1>18 DEF PoolOutcome

\* A candle keeps the invariant.
LEMMA CandleKeeps ==
    ASSUME CandleInv, NEW a \in Assets, NEW t \in Hours, NEW wick, NEW side,
           NEW hit \in BOOLEAN, NEW born \in Emissions(a, t),
           Candle(a, t, wick, side, hit, born)
    PROVE  CandleInv' /\ (closedAt' # closedAt => closedAt' > active.filledAt)
<1> DEFINE winner == Winner(a, t, wick, hit)
<1> USE ParametersAssumption
<1>1. /\ t \in Nat /\ t > mark[a] /\ mark[a] \in Nat
      /\ SlotInv /\ TypeInv
      /\ mode' = mode /\ scanned' = [scanned EXCEPT ![a] = t] /\ resumed' = resumed
  BY DEF CandleInv, SlotInv, TypeInv, Hours, Candle, ProcessCandle, Admissible
<1>2. \/ ExitDue(a, t, hit) /\ winner = NoOB /\ Closing(a, t)
      \/ ~ExitDue(a, t, hit) /\ winner # NoOB /\ Filling(a, t, wick, winner)
      \/ ~ExitDue(a, t, hit) /\ winner = NoOB /\ Idle(a, t)
  BY <1>1, CandleOutcome
<1>3. winner # NoOB => winner \in Contenders(a, t, wick)
  BY <1>2 DEF Filling
<1>4. ProcessCandle(a, t, wick, side, hit, born, winner)
  BY DEF Candle
<1> HIDE DEF winner
<1>o. PoolOutcome(a, t, hit, winner)
  BY <1>1, <1>3, <1>4, LivesAfterCandle
<1>5. ob' \in [OBs -> OBRecords]
  BY <1>o DEF PoolOutcome
<1>a. \A o \in OBs : ob'[o].state = "TRADE_ACTIVE" =>
          \/ o = winner
          \/ ob[o].state = "TRADE_ACTIVE" /\ Spared(o, a, t, hit)
  BY <1>o DEF PoolOutcome
<1>b. \A o \in OBs :
          \/ o = winner
          \/ ob[o].state = "TRADE_ACTIVE" /\ Spared(o, a, t, hit)
          => ob'[o].state = "TRADE_ACTIVE"
  BY <1>o DEF PoolOutcome
<1>6. \A o \in OBs : ob'[o].state \in LiveStates =>
          \/ AssetOf[o] = a /\ ob'[o].bos = t
          \/ Live(o) /\ ob'[o].bos = ob[o].bos
  BY <1>o DEF PoolOutcome
<1>7. \A o \in OBs : ob'[o].state = "LIMIT_RESTING" =>
          /\ ob'[o].from # 0
          /\ \/ ob'[o] = ob[o] /\ AssetOf[o] # a
             \/ /\ AssetOf[o] = a
                /\ mode = "FIRST_TOUCH_WINDOW" => t < ob'[o].from + Window
  BY <1>o DEF PoolOutcome
<1>8. winner # NoOB =>
          /\ ob'[winner].bos = ob[winner].bos
          /\ ob'[winner].from # 0 /\ ob'[winner].from <= t
          /\ mode = "FIRST_TOUCH_WINDOW" => t < ob'[winner].from + Window
  BY <1>o DEF PoolOutcome
<1>9. \A o \in OBs : ob[o].state = "TRADE_ACTIVE" /\ ob'[o].state = "TRADE_ACTIVE"
          => ob'[o] = ob[o]
  BY <1>o DEF PoolOutcome
<1>10. winner # NoOB => winner \in OBs /\ AssetOf[winner] = a /\ Live(winner)
  BY <1>3 DEF Contenders, Candidates, Live, LiveStates
<1>11. \A o \in OBs : AssetOf[o] \in Assets /\ o # NoOB
  OBVIOUS
<1>12. /\ mark' \in [Assets -> Nat]
       /\ \A b \in Assets : mark[b] \in Nat /\ mark'[b] >= mark[b]
       /\ \A b \in Assets \ {a} : mark'[b] = mark[b]
       /\ mark'[a] = t \/ (mark'[a] = mark[a] /\ t <= closedAt /\ closedAt' = closedAt)
  BY <1>1, <1>2 DEF TypeInv, Closing, Filling, Idle, Marked
<1>13. active.ob # NoOB =>
           /\ active.ob \in OBs /\ active.filledAt \in Nat
           /\ active.filledAt <= mark[AssetOf[active.ob]] /\ active.filledAt > closedAt
  BY <1>1 DEF SlotInv, TypeInv, FilledOnProcessedCandle, Trades
<1>14. closedAt \in Nat /\ closedAt' \in Nat /\ closedAt' >= closedAt
       /\ (closedAt' # closedAt => closedAt' > active.filledAt)
  BY <1>1, <1>2, <1>11, <1>13 DEF TypeInv, Closing, Filling, Idle
<1>15. TypeInv'
  <2>1. /\ active' \in Trades /\ (active'.ob = NoOB => active' = NoTrade)
        /\ lock' \in [holder: OBs \cup {NoOB}, closedAt: Nat]
        /\ balance' \in Nat /\ sizing' \in Nat \cup {NoSizing}
    BY <1>1, <1>2, <1>10
       DEF TypeInv, Closing, Filling, Idle, Trades, NoTrade, NoSizing
  <2>2. scanned' \in [Assets -> Nat]
    BY <1>1 DEF TypeInv
  <2> QED
    BY <1>1, <1>5, <1>7, <1>12, <1>14, <2>1, <2>2 DEF TypeInv
<1>16. SlotMirrorsTrade'
  <2>1. {o \in OBs : ob[o].state = "TRADE_ACTIVE"} = {active.ob} \ {NoOB}
        /\ lock.holder = active.ob
        /\ sizing = IF active.ob = NoOB THEN NoSizing ELSE balance
    BY <1>1 DEF SlotInv, SlotMirrorsTrade
  <2>2. lock'.holder = active'.ob
        /\ sizing' = IF active'.ob = NoOB THEN NoSizing ELSE balance'
    BY <1>2, <1>10, <1>11, <2>1 DEF Closing, Filling, Idle, NoTrade
  <2>3. \A o \in OBs : ob'[o].state = "TRADE_ACTIVE" <=> o = active'.ob
    <3>1. CASE ExitDue(a, t, hit) /\ winner = NoOB /\ Closing(a, t)
      BY <1>a, <1>b, <1>11, <2>1, <3>1 DEF Closing, NoTrade, Spared
    <3>2. CASE ~ExitDue(a, t, hit) /\ winner # NoOB /\ Filling(a, t, wick, winner)
      BY <1>a, <1>b, <1>11, <2>1, <3>2 DEF Filling, Spared
    <3>3. CASE ~ExitDue(a, t, hit) /\ winner = NoOB /\ Idle(a, t)
      BY <1>a, <1>b, <1>11, <2>1, <3>3 DEF Idle, Spared
    <3> QED
      BY <1>2, <3>1, <3>2, <3>3
  <2>4. active'.ob \in OBs \cup {NoOB}
    BY <1>15 DEF TypeInv, Trades
  <2> QED
    BY <1>11, <2>2, <2>3, <2>4 DEF SlotMirrorsTrade
<1>17. LockKnowsNoMore'
  BY <1>1, <1>2 DEF SlotInv, TypeInv, LockKnowsNoMore, Closing, Filling, Idle
<1>18. FilledOnProcessedCandle'
  <2>1. CASE Closing(a, t)
    BY <2>1 DEF Closing, FilledOnProcessedCandle, NoTrade
  <2>2. CASE winner # NoOB /\ Filling(a, t, wick, winner)
    BY <1>1, <1>10, <2>2 DEF Filling, FilledOnProcessedCandle, Marked, TypeInv
  <2>3. CASE Idle(a, t)
    BY <1>11, <1>12, <1>13, <2>3 DEF Idle, FilledOnProcessedCandle
  <2> QED
    BY <1>2, <2>1, <2>2, <2>3
<1>19. MadeBefore'
  <2> SUFFICES ASSUME NEW o \in OBs, ob'[o].state \in LiveStates
               PROVE  ob'[o].bos <= mark'[AssetOf[o]] \/ ob'[o].bos <= closedAt'
    BY DEF MadeBefore, Live
  <2>1. ob'[o].bos \in Nat /\ ob[o].bos \in Nat
    BY <1>1, <1>5 DEF TypeInv, OBRecords
  <2>2. CASE AssetOf[o] = a /\ ob'[o].bos = t
    BY <1>1, <1>12, <1>14, <2>2
  <2>3. CASE Live(o) /\ ob'[o].bos = ob[o].bos
    <3>1. ob[o].bos <= mark[AssetOf[o]] \/ ob[o].bos <= closedAt
      BY <2>3 DEF CandleInv, MadeBefore
    <3> QED
      BY <1>11, <1>12, <1>14, <2>1, <2>3, <3>1
  <2> QED
    BY <1>6, <2>2, <2>3
<1>20. EntriesInsideWindow'
  <2>1. CASE Closing(a, t)
    BY <2>1 DEF Closing, EntriesInsideWindow, NoTrade
  <2>2. CASE winner # NoOB /\ Filling(a, t, wick, winner)
    <3>1. ob[winner].bos \in Nat
      BY <1>1, <1>10, <2>2 DEF TypeInv, OBRecords
    <3>2. ob[winner].bos < t
      BY <1>1, <1>10, <1>14, <2>2, <3>1 DEF CandleInv, MadeBefore, Filling
    <3>3. active'.ob = winner /\ active'.filledAt = t
      BY <2>2 DEF Filling
    <3> QED
      BY <1>1, <1>8, <2>2, <3>2, <3>3 DEF EntriesInsideWindow
  <2>3. CASE Idle(a, t) /\ ~ExitDue(a, t, hit)
    <3>1. active' = active
      BY <2>3 DEF Idle
    <3>2. active.ob # NoOB => ob[active.ob].state = "TRADE_ACTIVE"
      BY <1>1 DEF SlotInv, SlotMirrorsTrade
    <3>3. active.ob # NoOB => ob'[active.ob].state = "TRADE_ACTIVE"
      BY <1>b, <1>13, <2>3, <3>2 DEF Spared
    <3>4. active.ob # NoOB => ob'[active.ob] = ob[active.ob]
      BY <1>9, <1>13, <3>2, <3>3
    <3> QED
      BY <1>1, <3>1, <3>4 DEF EntriesInsideWindow, CandleInv
  <2> QED
    BY <1>2, <2>1, <2>2, <2>3
<1>21. WindowsClose'
  <2> SUFFICES ASSUME mode = "FIRST_TOUCH_WINDOW", NEW o \in OBs,
                      ob'[o].state = "LIMIT_RESTING"
               PROVE  mark'[AssetOf[o]] < ob'[o].from + Window
    BY <1>1 DEF WindowsClose
  <2>1. ob'[o].from \in Nat
    BY <1>5 DEF OBRecords
  <2>2. mark'[a] <= t
    BY <1>1, <1>12
  <2>3. CASE ob'[o] = ob[o] /\ AssetOf[o] # a
    BY <1>11, <1>12, <2>3 DEF CandleInv, WindowsClose
  <2>4. CASE AssetOf[o] = a /\ t < ob'[o].from + Window
    BY <1>1, <1>12, <2>1, <2>2, <2>4
  <2> QED
    BY <1>7, <2>3, <2>4
<1> QED
  BY <1>1, <1>14, <1>15, <1>16, <1>17, <1>18, <1>19, <1>20, <1>21 DEF CandleInv, SlotInv

-----------------------------------------------------------------------------
(* A resumption keeps the invariant, and so does every step.               *)

\* A resumed process has the live blocks, the trade and the watermark of the one that
\* saved the snapshot, and a lock that knows of no close.
LEMMA ResumeKeeps ==
    ASSUME CandleInv, Resume(Snapshot)
    PROVE  CandleInv' /\ closedAt' = closedAt
<1> USE ParametersAssumption
<1>1. TypeInv /\ SlotInv
  BY DEF CandleInv, SlotInv
<1>2. /\ mode' = mode /\ active' = active /\ closedAt' = closedAt
      /\ mark' = mark /\ balance' = balance /\ sizing' = sizing /\ resumed' = TRUE
      /\ lock' = IF active.ob = NoOB THEN FreeLock ELSE Acquire(FreeLock, active.ob)
  BY DEF Resume, Snapshot, CaptureState, Activation, RestoreLifecycle, FromState,
         Reacquired
<1>3. lock' = [holder |-> active.ob, closedAt |-> 0]
  <2>1. FreeLock = [holder |-> NoOB, closedAt |-> 0]
    BY DEF FreeLock
  <2> QED
    BY <1>2, <2>1 DEF Acquire
<1>4. ob' = [o \in OBs |-> IF o \in {p \in OBs : Live(p)} THEN LivePool[o]
                          ELSE IF o \in Consumed(Snapshot.state) THEN Dead("CONSUMED")
                          ELSE Unborn]
  BY DEF Resume, RestoreLifecycle, Snapshot, CaptureState, LivePool
<1>5. /\ Dead("CONSUMED") \in OBRecords /\ Dead("CONSUMED").state = "CONSUMED"
      /\ Unborn \in OBRecords /\ Unborn.state = "UNBORN"
  <2>1. /\ Unborn \in [state: OBStates, from: Nat, probe: BOOLEAN, bos: Nat]
        /\ Unborn.state = "UNBORN"
    BY DEF Unborn, OBStates
  <2>2. "CONSUMED" \in OBStates
    BY DEF OBStates
  <2> QED
    BY <2>1, <2>2 DEF Dead, OBRecords
<1>6. \A o \in OBs :
          /\ ob'[o] \in OBRecords
          /\ Live(o) => ob'[o] = ob[o]
          /\ ~Live(o) => ob'[o].state \in {"CONSUMED", "UNBORN"}
  BY <1>1, <1>4, <1>5 DEF TypeInv, LivePool
<1>7. ob' \in [OBs -> OBRecords]
  BY <1>4, <1>6
<1>8. \A o \in OBs : ob'[o].state \in LiveStates => Live(o) /\ ob'[o] = ob[o]
  BY <1>6 DEF LiveStates
<1>9. scanned' \in [Assets -> Nat]
  <2>1. scanned' = [a \in Assets |-> NewestBar(CaptureState, a)]
    BY DEF Resume, RestoreLifecycle, Snapshot
  <2>2. ASSUME NEW a \in Assets PROVE NewestBar(CaptureState, a) \in Nat
    <3>1. CaptureState.scanners
            = [b \in {c \in Assets : scanned[c] # 0} |-> ScannerState(b)]
      BY DEF CaptureState
    <3>2. scanned[a] \in Nat /\ ScannerState(a).newest = scanned[a]
      BY <1>1 DEF TypeInv, ScannerState
    <3> QED
      BY <3>1, <3>2 DEF NewestBar
  <2> QED
    BY <2>1, <2>2
<1>10. active.ob # NoOB => Live(active.ob) /\ active.ob \in OBs
  BY <1>1 DEF SlotInv, SlotMirrorsTrade, TypeInv, Trades, Live, LiveStates
<1>11. TypeInv'
  <2>1. lock' \in [holder: OBs \cup {NoOB}, closedAt: Nat]
    BY <1>1, <1>3 DEF TypeInv, Trades
  <2>2. \A o \in OBs : ob'[o].state = "LIMIT_RESTING" => ob'[o].from # 0
    BY <1>1, <1>8 DEF TypeInv, LiveStates
  <2> QED
    BY <1>1, <1>2, <1>7, <1>9, <2>1, <2>2 DEF TypeInv
<1>12. SlotMirrorsTrade'
  <2>1. \A o \in OBs : ob'[o].state = "TRADE_ACTIVE" <=> ob[o].state = "TRADE_ACTIVE"
    BY <1>6, <1>8 DEF LiveStates, Live
  <2> QED
    BY <1>1, <1>2, <1>3, <2>1 DEF SlotInv, SlotMirrorsTrade
<1>13. LockKnowsNoMore' /\ FilledOnProcessedCandle'
  BY <1>1, <1>2, <1>3 DEF SlotInv, TypeInv, LockKnowsNoMore, FilledOnProcessedCandle
<1>14. MadeBefore'
  BY <1>2, <1>8 DEF CandleInv, MadeBefore, Live
<1>15. EntriesInsideWindow'
  BY <1>2, <1>6, <1>10 DEF CandleInv, EntriesInsideWindow
<1>16. WindowsClose'
  BY <1>2, <1>8 DEF CandleInv, WindowsClose, LiveStates
<1> QED
  BY <1>2, <1>11, <1>12, <1>13, <1>14, <1>15, <1>16 DEF CandleInv, SlotInv

\* A closed candle has its parts.
LEMMA CandleParts ==
    ASSUME NEW a, ClosedCandle(a)
    PROVE  \E t \in Hours : \E wick, side : \E hit \in BOOLEAN : \E born \in Emissions(a, t) :
               Candle(a, t, wick, side, hit, born)
  BY DEF ClosedCandle, Candle

\* What a step of the strategy may do to the invariant and to the last close.
LEMMA StepKeeps ==
    ASSUME CandleInv, [Next]_vars
    PROVE  CandleInv' /\ (active.ob # NoOB /\ closedAt' # closedAt
                             => closedAt' > active.filledAt)
<1>1. CASE UNCHANGED vars
  BY <1>1 DEF vars, lifecycle, strategy, runtime, CandleInv, SlotInv, TypeInv,
              SlotMirrorsTrade, LockKnowsNoMore, FilledOnProcessedCandle, MadeBefore,
              EntriesInsideWindow, WindowsClose, Live
<1>2. ASSUME NEW a \in Assets, ClosedCandle(a)
      PROVE  CandleInv' /\ (closedAt' # closedAt => closedAt' > active.filledAt)
  <2>1. PICK t \in Hours : \E wick, side : \E hit \in BOOLEAN : \E born \in Emissions(a, t) :
               Candle(a, t, wick, side, hit, born)
    BY <1>2, CandleParts
  <2> QED
    BY <2>1, CandleKeeps
<1>3. CASE Resume(Snapshot)
  BY <1>3, ResumeKeeps
<1> QED
  BY <1>1, <1>2, <1>3 DEF Next

-----------------------------------------------------------------------------
(* The theorems.                                                           *)

\* The inductive invariant holds.
THEOREM Invariance == Spec => []CandleInv
<1>1. CandleInv /\ [Next]_vars => CandleInv'
  BY StepKeeps
<1> QED
  BY Initially, <1>1, PTL DEF Spec

\* The lock is held by the trade the lifecycle runs, its order block is the only one that
\* trades, and it is sized on the balance as it stood at the fill, in every process and
\* after any number of resumptions.
THEOREM SlotSafety == Spec => []SlotMirrorsTrade
<1>1. CandleInv => SlotMirrorsTrade
  BY DEF CandleInv, SlotInv
<1> QED
  BY Invariance, <1>1, PTL

\* Until a process is resumed, its lifecycle and its lock refuse the same entries.
THEOREM GatesSafety == Spec => []GatesAgree
<1>1. CandleInv => GatesAgree
  BY DEF CandleInv, SlotInv, SlotMirrorsTrade, LockKnowsNoMore, GatesAgree,
         EntryBlocked, LockRefuses
<1> QED
  BY Invariance, <1>1, PTL

\* No trade is entered in the hour in which another closed, on any pair.
THEOREM ReentrySafety == Spec => []NoReentryWithinACandle
<1>1. CandleInv => NoReentryWithinACandle
  BY DEF CandleInv, SlotInv, FilledOnProcessedCandle, NoReentryWithinACandle
<1> QED
  BY Invariance, <1>1, PTL

\* A trade was entered after the candle that made its block, while its limit was live.
THEOREM EntrySafety == Spec => []EntriesInsideWindow
<1>1. CandleInv => EntriesInsideWindow
  BY DEF CandleInv
<1> QED
  BY Invariance, <1>1, PTL

\* No limit outlives its window.
THEOREM WindowSafety == Spec => []WindowsClose
<1>1. CandleInv => WindowsClose
  BY DEF CandleInv
<1> QED
  BY Invariance, <1>1, PTL

\* A trade never exits on the candle that filled it.
THEOREM ExitSafety == Spec => NoExitOnFillCandle
<1>1. CandleInv /\ [Next]_vars
         => [active.ob # NoOB /\ closedAt' # closedAt => closedAt' > active.filledAt]_vars
  BY StepKeeps
<1> QED
  BY Invariance, <1>1, PTL DEF Spec, NoExitOnFillCandle

\* What a candle offers for submission could be entered then.
LEMMA CandleOffers ==
    ASSUME NEW a \in Assets, ClosedCandle(a)
    PROVE  OffersAreSound'
<1> USE ParametersAssumption
<1>a. PICK t \in Hours : \E wick, side : \E hit \in BOOLEAN : \E born \in Emissions(a, t) :
             Candle(a, t, wick, side, hit, born)
  BY CandleParts
<1>1. PICK wick, side, hit, born : Candle(a, t, wick, side, hit, born)
  BY <1>a
<1> DEFINE winner  == Winner(a, t, wick, hit)
           blocked == Contenders(a, t, wick) \ {winner}
           books   == HandleEvents(t, ExitDue(a, t, hit), winner, blocked)
<1>2. /\ lock' = books.lock
      /\ offered' = {} \/ offered' = ReadyDecisions(Decisions(a, blocked, books.lock))
  BY <1>1 DEF Candle, Evaluate
<1> HIDE DEF winner, blocked, books
<1>3. offered' \subseteq ReadyDecisions(Decisions(a, blocked, lock'))
  BY <1>2
<1> SUFFICES ASSUME NEW o \in offered'
             PROVE  /\ ob'[o].state = "LIMIT_RESTING"
                    /\ active'.ob = NoOB /\ lock'.holder = NoOB /\ o \in Affordable
  BY DEF OffersAreSound, Affordable
<1>4. /\ o \in OBs /\ ob'[o].state \in {"AWAITING_DISPLACEMENT", "LIMIT_RESTING"}
      /\ SetupState(o, blocked, lock') = "TRADE_SETUP_READY"
  BY <1>3 DEF ReadyDecisions, Decisions
<1>5. ob'[o].state # "AWAITING_DISPLACEMENT" /\ Placeable(o, blocked, lock')
  BY <1>4 DEF SetupState
<1>6. Zone[o] \in Zones /\ Sendable(Zone[o])
  BY <1>4, <1>5 DEF Placeable, Executable
<1>7. o \in Affordable
  BY <1>4, <1>6, SendableKeepsBudget DEF Affordable
<1> QED
  BY <1>4, <1>5, <1>7 DEF Placeable

\* What is offered for submission could be entered: its limit rests, the slot is free in
\* the lifecycle and in the lock, and its legs keep the risk budget on the price grid of
\* the exchange, whatever the prices of the block and the tick size.
THEOREM OfferSafety == Spec => []OffersAreSound
<1>1. Init => OffersAreSound
  BY DEF Init, OffersAreSound
<1>2. OffersAreSound /\ [Next]_vars => OffersAreSound'
  <2> SUFFICES ASSUME OffersAreSound, [Next]_vars PROVE OffersAreSound'
    OBVIOUS
  <2>1. CASE UNCHANGED vars
    BY <2>1 DEF vars, lifecycle, strategy, runtime, OffersAreSound, Affordable
  <2>2. CASE Resume(Snapshot)
    BY <2>2 DEF Resume, OffersAreSound
  <2> QED
    BY <2>1, <2>2, CandleOffers DEF Next
<1> QED
  BY <1>1, <1>2, PTL DEF Spec

-----------------------------------------------------------------------------
(* The clock all pairs share, and type correctness.                        *)

\* _last_global_ts is the newest mark, and no trade was closed after it.
ClockIsNewestMark ==
    /\ lastTs \in Nat
    /\ \E a \in Assets : mark[a] = lastTs
    /\ \A a \in Assets : mark[a] <= lastTs
    /\ closedAt <= lastTs

\* What is offered is an order block, and a candle raises no fault but that of the lock,
\* and that in a resumed process only.
ReportTyped ==
    /\ offered \subseteq OBs
    /\ fault \in {"none", "PortfolioLockDesyncError"}
    /\ fault # "none" => resumed

ClockInv == CandleInv /\ ClockIsNewestMark /\ ReportTyped

\* A candle moves the clock to its hour, or raises and leaves it.
LEMMA CandleMovesClock ==
    ASSUME ClockInv, NEW a \in Assets, ClosedCandle(a)
    PROVE  ClockIsNewestMark' /\ ReportTyped'
<1>a. PICK t \in Hours : \E wick, side : \E hit \in BOOLEAN : \E born \in Emissions(a, t) :
             Candle(a, t, wick, side, hit, born)
  BY CandleParts
<1>1. PICK wick, side, hit, born : hit \in BOOLEAN /\ Candle(a, t, wick, side, hit, born)
  BY <1>a
<1>2. /\ SlotInv /\ t \in Nat /\ t >= lastTs /\ lastTs \in Nat /\ closedAt \in Nat
      /\ mark \in [Assets -> Nat]
      /\ closedAt <= lastTs /\ \A b \in Assets : mark[b] <= lastTs
  BY <1>1 DEF ClockInv, ClockIsNewestMark, CandleInv, SlotInv, TypeInv, Hours, Candle,
              Admissible
<1>3. /\ \/ fault' = "none" /\ Marked(a, t) /\ lastTs' = t
         \/ /\ fault' = "PortfolioLockDesyncError"
            /\ mark' = mark /\ lastTs' = lastTs /\ closedAt' = closedAt
      /\ \A o \in offered' : o \in OBs
  BY <1>1, <1>2, CandleReports
<1>4. closedAt' = t \/ closedAt' = closedAt
  BY <1>1 DEF Candle, ProcessCandle
<1>8. fault' # "none" => resumed'
  <2>1. fault' # "none" => t <= closedAt /\ ~LockRefuses(lock, t)
    BY <1>1, <1>2, CandleReports
  <2>2. resumed' = resumed /\ (~resumed => lock.closedAt = closedAt)
    BY <1>1, <1>2 DEF Candle, SlotInv, LockKnowsNoMore
  <2> QED
    BY <2>1, <2>2 DEF LockRefuses
<1>5. ReportTyped'
  BY <1>3, <1>8 DEF ReportTyped
<1>6. CASE Marked(a, t) /\ lastTs' = t
  <2>1. mark'[a] = t /\ \A b \in Assets \ {a} : mark'[b] = mark[b]
    BY <1>2, <1>6 DEF Marked
  <2> QED
    BY <1>2, <1>4, <1>5, <1>6, <2>1 DEF ClockIsNewestMark
<1>7. CASE mark' = mark /\ lastTs' = lastTs /\ closedAt' = closedAt
  BY <1>5, <1>7 DEF ClockInv, ClockIsNewestMark
<1> QED
  BY <1>3, <1>6, <1>7

\* The watermark of a snapshot yields the clock again.
LEMMA ResumeKeepsClock ==
    ASSUME ClockInv, Resume(Snapshot)
    PROVE  ClockIsNewestMark' /\ ReportTyped'
<1>1. /\ mark' = mark /\ closedAt' = closedAt /\ offered' = {} /\ fault' = "none"
      /\ lastTs' = NewestMark(Snapshot.state) /\ Snapshot.state.marks = mark
  BY DEF Resume, RestoreLifecycle, FromState, Snapshot, CaptureState
<1> DEFINE S == {mark[a] : a \in Assets}
<1>2. lastTs' = CHOOSE t \in S : \A a \in Assets : mark[a] <= t
  BY <1>1 DEF NewestMark
<1>3. lastTs \in S /\ \A a \in Assets : mark[a] <= lastTs
  BY DEF ClockInv, ClockIsNewestMark
<1>4. lastTs' \in S /\ \A a \in Assets : mark[a] <= lastTs'
  BY <1>2, <1>3
<1>5. \A a \in Assets : mark[a] \in Nat
  BY DEF ClockInv, CandleInv, SlotInv, TypeInv
<1>6. lastTs <= lastTs' /\ lastTs' <= lastTs /\ lastTs \in Nat /\ lastTs' \in Nat
  BY <1>3, <1>4, <1>5
<1>7. lastTs' = lastTs
  BY <1>6
<1>8. ClockIsNewestMark'
  BY <1>1, <1>7 DEF ClockInv, ClockIsNewestMark
<1> QED
  BY <1>1, <1>8 DEF ReportTyped

\* No pair has a mark yet.
LEMMA ClockInitially == Init => ClockInv
<1> SUFFICES ASSUME Init PROVE ClockIsNewestMark /\ ReportTyped
  BY Initially DEF ClockInv
<1>1. PICK a \in Assets : TRUE
  BY ParametersAssumption
<1> QED
  BY <1>1 DEF Init, ClockIsNewestMark, ReportTyped

\* Every step of the strategy keeps the clock.
LEMMA ClockSteps == ClockInv /\ [Next]_vars => ClockInv'
<1> SUFFICES ASSUME ClockInv, [Next]_vars PROVE ClockInv'
  OBVIOUS
<1>1. CandleInv'
  BY StepKeeps DEF ClockInv
<1>2. CASE UNCHANGED vars
  <2>1. ClockIsNewestMark' /\ ReportTyped'
    BY <1>2 DEF ClockInv, ClockIsNewestMark, ReportTyped, vars, lifecycle, strategy, runtime
  <2> QED
    BY <1>1, <2>1 DEF ClockInv
<1>3. ASSUME NEW a \in Assets, ClosedCandle(a) PROVE ClockInv'
  BY <1>1, <1>3, CandleMovesClock DEF ClockInv
<1>4. CASE Resume(Snapshot)
  BY <1>1, <1>4, ResumeKeepsClock DEF ClockInv
<1> QED
  BY <1>2, <1>3, <1>4 DEF Next

\* The clock of every process is its newest mark, a resumed one included, and no close
\* is newer.
THEOREM ClockInvariance == Spec => []ClockInv
  BY ClockInitially, ClockSteps, PTL DEF Spec

\* Every variable holds a value of its kind; a limit rests from some bar on.
THEOREM TypeCorrect == Spec => []TypeOK
<1>1. ClockInv => TypeOK
  BY DEF ClockInv, ClockIsNewestMark, ReportTyped, CandleInv, SlotInv, TypeInv, TypeOK, Faults
<1> QED
  BY ClockInvariance, <1>1, PTL

\* Until a process is resumed its lifecycle and its lock agree about every entry; what
\* the resumed one raises is the disagreement that run smc_resume exhibits.
THEOREM AdmissionsAgreeUnlessResumed == Spec => [](~resumed => AdmissionsNeverDisagree)
<1>1. ClockInv => (~resumed => AdmissionsNeverDisagree)
  BY DEF ClockInv, ReportTyped, AdmissionsNeverDisagree
<1> QED
  BY ClockInvariance, <1>1, PTL

\* Every step of the feed callback, of a submission, of the exchange or of a restart is
\* a step of the strategy or leaves it alone.
LEMMA SubmissionStep == [SubmitNext]_<<vars, desk>> => [Next]_vars
<1> SUFFICES ASSUME [SubmitNext]_<<vars, desk>> PROVE [Next]_vars
  OBVIOUS
<1>1. CASE \E a \in Assets : CandleCallback(a)
  BY <1>1 DEF CandleCallback, Next
<1>2. CASE Restart
  BY <1>2 DEF Restart, Next
<1>3. CASE \E i \in 1..Len(tasks) : CancelExpiredEntries(i) \/ ScanAndExecute(i)
  BY <1>3 DEF CancelExpiredEntries, ScanAndExecute
<1>4. CASE SubmissionReturns \/ ExchangeMoves \/ LeftOrderEnds
  BY <1>4 DEF SubmissionReturns, ExchangeMoves, LeftOrderEnds
<1> QED
  BY <1>1, <1>2, <1>3, <1>4 DEF SubmitNext

\* The runtime that submits its candles to an orchestrator runs the same strategy, so that
\* what holds of the strategy holds of it.
THEOREM SubmissionRunsTheStrategy == SubmitSpec => Spec
<1>1. SubmitInit => Init
  BY DEF SubmitInit
<1> QED
  BY <1>1, SubmissionStep, PTL DEF SubmitSpec, Spec
=============================================================================
