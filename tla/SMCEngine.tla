----------------------------- MODULE SMCEngine -----------------------------
(***************************************************************************)
(* The structure and order-block engine of market_data/incremental_engine  *)
(* and smc/: what one closed candle does to it, and what it rebuilds from  *)
(* a file of candles.                                                      *)
(*                                                                         *)
(* The engine is a value, changed by Initialize and ProcessNew.  A candle  *)
(* carries "wild": its range is at least atr_multiplier times the ATR      *)
(* (volatility.py), the only thing the engine reads of the ATR.  Positions *)
(* count from 1 where the code counts from 0; position 0 is None.          *)
(***************************************************************************)
EXTENDS Integers, Sequences, SequencesExt

CONSTANTS
    InternalLength,   \* internal_length
    SwingLength,      \* swing_length
    AtrPeriod         \* atr_period

ASSUME EngineAssumption ==
    {InternalLength, SwingLength, AtrPeriod} \subseteq Nat \ {0}

Scopes == {"internal", "swing"}
LengthOf(scope) == IF scope = "swing" THEN SwingLength ELSE InternalLength

\* Two functions in one, the first where both are defined.
Over(f, g) == [x \in DOMAIN f \cup DOMAIN g |-> IF x \in DOMAIN f THEN f[x] ELSE g[x]]

\* parse_candles_with_volatility refuses a shorter series.
Enough(n) == n >= AtrPeriod + 1

\* The candle at position i of the series, its high and low swapped when wild.
Parsed(c, i) ==
    IF c.wild /\ i >= AtrPeriod
    THEN Over(c, [parsedHigh |-> c.low, parsedLow |-> c.high])
    ELSE Over(c, [parsedHigh |-> c.high, parsedLow |-> c.low])

Series(cs) == [i \in DOMAIN cs |-> Parsed(cs[i], i)]

-----------------------------------------------------------------------------
(* StructureDetector: legs, pivots and the breaks of a pivot.              *)

NoPivot == [at |-> 0, price |-> 0, crossed |-> FALSE]
NewDetector == [leg |-> 0, high |-> NoPivot, low |-> NoPivot, trend |-> "RANGING"]

\* The leg the candle size bars ago opens: 0 when it tops and bottoms nothing.
NewLeg(hist, size) ==
    LET n == Len(hist)
        old == hist[n - size]
        recent == (n - size + 1)..n
    IN  IF \A k \in recent : old.high > hist[k].high THEN -1
        ELSE IF \A k \in recent : old.low < hist[k].low THEN 1
        ELSE 0

\* A leg that turns leaves a pivot; the first leg leaves none.
OnLegChange(d, leg, hist, at) ==
    [d EXCEPT
        !.leg = leg,
        !.high = IF d.leg = 1 /\ leg = -1
                 THEN [at |-> at, price |-> hist[at].high, crossed |-> FALSE] ELSE @,
        !.low = IF d.leg = -1 /\ leg = 1
                THEN [at |-> at, price |-> hist[at].low, crossed |-> FALSE] ELSE @]

Turned(d, hist, size) ==
    LET leg == NewLeg(hist, size)
    IN  IF leg \in {0, d.leg} THEN d ELSE OnLegChange(d, leg, hist, Len(hist) - size)

PreviousClose(hist) == hist[IF Len(hist) >= 2 THEN Len(hist) - 1 ELSE 1].close

CrossesUp(d, hist) ==
    /\ d.high.at # 0 /\ ~d.high.crossed
    /\ PreviousClose(hist) <= d.high.price
    /\ Last(hist).close > d.high.price

CrossesDown(d, hist) ==
    /\ d.low.at # 0 /\ ~d.low.crossed
    /\ PreviousClose(hist) >= d.low.price
    /\ Last(hist).close < d.low.price

StructureBreak(d, hist, up) ==
    [at |-> Len(hist), up |-> up, price |-> Last(hist).close,
     type |-> IF d.trend = (IF up THEN "BEARISH" ELSE "BULLISH") THEN "CHOCH" ELSE "BOS"]

\* A pivot is broken once, and only a break changes the trend.
CheckStructureBreaks(d, hist) ==
    IF CrossesUp(d, hist)
    THEN [d |-> [d EXCEPT !.high.crossed = TRUE, !.trend = "BULLISH"],
          breaks |-> <<StructureBreak(d, hist, TRUE)>>]
    ELSE IF CrossesDown(d, hist)
    THEN [d |-> [d EXCEPT !.low.crossed = TRUE, !.trend = "BEARISH"],
          breaks |-> <<StructureBreak(d, hist, FALSE)>>]
    ELSE [d |-> d, breaks |-> <<>>]

\* One candle, already the last of hist.
DetectorStep(d, hist, size) ==
    IF Len(hist) <= size
    THEN [d |-> d, breaks |-> <<>>]
    ELSE CheckStructureBreaks(Turned(d, hist, size), hist)

\* A whole series through a fresh detector.
DetectAllAhead(series, size) ==
    FoldLeft(LAMBDA run, i :
                 LET step == DetectorStep(run.d, series, size)
                 IN  [d |-> step.d, breaks |-> run.breaks \o step.breaks],
             [d |-> NewDetector, breaks |-> <<>>],
             [i \in DOMAIN series |-> i])
DetectAll(series, size) ==
    FoldLeft(LAMBDA run, i :
                 LET step == DetectorStep(run.d, SubSeq(series, 1, i), size)
                 IN  [d |-> step.d, breaks |-> run.breaks \o step.breaks],
             [d |-> NewDetector, breaks |-> <<>>],
             [i \in DOMAIN series |-> i])

-----------------------------------------------------------------------------
(* OrderBlockDetector and the life of an order block.                      *)

\* The pivot the break went through, among the pivots the detector holds now.
BrokenPivot(brk, d, size) ==
    LET p == IF brk.up THEN d.high ELSE d.low
        through == IF brk.up THEN brk.price > p.price ELSE brk.price < p.price
        fallback == IF brk.at - size > 1 THEN brk.at - size ELSE 1
    IN  IF p.at # 0 /\ p.at < brk.at /\ through THEN p.at ELSE fallback

\* The first position of the parsed extreme between the pivot and the break.
Extreme(parsed, from, to, up) ==
    LET value(i) == IF up THEN parsed[i].parsedLow ELSE -parsed[i].parsedHigh
    IN  CHOOSE i \in from..(to - 1) :
            \A j \in from..(to - 1) : value(i) <= value(j) /\ (j < i => value(i) < value(j))

OrderBlock(parsed, brk, d, scope, live) ==
    LET from == BrokenPivot(brk, d, LengthOf(scope))
        at == Extreme(parsed, from, brk.at, brk.up)
    IN  IF from >= brk.at THEN <<>>
        ELSE <<[scope |-> scope, up |-> brk.up, type |-> brk.type,
                top |-> parsed[at].high, bottom |-> parsed[at].low,
                brk |-> brk.at, state |-> "FRESH", touches |-> 0, active |-> TRUE,
                live |-> live]>>

BlocksOf(parsed, breaks, d, scope, live) ==
    FlattenSeq([i \in DOMAIN breaks |-> OrderBlock(parsed, breaks[i], d, scope, live)])

Overlaps(ob, c) == c.low <= ob.top /\ c.high >= ob.bottom
ClosesThrough(ob, c) == IF ob.up THEN c.close < ob.bottom ELSE c.close > ob.top

CheckTouch(ob, c) ==
    IF Overlaps(ob, c) THEN [ob EXCEPT !.state = "TOUCHED", !.touches = @ + 1] ELSE ob

CheckInvalidation(ob, c) ==
    IF ClosesThrough(ob, c) THEN [ob EXCEPT !.state = "INVALIDATED", !.active = FALSE]
    ELSE ob

\* at is the candle's place among all candles, brk a place among parsed ones.
AgedWhileFresh(ob, c, at) ==
    IF ob.state = "FRESH" /\ ob.brk < at
    THEN CheckInvalidation(CheckTouch(ob, c), c) ELSE ob
Aged(ob, c, at) ==
    IF ob.active /\ ob.brk < at THEN CheckInvalidation(CheckTouch(ob, c), c) ELSE ob

-----------------------------------------------------------------------------
(* IncrementalSMCEngine                                                    *)

NoEngine == [ready |-> FALSE, candles |-> <<>>, parsed |-> <<>>, obs |-> <<>>, last |-> 0,
             internal |-> NewDetector, swing |-> NewDetector]

\* A short history is kept as it is: nothing of it reaches the detectors.
InitializeShort(cs) ==
    [NoEngine EXCEPT !.ready = TRUE, !.candles = cs, !.last = Last(cs).hour]

\* A long one runs through the detectors first; its blocks come afterwards,
\* from the pivots left at the end, and are not aged.
InitializeLong(cs) ==
    LET series == Series(cs)
        internal == DetectAll(series, InternalLength)
        swing == DetectAll(series, SwingLength)
    IN  [ready |-> TRUE, candles |-> cs, parsed |-> series, last |-> Last(cs).hour,
         internal |-> internal.d, swing |-> swing.d,
         obs |-> BlocksOf(series, internal.breaks, internal.d, "internal", FALSE)
                     \o BlocksOf(series, swing.breaks, swing.d, "swing", FALSE)]

\* initialize_from_canonical raises on an empty file.
Initialize(cs) ==
    IF cs = <<>> THEN NoEngine
    ELSE IF Enough(Len(cs)) THEN InitializeLong(cs) ELSE InitializeShort(cs)

ProcessCandle(e, c) ==
    LET candles == Append(e.candles, c)
        at == Len(candles)
        parsed == Append(e.parsed, Parsed(c, at))
        internal == DetectorStep(e.internal, parsed, InternalLength)
        swing == DetectorStep(e.swing, parsed, SwingLength)
        obs == e.obs \o BlocksOf(parsed, internal.breaks, internal.d, "internal", TRUE)
                     \o BlocksOf(parsed, swing.breaks, swing.d, "swing", TRUE)
    IN  IF ~Enough(at)
        THEN [e EXCEPT !.candles = candles, !.last = c.hour]
        ELSE [e EXCEPT !.candles = candles, !.parsed = parsed, !.last = c.hour,
                       !.internal = internal.d, !.swing = swing.d,
                       !.obs = [k \in DOMAIN obs |-> Aged(obs[k], c, at)]]

\* Before initialisation it raises; the feed swallows that.
ProcessNewUnordered(e, c) ==
    IF e.ready /\ c.hour # e.last THEN ProcessCandle(e, c) ELSE e
ProcessNew(e, c) ==
    IF e.ready /\ c.hour > e.last THEN ProcessCandle(e, c) ELSE e

=============================================================================
