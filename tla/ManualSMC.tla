----------------------------- MODULE ManualSMC ------------------------------
(***************************************************************************)
(* The Manual SMC strategy as one process drives it: the order-block       *)
(* lifecycle, the portfolio lock that mirrors its single trade slot, the   *)
(* processed-candle watermark, the settlement of trades and the snapshot   *)
(* from which a restarted process resumes.                                 *)
(*                                                                         *)
(* A candle is one atomic step (ManualSMCRuntime.on_closed_candle makes no *)
(* await).  Bars are hours counted from 1, so a bar index and a timestamp  *)
(* are the same number and 0 stands for an absent one.  Prices are         *)
(* abstracted to how deep the wick went into an order block, on which side *)
(* of its near edge the candle closed, and whether it reached an exit of   *)
(* the open trade.                                                         *)
(***************************************************************************)
EXTENDS OBBracket, FiniteSets

CONSTANTS
    Assets,        \* the pairs the runtime drives
    OBs,           \* the order blocks the scanner may ever emit
    AssetOf,       \* the asset of an order block
    Zone,          \* the prices of an order block
    Modes,         \* activation modes a process may be built with
    Window,        \* entry_window_candles
    Hold,          \* max_holding_bars
    NoOB,          \* no order block
    MaxHours       \* bound: hours the market runs

ASSUME ParametersAssumption ==
    /\ Assets # {}
    /\ AssetOf \in [OBs -> Assets]
    /\ NoOB \notin OBs
    /\ Zone \in [OBs -> Zones]
    /\ Modes # {} /\ Modes \subseteq {"FIRST_TOUCH_WINDOW", "C_PROBE_PULLBACK"}
    /\ Window \in Nat \ {0} /\ Hold \in Nat \ {0}
    /\ MaxHours \in Nat

VARIABLES
    mode,       \* ManualSMCLifecycle.activation_mode
    ob,         \* every order block's record; the pool is those still live
    active,     \* active_trade: its order block and fill_dt
    closedAt,   \* _last_trade_closed_dt
    scanned,    \* newest bar in each scanner's history
    mark,       \* CandleWatermark: the last processed bar of each asset
    lastTs,     \* ManualSMCStrategy._last_global_ts
    lock,       \* PortfolioLock: holder and last_closed_dt
    balance,    \* trades compounded into the account balance so far
    sizing,     \* the balance the open trade was sized on (_open_sizing)
    offered,    \* ready decisions of the last candle
    fault,      \* the exception the last candle raised
    resumed     \* whether the process was rebuilt from a snapshot

lifecycle == <<mode, ob, active, closedAt, scanned>>
strategy  == <<mark, lastTs, lock, balance, sizing>>
runtime   == <<offered, fault, resumed>>
vars == <<lifecycle, strategy, runtime>>

Hours == 1..MaxHours
Wicks == {"outside", "zone", "entry", "distal"}
Sides == {"beyond", "edge", "back"}
LiveStates == {"AWAITING_DISPLACEMENT", "LIMIT_RESTING", "TRADE_ACTIVE"}
\* UNBORN blocks are still to come.  A dead one has left the pool; of one that
\* died before a resumption only the consumed origin is known.
OBStates == LiveStates \cup
            {"UNBORN", "TRADE_CLOSED", "INVALIDATED", "CONSUMED"}
Faults == {"none", "PortfolioLockDesyncError", "StrategyStateError"}

NoTrade  == [ob |-> NoOB, filledAt |-> 0]
NoSizing == -1
Unborn   == [state |-> "UNBORN", from |-> 0, probe |-> FALSE, bos |-> 0]
FreeLock == [holder |-> NoOB, closedAt |-> 0]

OBRecords == [state: OBStates, from: Nat, probe: BOOLEAN, bos: Nat]
Trades    == [ob: OBs \cup {NoOB}, filledAt: Nat]
Dead(state) == [Unborn EXCEPT !.state = state]

-----------------------------------------------------------------------------
(* ManualSMCLifecycle                                                      *)

Live(o) == ob[o].state \in LiveStates

\* candidate_obs: live, neither filled nor dead.
Candidates(a) == {o \in OBs : /\ AssetOf[o] = a
                              /\ ob[o].state \in {"AWAITING_DISPLACEMENT",
                                                  "LIMIT_RESTING"}}

Short == {o \in OBs : Zone[o].direction = "SHORT"}

\* Insertion order of the pool among one asset's blocks: by the candle that
\* admitted them, and the scanner emits SHORT before LONG.
Earlier(o, p) == \/ ob[o].bos < ob[p].bos
                 \/ ob[o].bos = ob[p].bos /\ o \in Short /\ p \notin Short

\* Step 1: the candle closes the active trade (either exit, or the horizon).
ExitDue(a, t, hit) ==
    /\ active.ob # NoOB
    /\ AssetOf[active.ob] = a
    /\ hit \/ t - active.filledAt >= Hold

\* Mutant: the window does not count the candle that armed the limit.
WindowAfterTouch(o) == ob[o].from + Window

\* Step 2, one order block at a time.
LastBar(o) == ob[o].from + Window - 1
Breached(o, wick) == wick[o] = "distal"
Expired(o, t) == /\ mode = "FIRST_TOUCH_WINDOW"
                 /\ ob[o].state = "LIMIT_RESTING"
                 /\ t > LastBar(o)
\* Mutant: an entry that is reached spares the limit from expiring.
SparedByTouch(o, t, wick) ==
    Breached(o, wick) \/ (Expired(o, t) /\ wick[o] # "entry")

Dies(o, t, wick) == Breached(o, wick) \/ Expired(o, t)
FirstTouch(o, wick) == /\ mode = "FIRST_TOUCH_WINDOW"
                       /\ ob[o].state = "AWAITING_DISPLACEMENT"
                       /\ wick[o] \in {"zone", "entry"}
Probes(o, side) == ~ob[o].probe /\ side[o] = "beyond"
Displaces(o, side) == ob[o].probe /\ side[o] = "back"

\* The entry level is reached while the limit is live.
Reaches(o, t, wick) ==
    /\ ~Dies(o, t, wick)
    /\ wick[o] = "entry"
    /\ \/ ob[o].state = "LIMIT_RESTING" /\ t >= ob[o].from
       \/ FirstTouch(o, wick)
Contenders(a, t, wick) == {o \in Candidates(a) : Reaches(o, t, wick)}

\* Mutant: only an open trade blocks an entry.
BlockedByTradeOnly(trade, closed, t) == trade.ob # NoOB

\* _entry_blocked, evaluated after step 1 of the same candle.
EntryBlocked(trade, closed, t) == trade.ob # NoOB \/ t <= closed

\* The one contender the sweep admits: the first of the pool, if the slot is free.
Winner(a, t, wick, hit) ==
    LET trade  == IF ExitDue(a, t, hit) THEN NoTrade ELSE active
        closed == IF ExitDue(a, t, hit) THEN t ELSE closedAt
        Among  == Contenders(a, t, wick)
    IN  IF EntryBlocked(trade, closed, t) \/ Among = {} THEN NoOB
        ELSE CHOOSE o \in Among : \A p \in Among \ {o} : ~Earlier(p, o)

\* Mutant: the first touch does not record the bar that armed the limit.
TouchWithoutBar(o, t, wick, side) ==
    IF FirstTouch(o, wick) THEN [ob[o] EXCEPT !.state = "LIMIT_RESTING"]
    ELSE ob[o]

UpdateAwaiting(o, t, wick, side) ==
    IF mode = "FIRST_TOUCH_WINDOW"
    THEN IF FirstTouch(o, wick)
         THEN [ob[o] EXCEPT !.state = "LIMIT_RESTING", !.from = t]
         ELSE ob[o]
    ELSE IF Displaces(o, side)
         THEN [ob[o] EXCEPT !.state = "LIMIT_RESTING", !.from = t + 1]
         ELSE [ob[o] EXCEPT !.probe = @ \/ Probes(o, side)]

UpdateCandidate(o, t, wick, side, winner) ==
    LET swept == IF ob[o].state = "AWAITING_DISPLACEMENT"
                 THEN UpdateAwaiting(o, t, wick, side) ELSE ob[o]
    IN  IF Dies(o, t, wick) THEN Dead("INVALIDATED")
        ELSE IF o = winner THEN [swept EXCEPT !.state = "TRADE_ACTIVE"]
        ELSE swept

\* Step 3: what the scanner may emit on this candle, at most one per direction.
Emissions(a, t) ==
    {B \in SUBSET {o \in OBs : ob[o].state = "UNBORN" /\ AssetOf[o] = a} :
        /\ Cardinality(B \cap Short) <= 1
        /\ Cardinality(B \ Short) <= 1
        /\ scanned[a] = 0 => B = {}}

\* _close_trade, _step2_update_obs and _step3_scan_and_admit, on the pool.
CloseTrade(pool) == [pool EXCEPT ![active.ob] = Dead("TRADE_CLOSED")]
Sweep(pool, a, t, wick, side, winner) ==
    [o \in OBs |-> IF o \in Candidates(a)
                  THEN UpdateCandidate(o, t, wick, side, winner) ELSE pool[o]]
Admit(pool, t, born) ==
    [o \in OBs |-> IF o \in born
                  THEN [Unborn EXCEPT !.state = "AWAITING_DISPLACEMENT", !.bos = t]
                  ELSE pool[o]]

\* Resolve, update, scan: in this order.
ProcessCandle(a, t, wick, side, hit, born, winner) ==
    LET resolved == IF ExitDue(a, t, hit) THEN CloseTrade(ob) ELSE ob
    IN  /\ ob' = Admit(Sweep(resolved, a, t, wick, side, winner), t, born)
        /\ active' = IF winner # NoOB THEN [ob |-> winner, filledAt |-> t]
                     ELSE IF ExitDue(a, t, hit) THEN NoTrade ELSE active
        /\ closedAt' = IF ExitDue(a, t, hit) THEN t ELSE closedAt
        /\ scanned' = [scanned EXCEPT ![a] = t]
        /\ UNCHANGED mode

\* The INVALIDATED events of a candle.
Invalidated == {o \in OBs : Live(o) /\ ob'[o].state = "INVALIDATED"}

-----------------------------------------------------------------------------
(* PortfolioLock                                                           *)

\* evaluate: would an acquisition at t be refused?
LockRefuses(lk, t) == lk.holder # NoOB \/ t <= lk.closedAt

\* Mutant: the close is not remembered.
ForgetsClose(lk, t) == [lk EXCEPT !.holder = NoOB]

Release(lk, t) == [lk EXCEPT !.holder = NoOB, !.closedAt = t]
Acquire(lk, o) == [lk EXCEPT !.holder = o]

-----------------------------------------------------------------------------
(* ManualSMCStrategy                                                       *)

\* Mutant: a replayed candle is not recognised.
ReplaysCandle(a, t) == t >= lastTs

\* _precheck_candle_order: not a duplicate, in order for its asset, and not
\* older than the last candle processed for any asset.
Admissible(a, t) == t > mark[a] /\ t >= lastTs

\* What the handlers of a candle's events share.
Books == [lock |-> lock, balance |-> balance, sizing |-> sizing, fault |-> "none"]
Raise(books, error) == [books EXCEPT !.fault = error]

\* _on_trade_closed: settle the trade, release the slot.
OnTradeClosed(books, t) ==
    IF books.sizing = NoSizing THEN Raise(books, "StrategyStateError")
    ELSE IF books.lock.holder # active.ob
    THEN Raise(books, "PortfolioLockDesyncError")
    ELSE [books EXCEPT !.balance = @ + 1, !.sizing = NoSizing,
                       !.lock = Release(@, t)]

\* _on_entry_filled: take the slot, size the fill on the balance as it stands.
OnEntryFilled(books, o, t) ==
    IF LockRefuses(books.lock, t) THEN Raise(books, "PortfolioLockDesyncError")
    ELSE [books EXCEPT !.lock = Acquire(@, o), !.sizing = books.balance]

\* _on_entry_blocked: the lock must refuse it too.
OnEntryBlocked(books, t) ==
    IF LockRefuses(books.lock, t) THEN books
    ELSE Raise(books, "PortfolioLockDesyncError")

\* The events of one candle in their order.  The first that raises ends it.
HandleEvents(t, closes, winner, blocked) ==
    LET settled == IF closes THEN OnTradeClosed(Books, t) ELSE Books
        filled  == IF settled.fault = "none" /\ winner # NoOB
                   THEN OnEntryFilled(settled, winner, t) ELSE settled
    IN  IF filled.fault = "none" /\ blocked # {}
        THEN OnEntryBlocked(filled, t) ELSE filled

\* CandleWatermark.advance.  It raises on a candle that is not after the mark, which
\* _precheck_candle_order has refused by then.
Advance(marks, a, t) == [marks EXCEPT ![a] = t]

\* _advance_watermark, and the clock all pairs share.
AdvanceWatermark(a, t) ==
    /\ mark' = Advance(mark, a, t)
    /\ lastTs' = t

-----------------------------------------------------------------------------
(* ManualSMCAdapter                                                        *)

SetupStates == {"WATCHING_OB", "QUALIFIED", "TRADE_SETUP_READY"}

\* The order blocks that have a bracket to send.
Executable == {o \in OBs : Sendable(Zone[o])}

\* Such a block may be entered if the slot is free and this candle did not refuse it.
Placeable(o, blocked, lk) == /\ o \in Executable
                             /\ active'.ob = NoOB /\ lk.holder = NoOB
                             /\ o \notin blocked

\* map_ob_state, of an order block the candle left awaiting or resting.
SetupState(o, blocked, lk) ==
    IF ob'[o].state = "AWAITING_DISPLACEMENT" THEN "WATCHING_OB"
    ELSE IF Placeable(o, blocked, lk) THEN "TRADE_SETUP_READY" ELSE "QUALIFIED"

\* adapt: one decision per live candidate of the pair.
Decisions(a, blocked, lk) ==
    [o \in {p \in OBs : /\ AssetOf[p] = a
                        /\ ob'[p].state \in {"AWAITING_DISPLACEMENT",
                                             "LIMIT_RESTING"}} |->
        SetupState(o, blocked, lk)]
ReadyDecisions(decisions) ==
    {o \in DOMAIN decisions : decisions[o] = "TRADE_SETUP_READY"}

-----------------------------------------------------------------------------
(* ManualSMCRuntime                                                        *)

\* The strategy's part of a candle.  What raises leaves the candle unreported
\* and the watermark where it was, but keeps what the lifecycle did.
Evaluate(a, t, closes, winner, blocked) ==
    LET books == HandleEvents(t, closes, winner, blocked)
    IN  /\ lock' = books.lock
        /\ balance' = books.balance
        /\ sizing' = books.sizing
        /\ fault' = books.fault
        /\ IF books.fault = "none"
           THEN /\ AdvanceWatermark(a, t)
                /\ offered' = ReadyDecisions(Decisions(a, blocked, books.lock))
           ELSE /\ offered' = {}
                /\ UNCHANGED <<mark, lastTs>>

\* Where the candle closed matters to the probe gate only, and a close beyond
\* the near edge means that the wick entered the zone.
Closes(a, wick) ==
    {s \in [Candidates(a) -> Sides] : \A o \in Candidates(a) :
        /\ s[o] = "beyond" => wick[o] # "outside"
        /\ \/ mode # "C_PROBE_PULLBACK"
           \/ ob[o].state # "AWAITING_DISPLACEMENT"
           => s[o] = "edge"}

\* on_closed_candle.  A pair that is disabled has its candles skipped and its
\* state left alone, which is a gap in its bars, and so is a feed that lost some.
ClosedCandle(a) ==
    \E t \in Hours :
    /\ Admissible(a, t)
    /\ \E wick \in [Candidates(a) -> Wicks] :
       \E side \in Closes(a, wick) : \E hit \in BOOLEAN :
       \E born \in Emissions(a, t) :
         LET winner == Winner(a, t, wick, hit)
         IN  /\ ProcessCandle(a, t, wick, side, hit, born, winner)
             /\ Evaluate(a, t, ExitDue(a, t, hit), winner,
                         Contenders(a, t, wick) \ {winner})
    /\ UNCHANGED resumed

\* encode_scanner: the history and the consumed origins.
ScannerState(a) ==
    [newest |-> scanned[a],
     consumed |-> {o \in OBs : AssetOf[o] = a /\ ob[o].state # "UNBORN"}]

\* encode_activation: the policy under which the limits of the snapshot rest.
Activation == [mode |-> mode, window |-> Window]

\* encode_dataclass: the live records whole; a trade names its order block by id.
LivePool == [o \in {p \in OBs : Live(p)} |-> ob[o]]

\* capture_state, in the envelope of the runtime's snapshot.
CaptureState ==
    [activation |-> Activation, pool |-> LivePool, active |-> active, closedAt |-> closedAt,
     scanners |-> [a \in {b \in Assets : scanned[b] # 0} |-> ScannerState(a)],
     marks |-> mark]
Snapshot == [state |-> CaptureState, balance |-> balance, sizing |-> sizing]

\* What restore_state demands of a snapshot's state.
KnownActivation(s) == s.activation.mode \in Modes /\ s.activation.window >= 1
ReferenceResolves(s) == s.active.ob = NoOB \/ s.active.ob \in DOMAIN s.pool
OneActiveTrade(s) ==
    {o \in DOMAIN s.pool : s.pool[o].state = "TRADE_ACTIVE"}
        = {s.active.ob} \ {NoOB}
ScannersCover(s) == \A o \in DOMAIN s.pool : AssetOf[o] \in DOMAIN s.scanners
WatermarkCovers(s) ==
    \A a \in Assets : s.marks[a] # 0 =>
        /\ a \in DOMAIN s.scanners => s.scanners[a].newest <= s.marks[a]
        /\ \A o \in DOMAIN s.pool :
               AssetOf[o] = a => s.pool[o].bos <= s.marks[a]
Restorable(s) == /\ KnownActivation(s)
                 /\ ReferenceResolves(s) /\ OneActiveTrade(s)
                 /\ ScannersCover(s) /\ WatermarkCovers(s)

\* decode_scanner.
NewestBar(s, a) == IF a \in DOMAIN s.scanners THEN s.scanners[a].newest ELSE 0
Consumed(s) == UNION {s.scanners[a].consumed : a \in DOMAIN s.scanners}

\* restore_state: the lifecycle of the snapshot.
RestoreLifecycle(s) ==
    /\ mode' = s.activation.mode
    /\ ob' = [o \in OBs |-> IF o \in DOMAIN s.pool THEN s.pool[o]
                            ELSE IF o \in Consumed(s) THEN Dead("CONSUMED")
                            ELSE Unborn]
    /\ active' = s.active
    /\ closedAt' = s.closedAt
    /\ scanned' = [a \in Assets |-> NewestBar(s, a)]

\* Mutant: the lock of a resumed process starts free.
StartsFree(s) == FreeLock

\* ManualSMCStrategy.from_state: a new lock, taken again for the open trade.
Reacquired(s) ==
    IF s.active.ob = NoOB THEN FreeLock ELSE Acquire(FreeLock, s.active.ob)

NewestMark(s) ==
    CHOOSE t \in {s.marks[a] : a \in Assets} : \A a \in Assets : s.marks[a] <= t

\* The rest of from_state: the balance at the fill comes with an open trade and
\* only with one.
FromState(s, bal, siz) ==
    /\ s.active.ob = NoOB <=> siz = NoSizing
    /\ mark' = s.marks /\ lastTs' = NewestMark(s)
    /\ lock' = Reacquired(s)
    /\ balance' = bal /\ sizing' = siz

\* save_state, a crash at any later time, and load_state: what the process did
\* after the snapshot is lost with it, so its memory is the snapshot's again.
Resume(file) ==
    /\ Restorable(file.state)
    /\ RestoreLifecycle(file.state)
    /\ FromState(file.state, file.balance, file.sizing)
    /\ offered' = {} /\ fault' = "none"
    /\ resumed' = TRUE

\* build_manual_smc_runtime.
Init ==
    /\ mode \in Modes
    /\ ob = [o \in OBs |-> Unborn]
    /\ active = NoTrade /\ closedAt = 0
    /\ scanned = [a \in Assets |-> 0]
    /\ mark = [a \in Assets |-> 0] /\ lastTs = 0
    /\ lock = FreeLock
    /\ balance = 0 /\ sizing = NoSizing
    /\ offered = {} /\ fault = "none" /\ resumed = FALSE

Next ==
    \/ \E a \in Assets : ClosedCandle(a)
    \/ Resume(Snapshot)

Spec == Init /\ [][Next]_vars

-----------------------------------------------------------------------------
(* Properties                                                              *)

\* Every variable holds a value of its kind, an absent trade has no fill time,
\* and a limit rests from some bar on.
TypeOK ==
    /\ mode \in Modes
    /\ ob \in [OBs -> OBRecords]
    /\ \A o \in OBs : ob[o].state = "LIMIT_RESTING" => ob[o].from # 0
    /\ active \in Trades /\ (active.ob = NoOB => active = NoTrade)
    /\ closedAt \in Nat /\ lastTs \in Nat
    /\ scanned \in [Assets -> Nat] /\ mark \in [Assets -> Nat]
    /\ lock \in [holder: OBs \cup {NoOB}, closedAt: Nat]
    /\ balance \in Nat /\ sizing \in Nat \cup {NoSizing}
    /\ offered \subseteq OBs
    /\ fault \in Faults /\ resumed \in BOOLEAN

\* The three views of the single trade slot are one: the lock is held by the
\* trade the lifecycle runs, that trade's order block is the only one of the
\* pool that is TRADE_ACTIVE, and the trade is sized on the balance as it stood
\* at the fill.  It holds after any number of resumptions.
SlotMirrorsTrade ==
    /\ lock.holder = active.ob
    /\ {o \in OBs : ob[o].state = "TRADE_ACTIVE"} = {active.ob} \ {NoOB}
    /\ sizing = IF active.ob = NoOB THEN NoSizing ELSE balance

\* In a process that was never resumed, PortfolioLock.evaluate and
\* ManualSMCLifecycle._entry_blocked refuse the same entries.
GatesAgree ==
    ~resumed => \A t \in Hours :
        EntryBlocked(active, closedAt, t) <=> LockRefuses(lock, t)

\* A trade was entered while its limit was live: not on the candle that made
\* its order block, not before the limit was armed, and in first-touch mode
\* not after the entry window, however many of its fills were refused before.
EntriesInsideWindow ==
    active.ob # NoOB =>
        LET o == active.ob
        IN  /\ ob[o].bos < active.filledAt
            /\ ob[o].from # 0 /\ ob[o].from <= active.filledAt
            /\ mode = "FIRST_TOUCH_WINDOW" =>
                   active.filledAt < ob[o].from + Window

\* No trade is entered in the hour in which another closed, on any pair.
NoReentryWithinACandle == active.ob # NoOB => active.filledAt > closedAt

\* In first-touch mode no limit outlives its window: once a pair's candle after the
\* window is processed its order block is gone, whether or not an entry was refused.
\* That is what the lifecycle does; the policy the adapter publishes with every
\* decision, NO_TIME_BASED_EXPIRY (adapter.py), says the opposite of that mode.
WindowsClose ==
    mode = "FIRST_TOUCH_WINDOW" =>
        \A o \in OBs : ob[o].state = "LIMIT_RESTING" =>
            mark[AssetOf[o]] < ob[o].from + Window

\* Order blocks whose bracket, as it is rounded for the exchange, loses no more than
\* the risk budget when its stop is hit.
Affordable == {o \in OBs : WithinBudget(Zone[o])}

\* What the adapter offers for submission could be entered: its limit rests,
\* neither the lifecycle nor the lock has given the slot away, and its bracket keeps
\* the risk budget on the exchange's price grid.
OffersAreSound ==
    \A o \in offered : /\ ob[o].state = "LIMIT_RESTING"
                       /\ active.ob = NoOB /\ lock.holder = NoOB
                       /\ o \in Affordable

\* A trade never exits on the candle that filled it.
NoExitOnFillCandle ==
    [][active.ob # NoOB /\ closedAt' # closedAt
         => closedAt' > active.filledAt]_vars

\* The lifecycle and the portfolio lock never disagree about an entry: no
\* candle raises PortfolioLockDesyncError.
AdmissionsNeverDisagree == fault # "PortfolioLockDesyncError"
=============================================================================
