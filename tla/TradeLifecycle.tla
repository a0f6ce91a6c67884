--------------------------- MODULE TradeLifecycle ---------------------------
(***************************************************************************)
(* The live trade lifecycle of the Python engine                           *)
(* (engine/src/quantedge/execution/trade_lifecycle.py) against Delta       *)
(* Exchange.                                                               *)
(*                                                                         *)
(* TradeLifecycleManager is an asyncio object: several coroutines (the     *)
(* strategy runtime, the private WebSocket consumer, an operator's API     *)
(* call) run its methods on one thread and interleave only at an `await`.  *)
(* A task's frame records where it is suspended; a request is answered by  *)
(* the exchange in one step and the coroutine resumes with that, possibly  *)
(* stale, answer in a later one.  The exchange moves by itself in between. *)
(*                                                                         *)
(* Quantities are numbers of contracts 0..Qty, prices are abstracted away. *)
(* Each setup trades a product of its own and is admitted at most once     *)
(* (a refused submission may be repeated).                                 *)
(***************************************************************************)
EXTENDS Naturals, FiniteSets

CONSTANTS
    Setups,        \* strategy setup ids
    Tasks,         \* coroutines that call the manager
    Duties,        \* Duties[t]: the operations task t calls
    Qty,           \* requested_quantity of every entry
    MaxLegs,       \* bound on the protective orders ever placed
    Overlap,       \* may an operation start while another is suspended?
    Network,       \* "reliable"; "failing": a request may fail without
                   \* effect; "lossy": its answer may also be lost
    Brackets,      \* how an accepted entry may echo its attached bracket
    NoOne          \* no lock owner, no task

Operations == {"execute", "stream", "integrity", "expire", "reconcile", "kill",
               "operator"}

ASSUME ConstantsAssumption ==
    /\ Qty \in Nat \ {0}
    /\ MaxLegs \in Nat
    /\ Overlap \in BOOLEAN
    /\ Network \in {"reliable", "failing", "lossy"}
    /\ Brackets \in SUBSET {"plain", "exact", "altered"}
    /\ Duties \in [Tasks -> SUBSET Operations]
    /\ NoOne \notin Setups
    /\ NoOne \notin Tasks

VARIABLES
    active,      \* keys of _active_trades
    rec,         \* the TradeLifecycleRecord of each setup
    owner,       \* setup holding the SingleTradeLock
    mutex,       \* task inside a `with self._lock` block that awaits
    hung,        \* the event loop thread is blocked on self._lock
    alerts,      \* _reconciliation_alerts is not empty
    killSwitch,  \* account.kill_switch_active
    frame,       \* the suspended call of each task
    survey,      \* local variables of the running reconciliation
    ex,          \* exchange: entry order and position of each setup
    leg          \* exchange: protective (reduce-only) orders by id

engineVars == <<active, rec, owner, mutex, hung, alerts, killSwitch>>
exchangeVars == <<ex, leg>>
vars == <<engineVars, frame, survey, exchangeVars>>

-----------------------------------------------------------------------------
(* Types *)

RestingStates == {"ENTRY_PENDING", "ENTRY_SUBMITTED", "ENTRY_PARTIALLY_FILLED"}
TerminalStates == {"POSITION_CLOSED", "ENTRY_CANCELLED", "ENTRY_REJECTED"}
States == RestingStates \cup TerminalStates \cup
    {"NONE", "ENTRY_FILLED", "PROTECTION_PENDING", "PROTECTED_POSITION",
     "PROTECTION_FAILED", "ENTRY_TIMEOUT", "KILL_SWITCH_TRIGGERED",
     "RECONCILIATION_REQUIRED"}

LegIds == 1..MaxLegs
Roles == {"sl", "tp"}
Amounts == 0..Qty

Records == [state: States, filled: Amounts, protected: Amounts,
            entryId: BOOLEAN, sl: 0..MaxLegs, tp: 0..MaxLegs]
NewRecord == [state |-> "NONE", filled |-> 0, protected |-> 0,
              entryId |-> FALSE, sl |-> 0, tp |-> 0]

\* Suspended at a request to the exchange, or (LoopPcs) still running.
AwaitPcs == {"post", "cancel", "verify", "echo", "openOrders", "place",
             "expCancel", "expGet", "balance", "closeCancel", "closeVerify",
             "killCancel", "killVerify", "recPositions", "recOrders", "recGet"}
LoopPcs == {"closing", "killNext", "recNext", "recCheck", "recDone"}
Replies == {"none", "wait", "ok", "error", "rejected", "timeout", "missing",
            "open", "filled", "cancelled", "plain", "exact", "altered"}

Frames == [pc: {"idle"} \cup AwaitPcs \cup LoopPcs, s: Setups \cup {NoOne},
           role: Roles, oid: 0..MaxLegs, goal: Amounts, stale: BOOLEAN,
           then: {"end", "apply", "recCheck", "recDone"}, bad: BOOLEAN,
           reply: Replies, amt: Amounts, seen: SUBSET LegIds]
IdleFrame == [pc |-> "idle", s |-> NoOne, role |-> "sl", oid |-> 0, goal |-> 0,
              stale |-> FALSE, then |-> "end", bad |-> FALSE,
              reply |-> "none", amt |-> 0, seen |-> {}]

Surveys == [pos: [Setups -> Amounts], legs: SUBSET LegIds,
            entries: SUBSET Setups, todo: SUBSET Setups, claimed: SUBSET Setups,
            claimedEntries: SUBSET Setups, claimedLegs: SUBSET (0..MaxLegs),
            dirty: BOOLEAN]
NoSurvey == [pos |-> [s \in Setups |-> 0], legs |-> {}, entries |-> {},
             todo |-> {}, claimed |-> {}, claimedEntries |-> {},
             claimedLegs |-> {}, dirty |-> FALSE]

\* The exchange: bracket says how the entry's attached bracket is echoed.
Orders == [entry: {"none", "open", "filled", "cancelled"}, got: Amounts,
           pos: Amounts, bracket: {"plain", "exact", "altered"}]
Legs == [st: {"free", "open", "filled", "cancelled"}, s: Setups \cup {NoOne},
         role: Roles, size: Amounts, maker: {"engine", "exchange"}]
NoLeg == [st |-> "free", s |-> NoOne, role |-> "sl", size |-> 0,
          maker |-> "engine"]

TypeOK ==
    /\ active \in SUBSET Setups
    /\ rec \in [Setups -> Records]
    /\ owner \in Setups \cup {NoOne}
    /\ mutex \in Tasks \cup {NoOne}
    /\ hung \in BOOLEAN
    /\ alerts \in BOOLEAN
    /\ killSwitch \in BOOLEAN
    /\ frame \in [Tasks -> Frames]
    /\ survey \in Surveys
    /\ ex \in [Setups -> Orders]
    /\ leg \in [LegIds -> Legs]

Init ==
    /\ active = {}
    /\ rec = [s \in Setups |-> NewRecord]
    /\ owner = NoOne
    /\ mutex = NoOne
    /\ hung = FALSE
    /\ alerts = FALSE
    /\ killSwitch = FALSE
    /\ frame = [t \in Tasks |-> IdleFrame]
    /\ survey = NoSurvey
    /\ ex = [s \in Setups |-> [entry |-> "none", got |-> 0, pos |-> 0,
                               bracket |-> "plain"]]
    /\ leg = [i \in LegIds |-> NoLeg]

-----------------------------------------------------------------------------
(* Scheduling: one thread, cooperative *)

\* Mutant: every observation of a fill adds to what is known.
Accumulated(m, n) == m + n
Larger(m, n) == IF m >= n THEN m ELSE n

Idle(t) == frame[t].pc = "idle"
Busy == \E t \in Tasks : frame[t].pc \in LoopPcs

\* Task t may call operation op.
Begin(t, op) ==
    /\ Idle(t)
    /\ op \in Duties[t]
    /\ ~hung
    /\ ~Busy
    /\ Overlap \/ \A u \in Tasks : Idle(u)

\* Task t has the answer it awaited at pc and the thread is free.
Resume(t, pc) ==
    /\ frame[t].pc = pc
    /\ frame[t].reply # "wait"
    /\ ~hung
    /\ ~Busy

\* Task t goes on without having suspended.
Continue(t, pc) == frame[t].pc = pc /\ ~hung

Step(t, f) == frame' = [frame EXCEPT ![t] = f]
Await(t, f) == Step(t, [f EXCEPT !.reply = "wait", !.amt = 0, !.seen = {}])
Stop(t) == Step(t, IdleFrame)
SetRec(s, r) == rec' = [rec EXCEPT ![s] = r]

\* Where a fill observation goes back to once protection has been seen to.
Back(f) ==
    IF f.then \in {"end", "apply"} THEN IdleFrame
    ELSE [IdleFrame EXCEPT !.pc = f.then, !.s = f.s]

-----------------------------------------------------------------------------
(* SingleTradeLockManager *)

CanAcquire(s) == owner \in {NoOne, s}
Acquire(s) == owner' = s
\* Mutant: whoever holds the lock loses it.
ReleaseAny(s) == owner' = NoOne
Release(s) == owner' = IF owner = s THEN NoOne ELSE owner

-----------------------------------------------------------------------------
(* _ensure_bracket_protection: one SL and one TP of exactly the filled size *)

BothLegs(r) == r.sl # 0 /\ r.tp # 0

\* Mutant: the pair is sized to the requested quantity.
ProtectRequested(f, r) ==
    [f EXCEPT !.pc = IF r.entryId THEN "echo" ELSE "place", !.role = "sl",
              !.goal = Qty]

\* _adopt_exchange_attached_bracket needs the entry order id; else place.
AdoptOrPlace(f, r) ==
    [f EXCEPT !.pc = IF r.entryId THEN "echo" ELSE "place", !.role = "sl"]

CancelLegOf(f, r, role) ==
    [f EXCEPT !.pc = "cancel", !.role = role, !.oid = r[role]]

\* Up to the first await, for a size that is not yet protected.
BeginProtection(t, f, r, goal) ==
    LET g == [f EXCEPT !.goal = goal, !.stale = FALSE]
    IN  /\ SetRec(f.s, [r EXCEPT !.state = "PROTECTION_PENDING"])
        /\ Await(t, IF r.protected = goal \/ (r.sl = 0 /\ r.tp = 0)
                    THEN AdoptOrPlace(g, r)
                    ELSE CancelLegOf(g, r, IF r.sl # 0 THEN "sl" ELSE "tp"))

\* The fill handler returns; _apply_entry_order_state then raises
\* POSITION_UNPROTECTED if protection failed (execute_trade_setup does not).
Return(t, f, r) ==
    /\ SetRec(f.s, r)
    /\ Step(t, Back(f))
    /\ alerts' = (alerts \/ (f.then \in {"apply", "recCheck"}
                             /\ r.state = "PROTECTION_FAILED"))

\* _fill_notification_to_ignore
IgnoreFill(r, size) ==
    \/ r.state \in TerminalStates
    \/ /\ r.filled > 0
       /\ r.protected >= r.filled
       /\ BothLegs(r)
       /\ size <= r.filled

\* on_entry_fill / on_entry_partial_fill, r being the record so far
OnFill(t, f, r, size, full) ==
    LET known == Larger(r.filled, size)
        now == [r EXCEPT !.filled = known,
                         !.state = IF full THEN "ENTRY_FILLED"
                                   ELSE "ENTRY_PARTIALLY_FILLED"]
    IN  IF f.s \notin active \/ IgnoreFill(r, size)
        THEN Return(t, f, r)
        ELSE IF r.protected = known /\ BothLegs(r)
        THEN Return(t, f, now)
        ELSE BeginProtection(t, f, now, known) /\ UNCHANGED alerts

\* _cancel_existing_brackets: this leg is gone, then the TP, then adoption.
LegGone(t, f) ==
    LET r == [rec[f.s] EXCEPT ![f.role] = 0]
        none == [r EXCEPT !.protected = 0]
    IN  IF f.role = "sl" /\ r.tp # 0
        THEN SetRec(f.s, r) /\ Await(t, CancelLegOf(f, r, "tp"))
        ELSE /\ SetRec(f.s, none)
             /\ Await(t, AdoptOrPlace([f EXCEPT !.stale = TRUE], none))

\* Mutant: a failed lookup after a refused cancel means the order is gone.
UnlessFound(reply) == reply \in {"cancelled", "error"}

\* _classify_refused_cancel: only CANCELLED/EXPIRED counts as gone.
ConfirmedGone(reply) == reply = "cancelled"

ResumeCancel(t) ==
    LET f == frame[t]
    IN  /\ Resume(t, "cancel")
        /\ IF f.reply = "ok" THEN LegGone(t, f)
           ELSE Await(t, [f EXCEPT !.pc = "verify"]) /\ UNCHANGED rec
        /\ UNCHANGED <<active, owner, mutex, hung, alerts, killSwitch, survey,
                       exchangeVars>>

\* A leg that is not positively gone stops the resize with an alert.
ResumeVerify(t) ==
    LET f == frame[t]
    IN  /\ Resume(t, "verify")
        /\ IF ConfirmedGone(f.reply) THEN LegGone(t, f) /\ UNCHANGED alerts
           ELSE /\ SetRec(f.s, [rec[f.s] EXCEPT !.state = "PROTECTION_FAILED"])
                /\ Step(t, Back(f))
                /\ alerts' = TRUE
        /\ UNCHANGED <<active, owner, mutex, hung, killSwitch, survey,
                       exchangeVars>>

PlaceStopLoss(t, f) == Await(t, [f EXCEPT !.pc = "place", !.role = "sl"])

\* Does the entry order echo an attached bracket at the authorised levels?
ResumeEcho(t) ==
    LET f == frame[t]
    IN  /\ Resume(t, "echo")
        /\ IF f.reply = "exact" THEN Await(t, [f EXCEPT !.pc = "openOrders"])
           ELSE PlaceStopLoss(t, f)
        /\ alerts' = (alerts \/ f.reply = "altered")
        /\ UNCHANGED <<active, rec, owner, mutex, hung, killSwitch, survey,
                       exchangeVars>>

\* The last of the adoption attempts: exactly one leg per role is adopted.
Adoptable(f, role) == {i \in f.seen : leg[i].role = role}

ResumeOpenOrders(t) ==
    LET f == frame[t]
        sls == Adoptable(f, "sl")
        tps == Adoptable(f, "tp")
    IN  /\ Resume(t, "openOrders")
        /\ IF \E i, j \in LegIds : sls = {i} /\ tps = {j}
           THEN \E i \in sls, j \in tps :
                    Return(t, f, [rec[f.s] EXCEPT !.sl = i, !.tp = j,
                                    !.protected = f.goal,
                                    !.state = "PROTECTED_POSITION"])
           ELSE /\ PlaceStopLoss(t, f)
                /\ alerts' = (alerts \/ f.reply = "error" \/ ~f.stale)
                /\ UNCHANGED rec
        /\ UNCHANGED <<active, owner, mutex, hung, killSwitch, survey,
                       exchangeVars>>

\* Mutant: a refused TP is logged and forgotten.
StopRefused(f) == f.reply # "ok" /\ f.role = "sl"
PlacementFailed(f) == f.reply # "ok"

ResumePlace(t) ==
    LET f == frame[t]
        r == [rec[f.s] EXCEPT ![f.role] = f.oid]
    IN  /\ Resume(t, "place")
        /\ IF PlacementFailed(f)
           THEN Return(t, f, [rec[f.s] EXCEPT !.state = "PROTECTION_FAILED"])
           ELSE IF f.role = "sl"
           THEN /\ SetRec(f.s, r)
                /\ Await(t, [f EXCEPT !.role = "tp"])
                /\ UNCHANGED alerts
           ELSE Return(t, f, [r EXCEPT !.protected = f.goal,
                                       !.state = "PROTECTED_POSITION"])
        /\ UNCHANGED <<active, owner, mutex, hung, killSwitch, survey,
                       exchangeVars>>

-----------------------------------------------------------------------------
(* execute_trade_setup *)

\* Refused before a record exists: blocking alert, slot taken, kill switch or
\* any other admission check.  _create_rejected_record releases the setup's
\* own lock.
RefuseSetup(t, s) ==
    /\ Begin(t, "execute")
    /\ mutex = NoOne
    /\ s \notin active
    /\ Release(s)
    /\ UNCHANGED <<active, rec, mutex, hung, alerts, killSwitch, frame, survey,
                   exchangeVars>>

Admissible(s) ==
    /\ s \notin active
    /\ rec[s].state = "NONE"
    /\ ~alerts
    /\ ~killSwitch
    /\ CanAcquire(s)

\* Unknown product or OrderValidationGateway refusal: the record stays in
\* _active_trades, the lock just acquired is released.
RefuseAtGateway(t, s) ==
    /\ Begin(t, "execute")
    /\ mutex = NoOne
    /\ Admissible(s)
    /\ active' = active \cup {s}
    /\ SetRec(s, [rec[s] EXCEPT !.state = "ENTRY_REJECTED"])
    /\ owner' = NoOne
    /\ UNCHANGED <<mutex, hung, alerts, killSwitch, frame, survey, exchangeVars>>

Submit(t, s) ==
    /\ Begin(t, "execute")
    /\ mutex = NoOne
    /\ Admissible(s)
    /\ active' = active \cup {s}
    /\ SetRec(s, [rec[s] EXCEPT !.state = "ENTRY_SUBMITTED"])
    /\ Acquire(s)
    /\ Await(t, [IdleFrame EXCEPT !.pc = "post", !.s = s])
    /\ UNCHANGED <<mutex, hung, alerts, killSwitch, survey, exchangeVars>>

\* Mutant: the response overwrites what the stream has already reported.
AcceptedResets(t, f) ==
    LET r == [rec[f.s] EXCEPT !.entryId = TRUE, !.filled = f.amt]
    IN  /\ f.reply \in {"open", "filled"}
        /\ IF f.amt = 0 THEN SetRec(f.s, r) /\ Stop(t) /\ UNCHANGED alerts
           ELSE OnFill(t, f, r, f.amt, f.reply = "filled")
        /\ UNCHANGED owner

SubmitAccepted(t, f) ==
    LET r == [rec[f.s] EXCEPT !.entryId = TRUE]
    IN  /\ f.reply \in {"open", "filled"}
        /\ IF f.amt = 0 THEN SetRec(f.s, r) /\ Stop(t) /\ UNCHANGED alerts
           ELSE OnFill(t, f, r, f.amt, f.reply = "filled")
        /\ UNCHANGED owner

\* DeltaOrderRejectedError: the order does not exist.
SubmitRejected(t, f) ==
    /\ f.reply = "rejected"
    /\ SetRec(f.s, [rec[f.s] EXCEPT !.state = "ENTRY_REJECTED"])
    /\ Release(f.s)
    /\ Stop(t)
    /\ UNCHANGED alerts

\* Mutant: a submission that failed somehow gives the slot back.
UnknownFrees(t, f) ==
    /\ f.reply \in {"timeout", "error"}
    /\ SetRec(f.s, [rec[f.s] EXCEPT !.state = "ENTRY_REJECTED"])
    /\ Release(f.s)
    /\ Stop(t)
    /\ UNCHANGED alerts

\* Connection error or timeout, and any other exception: the lock is kept.
SubmitUnknown(t, f) ==
    /\ f.reply \in {"timeout", "error"}
    /\ SetRec(f.s, [rec[f.s] EXCEPT !.state =
                        IF f.reply = "timeout" THEN "RECONCILIATION_REQUIRED"
                        ELSE "ENTRY_REJECTED"])
    /\ Stop(t)
    /\ UNCHANGED <<owner, alerts>>

ResumePost(t) ==
    /\ Resume(t, "post")
    /\ \/ SubmitAccepted(t, frame[t])
       \/ SubmitRejected(t, frame[t])
       \/ SubmitUnknown(t, frame[t])
    /\ UNCHANGED <<active, mutex, hung, killSwitch, survey, exchangeVars>>

-----------------------------------------------------------------------------
(* _apply_entry_order_state: the convergence point of every observation *)

\* _archive_and_release, preceded by the terminal state
Finalize(s, r, state) ==
    /\ SetRec(s, [r EXCEPT !.state = state])
    /\ active' = active \ {s}
    /\ Release(s)

NothingNew(r, size) ==
    size = r.filled /\ r.protected = size /\ BothLegs(r)

\* Mutant: no fill and no progress reads as an unfilled end.
AnyEnd(r, status, known) ==
    r.state \in TerminalStates \/ (known > 0 /\ NothingNew(r, known))

Ignorable(r, status, known) ==
    \/ r.state \in TerminalStates
    \/ known = 0 /\ status # "cancelled"
    \/ known > 0 /\ NothingNew(r, known)

ApplyEntry(t, f, r, status, size) ==
    LET known == Larger(size, r.filled)
    IN  IF Ignorable(r, status, known)
        THEN /\ SetRec(f.s, r)
             /\ Step(t, Back(f))
             /\ UNCHANGED <<active, owner, alerts>>
        ELSE IF known = 0
        THEN /\ Finalize(f.s, r, "ENTRY_CANCELLED")
             /\ Step(t, Back(f))
             /\ UNCHANGED alerts
        ELSE /\ OnFill(t, f, r, known, status = "filled" \/ known >= Qty)
             /\ UNCHANGED <<active, owner>>

-----------------------------------------------------------------------------
(* Private stream: observe_private_event *)

\* What the exchange has said of an entry: frames are late or replayed.
Reports(s) ==
    {[status |-> ex[s].entry, size |-> ex[s].got]} \cup
    [status: {"open"}, size: {n \in 0..ex[s].got : n < Qty}]

StreamFrame(s) == [IdleFrame EXCEPT !.s = s, !.then = "apply"]

\* handle_order_event on the entry (found by client order id if need be)
OrderEvent(t, s) ==
    /\ Begin(t, "stream")
    /\ s \in active
    /\ ex[s].entry # "none"
    /\ \E e \in Reports(s) :
           ApplyEntry(t, StreamFrame(s), [rec[s] EXCEPT !.entryId = TRUE],
                      e.status, e.size)
    /\ UNCHANGED <<mutex, hung, killSwitch, survey, exchangeVars>>

\* handle_fill_event: found by exchange order id only
FillEvent(t, s) ==
    /\ Begin(t, "stream")
    /\ s \in active
    /\ rec[s].entryId
    /\ \E n \in 1..ex[s].got :
           ApplyEntry(t, StreamFrame(s), rec[s], "unstated", n)
    /\ UNCHANGED <<mutex, hung, killSwitch, survey, exchangeVars>>

\* handle_position_event: an open position of no active trade
OrphanPositionEvent(t, s) ==
    /\ Begin(t, "stream")
    /\ s \notin active
    /\ ex[s].pos > 0
    /\ alerts' = TRUE
    /\ UNCHANGED <<active, rec, owner, mutex, hung, killSwitch, frame, survey,
                   exchangeVars>>

\* handle_stream_integrity_event that was not resynchronized
StreamIntegrityLost(t) ==
    /\ Begin(t, "integrity")
    /\ alerts' = TRUE
    /\ UNCHANGED <<active, rec, owner, mutex, hung, killSwitch, frame, survey,
                   exchangeVars>>

\* handle_position_event -> handle_exchange_closure, the position is flat.
\* The realized PnL and the fee total may each be unobserved.
ClosureEvent(t, s) ==
    /\ Begin(t, "stream")
    /\ s \in active
    /\ ex[s].got > 0 /\ ex[s].pos = 0
    /\ rec[s].filled > 0
    /\ \E pnl, fees \in BOOLEAN :
         /\ alerts' = (alerts \/ ~pnl \/ ~fees)
         /\ IF pnl
            THEN /\ Await(t, [IdleFrame EXCEPT !.pc = "balance", !.s = s])
                 /\ UNCHANGED rec
            ELSE /\ SetRec(s, [rec[s] EXCEPT !.state = "RECONCILIATION_REQUIRED"])
                 /\ UNCHANGED frame
    /\ UNCHANGED <<active, owner, mutex, hung, killSwitch, survey, exchangeVars>>

\* CLOSURE_BALANCE_UNOBSERVED if the wallet could not be read; then the
\* closure handler calls close_position.
ResumeBalance(t) ==
    /\ Resume(t, "balance")
    /\ alerts' = (alerts \/ frame[t].reply = "error")
    /\ Step(t, [frame[t] EXCEPT !.pc = "closing", !.reply = "none"])
    /\ UNCHANGED <<active, rec, owner, mutex, hung, killSwitch, survey,
                   exchangeVars>>

-----------------------------------------------------------------------------
(* close_position: the whole body runs under self._lock *)

CloseLegOf(f, r, role) ==
    [f EXCEPT !.pc = "closeCancel", !.role = role, !.oid = r[role]]

\* POSITION_CLOSED, archived, lock released -- or everything is retained.
FinishClose(t, f, r) ==
    /\ IF f.bad
       THEN /\ SetRec(f.s, [r EXCEPT !.state = "RECONCILIATION_REQUIRED"])
            /\ alerts' = TRUE
            /\ UNCHANGED <<active, owner>>
       ELSE Finalize(f.s, r, "POSITION_CLOSED") /\ UNCHANGED alerts
    /\ mutex' = NoOne
    /\ Stop(t)

\* The caller's ValueError ends as PRIVATE_EVENT_HANDLER_FAILED.
StartClose(t) ==
    LET f == frame[t]
        r == rec[f.s]
    IN  /\ Continue(t, "closing")
        /\ mutex = NoOne
        /\ IF f.s \notin active
           THEN /\ Stop(t)
                /\ alerts' = TRUE
                /\ UNCHANGED <<active, rec, owner, mutex>>
           ELSE IF r.sl = 0 /\ r.tp = 0
           THEN FinishClose(t, f, r)
           ELSE /\ mutex' = t
                /\ Await(t, CloseLegOf(f, r, IF r.sl # 0 THEN "sl" ELSE "tp"))
                /\ UNCHANGED <<active, rec, owner, alerts>>
        /\ UNCHANGED <<hung, killSwitch, survey, exchangeVars>>

\* On to the TP, or to the verdict.
NextClose(t, f) ==
    IF f.role = "sl" /\ rec[f.s].tp # 0
    THEN /\ Await(t, CloseLegOf(f, rec[f.s], "tp"))
         /\ UNCHANGED <<active, rec, owner, mutex, alerts>>
    ELSE FinishClose(t, f, rec[f.s])

ResumeCloseCancel(t) ==
    LET f == frame[t]
    IN  /\ Resume(t, "closeCancel")
        /\ IF f.reply = "ok" THEN NextClose(t, f)
           ELSE /\ Await(t, [f EXCEPT !.pc = "closeVerify"])
                /\ UNCHANGED <<active, rec, owner, mutex, alerts>>
        /\ UNCHANGED <<hung, killSwitch, survey, exchangeVars>>

ResumeCloseVerify(t) ==
    LET f == frame[t]
    IN  /\ Resume(t, "closeVerify")
        /\ NextClose(t, [f EXCEPT !.bad = f.bad \/ ~ConfirmedGone(f.reply)])
        /\ UNCHANGED <<hung, killSwitch, survey, exchangeVars>>

-----------------------------------------------------------------------------
(* expire_resting_entry *)

Expire(t, s) ==
    /\ Begin(t, "expire")
    /\ s \in active
    /\ rec[s].state \in RestingStates
    /\ Await(t, [IdleFrame EXCEPT !.s = s, !.then = "apply",
                    !.pc = IF rec[s].entryId THEN "expCancel" ELSE "expGet"])
    /\ UNCHANGED <<engineVars, survey, exchangeVars>>

\* Whatever the cancel said, the exchange is asked.
ResumeExpireCancel(t) ==
    /\ Resume(t, "expCancel")
    /\ Await(t, [frame[t] EXCEPT !.pc = "expGet"])
    /\ UNCHANGED <<engineVars, survey, exchangeVars>>

\* Mutant: an entry without a fill is dead once its cancel was sent.
SentIsDead(reply) == reply \in {"cancelled", "open"}
DeadUnfilled(reply) == reply = "cancelled"

\* Mutant: an entry that cannot be verified frees the slot.
UnverifiedFrees(t, f, r) ==
    /\ SetRec(f.s, [r EXCEPT !.state = "RECONCILIATION_REQUIRED"])
    /\ Stop(t)
    /\ alerts' = TRUE
    /\ Release(f.s)
    /\ UNCHANGED active

Unverified(t, f, r) ==
    /\ SetRec(f.s, [r EXCEPT !.state = "RECONCILIATION_REQUIRED"])
    /\ Stop(t)
    /\ alerts' = TRUE
    /\ UNCHANGED <<active, owner>>

\* A fill won the race; a dead unfilled entry frees the slot; anything else
\* is RECONCILIATION_REQUIRED with the lock retained.
ResumeExpireGet(t) ==
    LET f == frame[t]
        r == [rec[f.s] EXCEPT !.entryId = @ \/ f.reply \notin {"error", "missing"}]
    IN  /\ Resume(t, "expGet")
        /\ IF f.amt > 0 THEN ApplyEntry(t, f, r, f.reply, f.amt)
           ELSE IF DeadUnfilled(f.reply)
           THEN Finalize(f.s, r, "ENTRY_TIMEOUT") /\ Stop(t) /\ UNCHANGED alerts
           ELSE Unverified(t, f, r)
        /\ UNCHANGED <<mutex, hung, killSwitch, survey, exchangeVars>>

-----------------------------------------------------------------------------
(* activate_kill_switch: the loop over _active_trades runs under self._lock *)

\* Mutant: the emergency path force-releases the lock.
KillForcesRelease(t) ==
    /\ Begin(t, "kill")
    /\ mutex = NoOne
    /\ killSwitch' = TRUE
    /\ mutex' = t
    /\ owner' = NoOne
    /\ Step(t, [IdleFrame EXCEPT !.pc = "killNext"])
    /\ UNCHANGED <<active, rec, hung, alerts, survey, exchangeVars>>

KillSwitch(t) ==
    /\ Begin(t, "kill")
    /\ mutex = NoOne
    /\ killSwitch' = TRUE
    /\ mutex' = t
    /\ Step(t, [IdleFrame EXCEPT !.pc = "killNext"])
    /\ UNCHANGED <<active, rec, owner, hung, alerts, survey, exchangeVars>>

Pending(s) == s \in active /\ rec[s].state \in {"ENTRY_PENDING", "ENTRY_SUBMITTED"}

\* `del _active_trades[setup_id]` raises KeyError, and ends the call, if the
\* trade was archived by another task meanwhile.  The lock is not released.
KillArchive(t, s) ==
    /\ SetRec(s, [rec[s] EXCEPT !.state = "KILL_SWITCH_TRIGGERED"])
    /\ active' = active \ {s}
    /\ IF s \in active
       THEN Step(t, [IdleFrame EXCEPT !.pc = "killNext"]) /\ UNCHANGED mutex
       ELSE Stop(t) /\ mutex' = NoOne

KillNext(t) ==
    /\ Continue(t, "killNext")
    /\ IF \E s \in Setups : Pending(s)
       THEN \E s \in Setups :
              /\ Pending(s)
              /\ IF rec[s].entryId
                 THEN /\ Await(t, [IdleFrame EXCEPT !.pc = "killCancel", !.s = s])
                      /\ UNCHANGED <<active, rec, mutex>>
                 ELSE KillArchive(t, s)
       ELSE Stop(t) /\ mutex' = NoOne /\ UNCHANGED <<active, rec>>
    /\ UNCHANGED <<owner, hung, alerts, killSwitch, survey, exchangeVars>>

ResumeKillCancel(t) ==
    LET f == frame[t]
    IN  /\ Resume(t, "killCancel")
        /\ IF f.reply = "ok" THEN KillArchive(t, f.s)
           ELSE /\ Await(t, [f EXCEPT !.pc = "killVerify"])
                /\ UNCHANGED <<active, rec, mutex>>
        /\ UNCHANGED <<owner, hung, alerts, killSwitch, survey, exchangeVars>>

ResumeKillVerify(t) ==
    LET f == frame[t]
    IN  /\ Resume(t, "killVerify")
        /\ IF ConfirmedGone(f.reply) THEN KillArchive(t, f.s) /\ UNCHANGED alerts
           ELSE /\ SetRec(f.s, [rec[f.s] EXCEPT !.state = "RECONCILIATION_REQUIRED"])
                /\ Step(t, [IdleFrame EXCEPT !.pc = "killNext"])
                /\ alerts' = TRUE
                /\ UNCHANGED <<active, mutex>>
        /\ UNCHANGED <<owner, hung, killSwitch, survey, exchangeVars>>

\* reset_kill_switch
ResetKillSwitch(t) ==
    /\ Begin(t, "operator")
    /\ killSwitch
    /\ killSwitch' = FALSE
    /\ UNCHANGED <<active, rec, owner, mutex, hung, alerts, frame, survey,
                   exchangeVars>>

\* clear_reconciliation_alerts by an operator
ClearAlerts(t) ==
    /\ Begin(t, "operator")
    /\ alerts
    /\ alerts' = FALSE
    /\ UNCHANGED <<active, rec, owner, mutex, hung, killSwitch, frame, survey,
                   exchangeVars>>

\* threading.Lock is not reentrant and blocks the thread, so a coroutine that
\* reaches `with self._lock` while another one is suspended inside it stops
\* the whole event loop for good.
BlockOnMutex(t) ==
    /\ mutex # NoOne
    /\ \/ Begin(t, "execute") /\ UNCHANGED killSwitch
       \/ Begin(t, "kill") /\ killSwitch' = TRUE
       \/ Continue(t, "closing") /\ UNCHANGED killSwitch
    /\ hung' = TRUE
    /\ UNCHANGED <<active, rec, owner, mutex, alerts, frame, survey, exchangeVars>>

-----------------------------------------------------------------------------
(* reconcile_active_trades_with_exchange.  One pass at a time is modelled;  *)
(* the records of a pass that need no request are visited in any order.     *)

Reconciling == \E t \in Tasks : frame[t].pc \in
    {"recPositions", "recOrders", "recGet", "recNext", "recCheck", "recDone"}
    \/ frame[t].then \in {"recCheck", "recDone"}

Reconcile(t) ==
    /\ Begin(t, "reconcile")
    /\ ~Reconciling
    /\ Await(t, [IdleFrame EXCEPT !.pc = "recPositions"])
    /\ survey' = NoSurvey
    /\ UNCHANGED <<engineVars, exchangeVars>>

\* get_positions, get_open_orders: EXCHANGE_UNREACHABLE if either fails
ResumeSnapshot(t) ==
    LET f == frame[t]
        ready == f.reply = "ok" /\ f.pc = "recOrders"
    IN  /\ Resume(t, "recPositions") \/ Resume(t, "recOrders")
        /\ IF f.reply = "error" THEN Stop(t)
           ELSE IF ready THEN Step(t, [IdleFrame EXCEPT !.pc = "recNext"])
           ELSE Await(t, [IdleFrame EXCEPT !.pc = "recOrders"])
        /\ alerts' = (alerts \/ f.reply = "error")
        /\ survey' = IF ready THEN [survey EXCEPT !.todo = active] ELSE survey
        /\ UNCHANGED <<active, rec, owner, mutex, hung, killSwitch, exchangeVars>>

\* Steps 4 and 5: what the snapshot holds and no visited record claimed.
Orphans(v) ==
    \/ \E s \in Setups \ v.claimed : v.pos[s] > 0
    \/ v.entries \ v.claimedEntries # {}
    \/ v.legs \ v.claimedLegs # {}

\* Only a pass without findings clears the alerts.
FinishReconcile(t) ==
    /\ Continue(t, "recNext")
    /\ survey.todo = {}
    /\ alerts' = (Orphans(survey) \/ (survey.dirty /\ alerts))
    /\ Stop(t)
    /\ survey' = NoSurvey
    /\ UNCHANGED <<active, rec, owner, mutex, hung, killSwitch, exchangeVars>>

\* Mutant: only an entry known to be part-filled is read back.
PartFilled(r) == r.state = "ENTRY_PARTIALLY_FILLED"
NeedsRefresh(r) == r.state \in RestingStates

\* The next record: its ids are claimed, then a resting entry is refreshed.
VisitRecord(t) ==
    /\ Continue(t, "recNext")
    /\ \E s \in survey.todo :
         LET r == rec[s]
             resting == NeedsRefresh(r)
             lost == resting /\ s \notin active
         IN  /\ survey' = [survey EXCEPT
                    !.todo = @ \ {s},
                    !.claimed = @ \cup {s},
                    !.claimedEntries = @ \cup {e \in {s} : r.entryId},
                    !.claimedLegs = @ \cup {r.sl, r.tp},
                    !.dirty = @ \/ lost]
             /\ IF lost THEN UNCHANGED frame
                ELSE IF resting
                THEN Await(t, [IdleFrame EXCEPT !.pc = "recGet", !.s = s,
                                                !.then = "recCheck"])
                ELSE Step(t, [IdleFrame EXCEPT !.pc = "recCheck", !.s = s])
    /\ UNCHANGED <<engineVars, exchangeVars>>

\* refresh_entry_from_exchange: no answer is an unresolved record
ResumeRefresh(t) ==
    LET f == frame[t]
    IN  /\ Resume(t, "recGet")
        /\ IF f.reply \in {"error", "missing"}
           THEN /\ survey' = [survey EXCEPT !.dirty = TRUE]
                /\ Step(t, [IdleFrame EXCEPT !.pc = "recNext"])
                /\ UNCHANGED <<active, rec, owner, alerts>>
           ELSE /\ ApplyEntry(t, f, [rec[f.s] EXCEPT !.entryId = TRUE],
                              f.reply, f.amt)
                /\ UNCHANGED survey
        /\ UNCHANGED <<mutex, hung, killSwitch, exchangeVars>>

\* Bracket ids missing from the snapshot are forgotten.
ForgetDeadLegs(r, size) ==
    LET sl == IF r.sl \in survey.legs THEN r.sl ELSE 0
        tp == IF r.tp \in survey.legs THEN r.tp ELSE 0
    IN  [r EXCEPT !.sl = sl, !.tp = tp, !.filled = Larger(@, size),
                  !.protected = IF sl = 0 /\ tp = 0 THEN 0 ELSE @]

ProtectionAgrees(r, size) ==
    r.sl \in survey.legs /\ r.tp \in survey.legs /\ r.protected = size

\* Steps 2 and 3, against the snapshot taken when the pass began.
CheckRecord(t) ==
    LET f == frame[t]
        r == rec[f.s]
        size == survey.pos[f.s]
        next == [IdleFrame EXCEPT !.pc = "recNext"]
    IN  /\ Continue(t, "recCheck")
        /\ IF f.s \notin active \/ r.filled = 0
              \/ (size > 0 /\ ProtectionAgrees(r, size))
           THEN Step(t, next) /\ UNCHANGED <<rec, alerts, survey>>
           ELSE IF size = 0
           THEN /\ SetRec(f.s, [r EXCEPT !.state = "RECONCILIATION_REQUIRED"])
                /\ Step(t, next)
                /\ alerts' = TRUE
                /\ survey' = [survey EXCEPT !.dirty = TRUE]
           ELSE /\ BeginProtection(t, [IdleFrame EXCEPT !.s = f.s, !.then = "recDone"],
                                   ForgetDeadLegs(r, size), size)
                /\ UNCHANGED <<alerts, survey>>
        /\ UNCHANGED <<active, owner, mutex, hung, killSwitch, exchangeVars>>

\* Mutant: a stop loss alone counts as restored protection.
StopIsEnough(s) == rec[s].sl # 0
Restored(s) == rec[s].state = "PROTECTED_POSITION"

\* POSITION_UNPROTECTED unless protection was restored
RecordDone(t) ==
    LET restored == Restored(frame[t].s)
    IN  /\ Continue(t, "recDone")
        /\ Step(t, [IdleFrame EXCEPT !.pc = "recNext"])
        /\ alerts' = (alerts \/ ~restored)
        /\ survey' = [survey EXCEPT !.dirty = @ \/ ~restored]
        /\ UNCHANGED <<active, rec, owner, mutex, hung, killSwitch, exchangeVars>>

-----------------------------------------------------------------------------
(* The exchange answers a request *)

Awaiting(t, pcs) == frame[t].pc \in pcs /\ frame[t].reply = "wait"
Answer(t, reply) == frame' = [frame EXCEPT ![t].reply = reply]
SetOrder(s, o) == ex' = [ex EXCEPT ![s] = o]

EntryCancelPcs == {"expCancel", "killCancel"}
LegCancelPcs == {"cancel", "closeCancel"}

\* The answer to a request that took effect, or its loss.
AnswerOrLose(t, reply) ==
    Answer(t, reply) \/ (Network = "lossy" /\ Answer(t, "error"))

\* Not delivered, or delivered and failed: nothing happened.
AnswerError(t) ==
    /\ Awaiting(t, AwaitPcs \ {"post"})
    /\ Network # "reliable"
    /\ Answer(t, "error")
    /\ UNCHANGED <<engineVars, survey, exchangeVars>>

\* A cancel of an order that is no longer open, or a reduce-only order
\* without a position, is refused.
AnswerRefused(t) ==
    /\ \/ Awaiting(t, EntryCancelPcs) /\ ex[frame[t].s].entry # "open"
       \/ Awaiting(t, LegCancelPcs) /\ leg[frame[t].oid].st # "open"
       \/ Awaiting(t, {"place"}) /\ ex[frame[t].s].pos = 0
    /\ Answer(t, "error")
    /\ UNCHANGED <<engineVars, survey, exchangeVars>>

\* POST of the entry: refused, or accepted and possibly filled at once.
RefuseEntry(t) ==
    /\ Awaiting(t, {"post"})
    /\ \/ Answer(t, "rejected")
       \/ /\ Network # "reliable"
          /\ \E reply \in {"timeout", "error"} : Answer(t, reply)
    /\ UNCHANGED <<engineVars, survey, exchangeVars>>

AcceptEntry(t) ==
    /\ Awaiting(t, {"post"})
    /\ \E n \in Amounts, bracket \in Brackets :
         LET status == IF n = Qty THEN "filled" ELSE "open"
         IN  /\ SetOrder(frame[t].s, [entry |-> status, got |-> n, pos |-> n,
                                      bracket |-> bracket])
             /\ \/ frame' = [frame EXCEPT ![t].reply = status, ![t].amt = n]
                \/ /\ Network = "lossy"
                   /\ \E reply \in {"timeout", "error"} : Answer(t, reply)
    /\ UNCHANGED <<engineVars, survey, leg>>

CancelEntry(t) ==
    LET s == frame[t].s
    IN  /\ Awaiting(t, EntryCancelPcs)
        /\ ex[s].entry = "open"
        /\ SetOrder(s, [ex[s] EXCEPT !.entry = "cancelled"])
        /\ AnswerOrLose(t, "ok")
        /\ UNCHANGED <<engineVars, survey, leg>>

\* GET of the entry order
ReadEntry(t) ==
    LET o == ex[frame[t].s]
        known == o.entry # "none"
    IN  /\ Awaiting(t, {"expGet", "recGet", "killVerify"})
        /\ frame' = [frame EXCEPT
                ![t].reply = IF known THEN o.entry ELSE "missing",
                ![t].amt = o.got]
        /\ UNCHANGED <<engineVars, survey, exchangeVars>>

ReadEcho(t) ==
    /\ Awaiting(t, {"echo"})
    /\ Answer(t, ex[frame[t].s].bracket)
    /\ UNCHANGED <<engineVars, survey, exchangeVars>>

CancelLeg(t) ==
    LET i == frame[t].oid
    IN  /\ Awaiting(t, LegCancelPcs)
        /\ leg[i].st = "open"
        /\ leg' = [leg EXCEPT ![i].st = "cancelled"]
        /\ AnswerOrLose(t, "ok")
        /\ UNCHANGED <<engineVars, survey, ex>>

ReadLeg(t) ==
    /\ Awaiting(t, {"verify", "closeVerify"})
    /\ Answer(t, leg[frame[t].oid].st)
    /\ UNCHANGED <<engineVars, survey, exchangeVars>>

\* The engine's TP is a plain reduce-only limit: never an adoptable leg.
AdoptableLeg(i, s, size) ==
    /\ leg[i].st = "open" /\ leg[i].s = s /\ leg[i].size = size
    /\ IF leg[i].maker = "exchange" THEN ex[s].bracket = "exact"
       ELSE leg[i].role = "sl"

ReadOpenOrders(t) ==
    LET f == frame[t]
    IN  /\ Awaiting(t, {"openOrders"})
        /\ frame' = [frame EXCEPT ![t].reply = "ok",
                ![t].seen = {i \in LegIds : AdoptableLeg(i, f.s, f.goal)}]
        /\ UNCHANGED <<engineVars, survey, exchangeVars>>

\* Ids are taken in ascending order.
FreshLeg(i) ==
    /\ i \in LegIds
    /\ leg[i].st = "free"
    /\ \A j \in LegIds : j < i => leg[j].st # "free"

NewLeg(s, role, size, maker) ==
    [st |-> "open", s |-> s, role |-> role, size |-> size, maker |-> maker]

PlaceLeg(t) ==
    LET f == frame[t]
    IN  /\ Awaiting(t, {"place"})
        /\ \E i \in LegIds :
             /\ FreshLeg(i)
             /\ leg' = [leg EXCEPT ![i] = NewLeg(f.s, f.role, f.goal, "engine")]
             /\ \/ frame' = [frame EXCEPT ![t].reply = "ok", ![t].oid = i]
                \/ Network = "lossy" /\ Answer(t, "error")
        /\ UNCHANGED <<engineVars, survey, ex>>

ReadBalance(t) ==
    /\ Awaiting(t, {"balance"})
    /\ Answer(t, "ok")
    /\ UNCHANGED <<engineVars, survey, exchangeVars>>

ReadPositions(t) ==
    /\ Awaiting(t, {"recPositions"})
    /\ Answer(t, "ok")
    /\ survey' = [survey EXCEPT !.pos = [s \in Setups |-> ex[s].pos]]
    /\ UNCHANGED <<engineVars, exchangeVars>>

ReadAllOrders(t) ==
    /\ Awaiting(t, {"recOrders"})
    /\ Answer(t, "ok")
    /\ survey' = [survey EXCEPT
            !.legs = {i \in LegIds : leg[i].st = "open"},
            !.entries = {s \in Setups : ex[s].entry = "open"}]
    /\ UNCHANGED <<engineVars, exchangeVars>>

-----------------------------------------------------------------------------
(* The exchange moves by itself *)

FillEntry(s) ==
    LET o == ex[s]
    IN  /\ o.entry = "open"
        /\ SetOrder(s, [o EXCEPT !.got = @ + 1, !.pos = @ + 1,
                !.entry = IF o.got + 1 = Qty THEN "filled" ELSE "open"])
        /\ UNCHANGED <<engineVars, frame, survey, leg>>

\* Cancelled by the user or expired by the exchange
EntryDies(s) ==
    /\ ex[s].entry = "open"
    /\ SetOrder(s, [ex[s] EXCEPT !.entry = "cancelled"])
    /\ UNCHANGED <<engineVars, frame, survey, leg>>

\* The attached bracket is built, once, after a fill.
BuildBracket(s) ==
    /\ ex[s].bracket # "plain"
    /\ ex[s].pos > 0
    /\ \A i \in LegIds : ~(leg[i].s = s /\ leg[i].maker = "exchange")
    /\ \E i, j \in LegIds :
         /\ FreshLeg(i)
         /\ j = i + 1
         /\ leg' = [leg EXCEPT ![i] = NewLeg(s, "sl", ex[s].pos, "exchange"),
                               ![j] = NewLeg(s, "tp", ex[s].pos, "exchange")]
    /\ UNCHANGED <<engineVars, frame, survey, ex>>

LegFills(i) ==
    LET s == leg[i].s
    IN  /\ leg[i].st = "open"
        /\ ex[s].pos > 0
        /\ leg' = [leg EXCEPT ![i].st = "filled"]
        /\ SetOrder(s, [ex[s] EXCEPT
                !.pos = IF @ > leg[i].size THEN @ - leg[i].size ELSE 0])
        /\ UNCHANGED <<engineVars, frame, survey>>

\* A reduce-only order of a flat position is cancelled by the exchange.
LegDropped(i) ==
    /\ leg[i].st = "open"
    /\ ex[leg[i].s].pos = 0
    /\ leg' = [leg EXCEPT ![i].st = "cancelled"]
    /\ UNCHANGED <<engineVars, frame, survey, ex>>

\* The position is closed outside the engine: by hand or by liquidation.
Flatten(s) ==
    /\ ex[s].pos > 0
    /\ SetOrder(s, [ex[s] EXCEPT !.pos = 0])
    /\ UNCHANGED <<engineVars, frame, survey, leg>>

-----------------------------------------------------------------------------
(* Specification *)

Calls(t) ==
    \/ \E s \in Setups :
         \/ RefuseSetup(t, s) \/ RefuseAtGateway(t, s) \/ Submit(t, s)
         \/ OrderEvent(t, s) \/ FillEvent(t, s) \/ OrphanPositionEvent(t, s)
         \/ ClosureEvent(t, s) \/ Expire(t, s)
    \/ StreamIntegrityLost(t) \/ Reconcile(t) \/ KillSwitch(t)
    \/ ResetKillSwitch(t) \/ ClearAlerts(t) \/ BlockOnMutex(t)

Proceeds(t) ==
    \/ ResumePost(t) \/ ResumeCancel(t) \/ ResumeVerify(t) \/ ResumeEcho(t)
    \/ ResumeOpenOrders(t) \/ ResumePlace(t) \/ ResumeBalance(t)
    \/ StartClose(t) \/ ResumeCloseCancel(t) \/ ResumeCloseVerify(t)
    \/ ResumeExpireCancel(t) \/ ResumeExpireGet(t)
    \/ KillNext(t) \/ ResumeKillCancel(t) \/ ResumeKillVerify(t)
    \/ ResumeSnapshot(t) \/ FinishReconcile(t) \/ VisitRecord(t)
    \/ ResumeRefresh(t) \/ CheckRecord(t) \/ RecordDone(t)

Answers(t) ==
    \/ AnswerError(t) \/ AnswerRefused(t) \/ RefuseEntry(t) \/ AcceptEntry(t) \/ CancelEntry(t)
    \/ ReadEntry(t) \/ ReadEcho(t) \/ CancelLeg(t) \/ ReadLeg(t)
    \/ ReadOpenOrders(t) \/ PlaceLeg(t) \/ ReadBalance(t) \/ ReadPositions(t)
    \/ ReadAllOrders(t)

ExchangeMoves ==
    \/ \E s \in Setups : FillEntry(s) \/ EntryDies(s) \/ BuildBracket(s) \/ Flatten(s)
    \/ \E i \in LegIds : LegFills(i) \/ LegDropped(i)

Next ==
    \/ \E t \in Tasks : Calls(t) \/ Proceeds(t) \/ Answers(t)
    \/ ExchangeMoves

Spec == Init /\ [][Next]_vars

-----------------------------------------------------------------------------
(* Properties *)

\* The exchange holds something for s: a live entry order or a position.
Exposed(s) == ex[s].entry = "open" \/ ex[s].pos > 0

Quiet == \A t \in Tasks : Idle(t)

\* ARCHITECTURE.md's portfolio-wide limit of one trade, for the trades the
\* manager tracks: an active trade with something live on the exchange holds
\* the single-trade lock, whatever calls overlap and whichever replies are
\* late (_release_setup_lock, close_position and _archive_and_release are the
\* only exits that give the lock back).
TrackedExposureHoldsLock == \A s \in active : Exposed(s) => owner = s

\* The stronger promise the lock is for: nothing is live on the exchange that
\* the manager does not track under the lock.
ExposureHoldsLock == \A s \in Setups : Exposed(s) => s \in active /\ owner = s

\* "Lock is released ONLY when the trade is confirmed" gone: with what is live
\* on the exchange as its live set, every step of the manager is a step of the
\* one-trade slot, so the lock is never taken over or given back early.
Slot == INSTANCE TradeSlot
            WITH holder <- owner, live <- {s \in Setups : Exposed(s)}
ImplementsSlot == Slot!SlotSpec

\* A verdict that the entry died unfilled (_finalize_unfilled_entry) is never
\* passed on an entry that has filled or still can: the fill-versus-cancel
\* races of expire_resting_entry and of the stream are all lost to the fill.
UnfilledVerdictIsTrue ==
    \A s \in Setups :
        rec[s].state \in {"ENTRY_CANCELLED", "ENTRY_TIMEOUT"} =>
            ex[s].entry = "cancelled" /\ ex[s].got = 0

\* The manager never believes in a fill the exchange has not made, and never
\* claims protection for more than it believes filled.
FillsAreReal ==
    \A s \in Setups :
        /\ rec[s].filled <= ex[s].got
        /\ rec[s].protected <= rec[s].filled

\* Replayed frames and stale snapshots never shrink an observed fill.
FillsNeverRegress ==
    [][\A s \in Setups : rec'[s].filled >= rec[s].filled]_vars

OpenLegs(s, role) ==
    {i \in LegIds : leg[i].st = "open" /\ leg[i].s = s /\ leg[i].role = role}

\* _ensure_bracket_protection: "two live reduce-only stops on one position is
\* exactly the duplicate protection §M2 forbids".
NoDuplicateStop == \A s \in Setups : Cardinality(OpenLegs(s, "sl")) <= 1

\* PROTECTED_POSITION is told of real orders: between calls, the two tracked
\* ids name an SL and a TP of this trade, of the protected size, that the
\* engine has not itself cancelled (the exchange drops legs of a flat position).
ProtectionIsReal ==
    \A s \in active :
        Quiet /\ rec[s].state = "PROTECTED_POSITION" =>
            /\ rec[s].protected > 0
            /\ \A role \in Roles :
                 LET i == rec[s][role]
                 IN  /\ i # 0
                     /\ leg[i].s = s /\ leg[i].role = role
                     /\ leg[i].size = rec[s].protected
                     /\ leg[i].st = "cancelled" => ex[s].pos < ex[s].got

\* Resizing, retrying and adopting never lose sight of an order the engine
\* placed: between calls every such order that still rests is one of the two
\* tracked ids, so that closing the trade cancels it.
EngineLegsTracked ==
    Quiet => \A i \in LegIds :
        leg[i].st = "open" /\ leg[i].maker = "engine" /\ leg[i].s \in active =>
            i = rec[leg[i].s][leg[i].role]

\* A reconciliation pass that ends with the alerts cleared ("positive exchange
\* confirmation") leaves no position of its snapshot unprotected.
EndsPass(t) == frame[t].pc = "recNext" /\ frame'[t].pc = "idle"
CleanPassSeesProtection ==
    [][\A t \in Tasks : EndsPass(t) /\ ~survey.dirty /\ ~alerts' =>
           \A s \in Setups : survey.pos[s] > 0 =>
               BothLegs(rec[s]) /\ rec[s].protected = survey.pos[s]]_vars

\* A position that its own SL or TP closed ends the trade: a closure whose
\* protective orders are both dead on the exchange completes and frees the slot.
Closing(t, s) ==
    frame[t].s = s /\ frame[t].pc \in {"closing", "closeCancel", "closeVerify"}
ExitClosesTrade ==
    [][\A t \in Tasks, s \in active :
           /\ Closing(t, s)
           /\ frame'[t].pc = "idle"
           /\ ~Exposed(s)
           /\ \A i \in LegIds : leg[i].s = s => leg[i].st # "open"
           => s \notin active']_vars

\* activate_kill_switch: "only a positively confirmed terminal state counts as
\* cancelled"; a trade archived by the kill switch has nothing live.
KilledMeansDead ==
    \A s \in Setups : rec[s].state = "KILL_SWITCH_TRIGGERED" => ~Exposed(s)

=============================================================================
