--------------------------- MODULE SMCSubmission ---------------------------
(***************************************************************************)
(* The Manual SMC runtime with the execution side wired to it.  The feed   *)
(* callback hands every candle's report to a task of its own, which asks   *)
(* the lifecycle manager to cancel the entries of order blocks that have   *)
(* died and then offers the first ready decision to the orchestrator.      *)
(* Candles go on arriving while tasks wait for their turn or for the       *)
(* exchange: after a reconnect, several hours of them in one burst.        *)
(*                                                                         *)
(* The lifecycle manager is reduced to what its methods promise about the  *)
(* one trade it may run; TradeLifecycle is its model.                      *)
(***************************************************************************)
EXTENDS ManualSMC, Sequences

CONSTANTS
    Traded,     \* bound: the order blocks that appear to an executing process
    MaxTasks    \* bound: submissions in flight

ASSUME SubmissionAssumption == Traded \subseteq OBs /\ MaxTasks \in Nat

VARIABLES
    bound,      \* whether an orchestrator is bound (submit_to, orchestrator)
    tasks,      \* runtime.submit tasks that have not reached the orchestrator
    entry,      \* the trade of the lifecycle manager, and how it stands
    left        \* order blocks whose entries an earlier process left at the exchange

desk == <<bound, tasks, entry, left>>

NoEntry == [ob |-> NoOB, state |-> "none", late |-> FALSE]
Entries == [ob: OBs \cup {NoOB}, late: BOOLEAN,
            state: {"none", "posting", "resting", "open", "unresolved"}]
Tasks   == [dead: SUBSET OBs, cancel: SUBSET OBs, pick: OBs \cup {NoOB}]

SubmitInit ==
    /\ Init
    /\ bound \in BOOLEAN
    /\ bound => mode = "FIRST_TOUCH_WINDOW"
    /\ tasks = <<>> /\ entry = NoEntry /\ left = {}

-----------------------------------------------------------------------------
(* The feed callback                                                       *)

\* scan_and_execute takes the first ready decision of a supported symbol.
FirstReady(ready) ==
    IF ready = {} THEN NoOB
    ELSE CHOOSE o \in ready : \A p \in ready \ {o} : ~Earlier(p, o)

\* cancel_ob_ids of a fill: the other limits that rest, on any pair.
SupersededByFill ==
    IF active'.ob \in {NoOB, active.ob} THEN {}
    ELSE {o \in OBs : ob'[o].state = "LIMIT_RESTING"}

\* What a candle's report says of entries: expired_setup_ids, the withdrawals
\* (cancel_ob_ids), which nothing reads, and the first ready decision.
Report == [dead |-> Invalidated, cancel |-> Invalidated \cup SupersededByFill,
           pick |-> FirstReady(offered')]
AsksForSomething(report) == report.dead # {} \/ report.pick # NoOB

\* make_feed_callback: a candle that is refused leaves no report, one that is
\* processed becomes a task.  A report that asks for nothing is not kept.
CandleCallback(a) ==
    /\ Len(tasks) < MaxTasks
    /\ ClosedCandle(a)
    /\ bound => \A o \in OBs \ Traded : ob'[o].state = "UNBORN"
    /\ tasks' = IF bound /\ fault' = "none" /\ AsksForSomething(Report)
                THEN Append(tasks, Report) ELSE tasks
    /\ UNCHANGED <<bound, entry, left>>

-----------------------------------------------------------------------------
(* submit                                                                  *)

\* A task that awaits the verdict on an entry it asked to cancel.
Cancelling(i) == entry.ob \in tasks[i].dead

\* Tasks start in the order in which they were created.
MayRun(i) == \A j \in 1..(i - 1) : Cancelling(j)

Finish(i) == [j \in 1..(Len(tasks) - 1) |-> IF j < i THEN tasks[j] ELSE tasks[j + 1]]
GoOn(i) == IF tasks[i].pick = NoOB THEN Finish(i)
           ELSE [tasks EXCEPT ![i].dead = {}]

\* expire_resting_entry: the exchange decides.  An entry whose submission has not
\* returned cannot be verified, one that is not resting is left alone.
ExpiryVerdicts(e) ==
    IF e.state = "resting"
    THEN {NoEntry, [e EXCEPT !.state = "open"], [e EXCEPT !.state = "unresolved"]}
    ELSE IF e.state = "posting" THEN {[e EXCEPT !.state = "unresolved"]}
    ELSE {e}

\* Mutant: a candle without a ready decision has nothing to do.
CancelOnlyBeforeEntry(i) == tasks[i].pick # NoOB /\ Cancelling(i)

CancelExpired(i) == Cancelling(i)

CancelExpiredEntries(i) ==
    /\ MayRun(i)
    /\ tasks[i].dead # {}
    /\ entry' \in IF CancelExpired(i) THEN ExpiryVerdicts(entry) ELSE {entry}
    /\ tasks' = GoOn(i)
    /\ UNCHANGED <<vars, bound, left>>

\* scan_and_execute: refused while the lock is held, refused by the gates of the
\* engine, or an entry on its way to the exchange.
ScanAndExecute(i) ==
    /\ MayRun(i)
    /\ tasks[i].dead = {}
    /\ LET o == tasks[i].pick
           sent == [ob |-> o, state |-> "posting",
                    late |-> /\ ob[o].state # "LIMIT_RESTING"
                             /\ \A j \in 1..Len(tasks) : o \notin tasks[j].dead]
       IN  entry' \in IF entry = NoEntry THEN {sent, entry} ELSE {entry}
    /\ tasks' = Finish(i)
    /\ UNCHANGED <<vars, bound, left>>

-----------------------------------------------------------------------------
(* What the execution side does by itself                                  *)

\* execute_trade_setup's submission returns.
SubmissionReturns ==
    /\ entry.state = "posting"
    /\ entry' \in {NoEntry} \cup
                  {[entry EXCEPT !.state = s] : s \in {"resting", "open", "unresolved"}}
    /\ UNCHANGED <<vars, bound, tasks, left>>

\* A fill, a cancellation at the exchange or a closure, as the private stream or
\* ManualSMCRuntime.reconcile reports it.  What is unresolved stays so until an
\* operator ends it or its fill is found.
ExchangeMoves ==
    /\ \/ /\ entry.state \in {"resting", "unresolved"}
          /\ entry' \in {NoEntry, [entry EXCEPT !.state = "open"]}
       \/ /\ entry.state = "open"
          /\ entry' = NoEntry
    /\ UNCHANGED <<vars, bound, tasks, left>>

\* An order an earlier process left fills, or is cancelled by hand.  No task cancels
\* it: expire_resting_entry finds no trade in the new manager's memory.
LeftOrderEnds ==
    /\ \E o \in left : left' = left \ {o}
    /\ UNCHANGED <<vars, bound, tasks, entry>>

\* A restart loses the tasks and the memory of the lifecycle manager, but not what it
\* had sent.
MayBeLeft(e) ==
    IF e.state = "resting" THEN {{e.ob}}
    ELSE IF e.state \in {"posting", "unresolved"} THEN {{}, {e.ob}}
    ELSE {{}}

Restart ==
    /\ Resume(Snapshot)
    /\ tasks' = <<>> /\ entry' = NoEntry
    /\ \E orders \in MayBeLeft(entry) : left' = left \cup orders
    /\ UNCHANGED bound

SubmitNext ==
    \/ \E a \in Assets : CandleCallback(a)
    \/ \E i \in 1..Len(tasks) : CancelExpiredEntries(i) \/ ScanAndExecute(i)
    \/ SubmissionReturns
    \/ ExchangeMoves
    \/ LeftOrderEnds
    \/ Restart

SubmitSpec == SubmitInit /\ [][SubmitNext]_<<vars, desk>>

-----------------------------------------------------------------------------
(* Properties                                                              *)

\* The strategy wants the entry of a limit that rests while the slot is free, and of
\* its own open trade.
Wanted(o) ==
    \/ ob[o].state = "LIMIT_RESTING" /\ active.ob = NoOB
    \/ ob[o].state = "TRADE_ACTIVE"

\* Another order block's trade has the slot: cancel_ob_ids said that the entry must
\* be withdrawn, and nobody withdraws it.
Superseded(o) == ob[o].state = "LIMIT_RESTING" /\ active.ob \notin {NoOB, o}

\* The entries that rest although nobody wants them.  Beside the superseded ones: the
\* cancellation came and went before the order was sent, or the strategy's own trade
\* on that order block is over, which no event reports.
RestsUnwanted(e) ==
    \/ Superseded(e.ob)
    \/ e.late
    \/ ob[e.ob].state = "TRADE_CLOSED"

\* An entry that this process has resting at the exchange is one the strategy still
\* wants, or a task that will cancel it is on its way (cancel_expired_entries), but
\* for the three holes RestsUnwanted names.  Orders that an earlier process left are
\* a fourth: no process knows of them.
RestingEntriesAreWanted ==
    entry.state = "resting" /\ (\A i \in 1..Len(tasks) : ~Cancelling(i)) =>
        Wanted(entry.ob) \/ RestsUnwanted(entry)
=============================================================================
