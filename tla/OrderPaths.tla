----------------------------- MODULE OrderPaths -----------------------------
(***************************************************************************)
(* The two order paths besides the lifecycle manager.                      *)
(*                                                                         *)
(* "service": LiveOrderExecutionService (execution_engine.py) validates an *)
(* order through OrderValidationGateway, submits it and, when the outcome  *)
(* is unknown, asks the exchange once.                                     *)
(*                                                                         *)
(* "session": MultiUserExecutionOrchestrator dispatches a signal; per      *)
(* account a UserExecutionSession takes the single-trade lock, reads the   *)
(* account, sizes, submits the entry and then its brackets.  The lock goes *)
(* back through reconcile_account(auto_resolve) of reconciliation.py.      *)
(*                                                                         *)
(* The module is one account, traded through one of the paths.  A task is  *)
(* one call of execute_order or of execute_trade, a coroutine; calls       *)
(* overlap at every await.  A request leaves, may arrive at any later      *)
(* time, and its answer may be lost, refused or unreadable.                *)
(***************************************************************************)
EXTENDS Integers, FiniteSets

CONSTANTS
    Tasks,          \* calls
    Setups,         \* setup ids
    ClientIds,      \* client order ids
    SetupOf(_),     \* the setup a call executes
    IdOf(_),        \* the client order id a call submits
    Requests,       \* order requests and decisions that may be handed in
    Equity,         \* account.total_equity
    Available,      \* account.available_balance
    ContractValue,  \* of the instrument
    MaxLeverage     \* max_leverage of the risk configuration

Free == "free"  \* the lock names no setup

\* A request or a decision, whatever it says; a price of 0 was not given.
Orders == [type: {"LIMIT", "STOP_LIMIT", "STOP_MARKET", "MARKET", "OTHER"},
           symbol: {"listed", "unlisted"}, side: {"LONG", "SHORT", "NEITHER"},
           entry: Int, stop: Int, target: Int, size: Int, leverage: Int,
           reduceOnly: BOOLEAN]

ASSUME OrderAssumption ==
    /\ \A t \in Tasks : SetupOf(t) \in Setups /\ IdOf(t) \in ClientIds
    /\ Free \notin Setups
    /\ Requests \subseteq Orders
    /\ Equity \in Nat /\ Available \in Nat /\ ContractValue \in Nat \ {0}
    /\ MaxLeverage \in 1..100

VARIABLES
    path,      \* how the account is traded
    ex,        \* exchange: what each call has put there
    task,      \* the coroutines
    lock,      \* SingleTradeLockManager: the active setup
    audit,     \* reconcile_account
    flying,    \* _in_flight_setups
    ids,       \* _in_flight_client_order_ids
    store,     \* LocalStateStore.orders, by client order id
    executed,  \* StrategyDecisionStore._executed_setups
    holes      \* history: which known hole of the design was stepped into

serviceVars == <<flying, ids, store, executed>>
sessionVars == <<lock, audit>>
vars == <<path, ex, task, lock, audit, flying, ids, store, executed, holes>>

-----------------------------------------------------------------------------
(* Types *)

None == [type |-> "none", reduceOnly |-> FALSE]
Results == {"none", "SKIPPED", "BLOCKED", "ERROR", "RECONCILIATION_REQUIRED",
            "EXECUTED", "REJECTED", "FAILED", "SUBMITTED", "PARTIALLY_FILLED", "FILLED"}
Steps == {"idle", "balances", "positions", "ticker", "post", "poll", "stop",
          "target", "reconcile", "done"}

\* An order that works: an untriggered stop, on the book, with a part executed.
Working == {"pending", "open", "partial"}

\* What OrderStatus may say of an order.
Statuses == {"PENDING", "OPEN", "PARTIALLY_FILLED", "FILLED", "CANCELLED", "REJECTED"}

\* A request on the wire, the entry order it makes ("filled": it ended with an
\* execution), the position, the brackets.
Exposure == [wire: {"none", "sent", "taken", "refused"},
             entry: {"none", "filled", "dead"} \cup Working,
             held: BOOLEAN, stop: BOOLEAN, target: BOOLEAN,
             order: Orders \cup {None}]

TypeOK ==
    /\ path \in {"service", "session"}
    /\ ex \in [Tasks -> Exposure]
    /\ task \in [Tasks -> [pc: Steps, result: Results]]
    /\ lock \in Setups \cup {Free}
    /\ audit \in [pc: {"idle", "positions", "orders", "release"}, flat: BOOLEAN]
    /\ flying \in SUBSET Setups
    /\ ids \in SUBSET ClientIds
    /\ store \in [ClientIds -> {"none"} \cup Statuses]
    /\ executed \in SUBSET Setups
    /\ holes \in SUBSET ({"unread", "early"} \cup Tasks)

Init ==
    /\ path \in {"service", "session"}
    /\ ex = [t \in Tasks |-> [wire |-> "none", entry |-> "none", held |-> FALSE,
                              stop |-> FALSE, target |-> FALSE, order |-> None]]
    /\ task = [t \in Tasks |-> [pc |-> "idle", result |-> "none"]]
    /\ lock = Free
    /\ audit = [pc |-> "idle", flat |-> FALSE]
    /\ flying = {}
    /\ ids = {}
    /\ store = [i \in ClientIds |-> "none"]
    /\ executed = {}
    /\ holes = {}

At(t, pc) == task[t].pc = pc
Goto(t, pc) == task' = [task EXCEPT ![t].pc = pc]
Return(t, result) == task' = [task EXCEPT ![t] = [pc |-> "done", result |-> result]]

-----------------------------------------------------------------------------
(* The contracts of models.py: what may go on the wire, what may be read.  *)

\* exchange_contract_count: a positive whole number of contracts.
WholeContracts(q) == q.size > 0

\* _assert_stop_contract: a stop says so, with its level and its trigger series.
StopContract(q) ==
    IF q.stopType
    THEN q.stopPrice /\ q.trigger
    ELSE ~q.stopPrice /\ q.type \notin {"STOP_MARKET", "STOP_LIMIT"}

Submittable(q) == WholeContracts(q) /\ StopContract(q)

\* What a row of an answer may lack.
\* (an answer fails with any of its rows).
Rows == [symbol: {"ours", "foreign", "unregistered"},
         product: {"ours", "foreign", "absent"},
         state: {"known", "unknown", "absent"},
         id: {"usable", "zero", "absent"},
         size: {"stated", "absent"}]

\* The verified id belongs to the verified symbol.
Identified(row) == row.symbol # "unregistered" /\ row.product = row.symbol

\* DeltaOrderResponse.from_dict
ReadableOrder(row) ==
    /\ Identified(row)
    /\ row.state = "known"
    /\ row.id = "usable"

\* DeltaPosition.from_dict: a row without a size is not flat.
ReadablePosition(row) == Identified(row) /\ row.size = "stated"

\* required_decimal: an observed number, zero included.  What was not sent, is no
\* number (a boolean neither) or is not finite is refused, never read as zero.
Figures == {"zero", "positive", "absent", "blank", "boolean", "text", "infinite"}
RequiredDecimal(figure) == figure \in {"zero", "positive"}

\* DeltaWalletBalance.from_dict, over every wallet of the answer.
Wallets == [asset: {"USDT", "BTC", "unnamed"}, available: Figures]
ReadableWallet(w) == w.asset # "unnamed" /\ RequiredDecimal(w.available)

\* The collateral wallet of an answer holds something to trade with.
Collateral(w) == w.asset = "USDT" /\ w.available = "positive"

\* get_ticker: this symbol's, with a finite positive mark.
Tickers == [symbol: {"ours", "foreign"}, mark: {"absent", "notANumber"} \cup {"priced"}]
UsableTicker(q) == q.symbol = "ours" /\ q.mark = "priced"

-----------------------------------------------------------------------------
(* Sizing: capital_allocator.py and execute_from_strategy_decision *)

\* calculate_100_percent_allocation: contracts, 0 for CapitalAllocationError.
\* buffer: per cent of the balance in use; unit: contract value.
Allocation(balance, mark, leverage, buffer, unit) ==
    IF balance <= 0 \/ mark <= 0 \/ leverage \notin 1..100 \/ buffer \notin 1..100
    THEN 0
    ELSE LET quantity == (balance * buffer * leverage) \div (100 * mark * unit)
             margin == (quantity * unit * mark) \div leverage
         IN  IF margin > balance THEN 0 ELSE quantity

\* Decimal.quantize: to the nearest integer, ties to the even one.
Nearest(a, b) ==
    LET q == a \div b
        r == 2 * (a % b)
    IN  IF r > b \/ (r = b /\ q % 2 = 1) THEN q + 1 ELSE q

RiskDistance(r) == IF r.side = "LONG" THEN r.entry - r.stop ELSE r.stop - r.entry
RewardDistance(r) == IF r.side = "LONG" THEN r.target - r.entry ELSE r.entry - r.target

\* 35 per cent of the equity over the risk distance, at least one contract.
DecisionQuantity(r) ==
    IF RiskDistance(r) <= 0 THEN 1
    ELSE LET q == Nearest(Equity * 35, 100 * RiskDistance(r))
         IN  IF q < 1 THEN 1 ELSE q

Sized(r) == [r EXCEPT !.type = "LIMIT", !.size = DecisionQuantity(r),
                      !.leverage = MaxLeverage, !.reduceOnly = FALSE]

-----------------------------------------------------------------------------
(* OrderValidationGateway.validate: the checks, each refusing the order.   *)
(* The context is the caller's picture of the account.                     *)

Fine == [account |-> "ready", open |-> FALSE, known |-> FALSE]
Contexts ==
    {Fine, [Fine EXCEPT !.open = TRUE], [Fine EXCEPT !.known = TRUE]}
    \cup {[Fine EXCEPT !.account = a] :
            a \in {"inactive", "algoOff", "killed", "disconnected", "badKeys"}}

AccountReady(c) == c.account = "ready"

InstrumentKnown(r) == r.symbol = "listed" /\ r.side \in {"LONG", "SHORT"}
                      /\ r.type # "OTHER"

\* The minimum and the step are one contract.
QuantityOnGrid(r) == r.size >= 1

PriceValid(r) == r.type \in {"LIMIT", "STOP_LIMIT"} => r.entry > 0

\* A leverage of 0 is not "unset".
LeverageInBand(r) == r.leverage >= 1 /\ r.leverage <= MaxLeverage

GeometrySound(r) == RiskDistance(r) > 0 /\ RewardDistance(r) > 0

\* MUTANT of RewardSuffices
RewardEqualsRisk(r) == RewardDistance(r) >= RiskDistance(r)

\* At least 1.5 of reward for 1 of risk.
RewardSuffices(r) == 2 * RewardDistance(r) >= 3 * RiskDistance(r)

\* 35 per cent of the equity, with 1 per cent of tolerance; no limit without equity.
RiskWithinLimit(r) ==
    \/ r.size * ContractValue * RiskDistance(r) * 10000 <= Equity * 35 * 101
    \/ Equity = 0

MarginAvailable(r) == r.size * ContractValue * r.entry <= Available * r.leverage

Protected(r) == r.stop > 0 /\ r.target > 0 /\ r.entry > 0

\* Protection, geometry, reward, risk and margin.
OpensSoundly(r) ==
    /\ Protected(r)
    /\ GeometrySound(r)
    /\ RewardSuffices(r)
    /\ RiskWithinLimit(r)
    /\ MarginAvailable(r)

\* A reduce-only order needs no room for a position and none of the above.
Valid(r, c) ==
    /\ AccountReady(c)
    /\ InstrumentKnown(r)
    /\ QuantityOnGrid(r)
    /\ PriceValid(r)
    /\ r.reduceOnly \/ ~c.open
    /\ LeverageInBand(r)
    /\ r.reduceOnly \/ OpensSoundly(r)
    /\ ~c.known

IsStop(r) == r.type \in {"STOP_LIMIT", "STOP_MARKET"}

\* The DeltaOrderRequest a validated request becomes; a stop carries its contract.
WireOrder(r) ==
    [type |-> r.type, size |-> r.size, stopType |-> IsStop(r),
     stopPrice |-> IsStop(r) /\ r.stop # 0, trigger |-> IsStop(r)]

-----------------------------------------------------------------------------
(* The exchange *)

Sent(t) == ex' = [ex EXCEPT ![t].wire = "sent"]

\* The entry order of a call exists, or may still come to exist.
Exposed(t) ==
    \/ ex[t].wire = "sent"
    \/ ex[t].entry \in Working
    \/ ex[t].held

\* An execution makes a position unless the order only reduces one.
Opens(t) == ~ex[t].order.reduceOnly

\* A request that left arrives: whether its sender still waits or not.
Arrives(t) ==
    /\ ex[t].wire = "sent"
    /\ \/ ex' = [ex EXCEPT ![t].wire = "taken",
                            ![t].entry = IF IsStop(ex[t].order) THEN "pending" ELSE "open"]
       \/ ex' = [ex EXCEPT ![t].wire = "taken", ![t].entry = "filled",
                            ![t].held = Opens(t)]
       \/ ex' = [ex EXCEPT ![t].wire = "refused"]
    /\ UNCHANGED <<path, task, sessionVars, serviceVars, holes>>

\* It triggers, executes in part or whole, is cancelled before or after a part of it.
EntryMoves(t) ==
    /\ ex[t].entry \in Working
    /\ \/ ex' = [ex EXCEPT ![t].entry = "filled", ![t].held = Opens(t)]
       \/ /\ ex[t].entry = "pending"
          /\ ex' = [ex EXCEPT ![t].entry = "open"]
       \/ /\ ex[t].entry = "open"
          /\ ex' = [ex EXCEPT ![t].entry = "partial", ![t].held = Opens(t)]
       \/ /\ ex[t].entry # "partial"
          /\ ex' = [ex EXCEPT ![t].entry = "dead"]
       \/ /\ ex[t].entry = "partial"
          /\ ex' = [ex EXCEPT ![t].entry = "filled"]
    /\ UNCHANGED <<path, task, sessionVars, serviceVars, holes>>

\* A bracket, a liquidation or a hand closes the position.
PositionCloses(t) ==
    /\ ex[t].held
    /\ ex' = [ex EXCEPT ![t].held = FALSE]
    /\ UNCHANGED <<path, task, sessionVars, serviceVars, holes>>

\* OrderStatus.from_exchange of the state the exchange gives for an order: a part
\* executed of a resting order may be said, or only be read off its sizes.
Stated(t) ==
    CASE ex[t].entry = "pending" -> {"PENDING"}
      [] ex[t].entry = "open" -> {"OPEN"}
      [] ex[t].entry = "partial" -> {"OPEN", "PARTIALLY_FILLED"}
      [] ex[t].entry = "filled" -> {"FILLED"}
      [] OTHER -> {"CANCELLED"}

\* What DeltaIndiaClient.request and create_order make of the exchange's answer.
\* "unknown": timeout, connection failure, HTTP 5xx.
Answers(t) ==
    {"unknown"} \cup
    (IF ex[t].wire = "taken"
     THEN {IF ReadableOrder(row) THEN "accepted" ELSE "unreadable" : row \in Rows}
     ELSE {}) \cup
    (IF ex[t].wire = "refused"
     THEN {"rejected", "auth", "rateLimited", "unsuccessful"} ELSE {})

-----------------------------------------------------------------------------
(* LiveOrderExecutionService.execute_order *)

\* 1: in flight, or known by the persistent store.
Duplicate(t) ==
    \/ SetupOf(t) \in flying
    \/ IdOf(t) \in ids
    \/ store[IdOf(t)] # "none"

Refuse(t) ==
    /\ Return(t, "REJECTED")
    /\ UNCHANGED <<ex, ids, store, executed>>

\* 2-4: validate, persist, submit; the setup has been registered in flight.
SubmitOrRefuse(t, r, c) ==
    IF Valid(r, c)
    THEN /\ ex' = IF Submittable(WireOrder(r))
                  THEN [ex EXCEPT ![t].wire = "sent", ![t].order = r]
                  ELSE ex
         /\ store' = [store EXCEPT ![IdOf(t)] = "PENDING"]
         /\ ids' = ids \cup {IdOf(t)}
         /\ Goto(t, "post")
         /\ UNCHANGED executed
    ELSE Refuse(t)

ExecuteOrder(t, r, c) ==
    IF Duplicate(t)
    THEN Refuse(t) /\ UNCHANGED flying
    ELSE /\ flying' = flying \cup {SetupOf(t)}
         /\ SubmitOrRefuse(t, r, c)

\* Ownership, credentials and freshness are refused before anything is registered.
RefuseCaller(t) ==
    /\ path = "service" /\ At(t, "idle")
    /\ Refuse(t)
    /\ UNCHANGED <<path, flying, sessionVars, holes>>

CallService(t) ==
    /\ path = "service" /\ At(t, "idle")
    /\ \E r \in Requests, c \in Contexts : ExecuteOrder(t, r, c)
    /\ UNCHANGED <<path, sessionVars, holes>>

\* execute_from_strategy_decision
CallWithDecision(t) ==
    /\ path = "service" /\ At(t, "idle")
    /\ \E r \in Requests, c \in Contexts :
        IF SetupOf(t) \notin executed /\ GeometrySound(r) /\ RewardSuffices(r)
        THEN ExecuteOrder(t, Sized(r), c)
        ELSE Refuse(t) /\ UNCHANGED flying
    /\ UNCHANGED <<path, sessionVars, holes>>

\* MUTANT of Cleanup
ForgetsSetup(t) == ids' = ids \ {IdOf(t)} /\ flying' = flying \ {SetupOf(t)}

\* finally: "clean up in-flight locks" lets go of the client order id alone.
Cleanup(t) == ids' = ids \ {IdOf(t)} /\ UNCHANGED flying

\* MUTANT of Record
RecordVerdict(t, status) ==
    store' = [store EXCEPT ![IdOf(t)] = IF status = "OPEN" THEN "SUBMITTED" ELSE status]

Record(t, status) == store' = [store EXCEPT ![IdOf(t)] = status]
MarkExecuted(t) == executed' = executed \cup {SetupOf(t)}

\* 5A
PostAccepted(t) ==
    /\ "accepted" \in Answers(t)
    /\ \E status \in Stated(t) :
        /\ Record(t, status)
        /\ Return(t, IF status \in {"FILLED", "PARTIALLY_FILLED"} THEN status
                     ELSE "SUBMITTED")
    /\ MarkExecuted(t)

\* 5B, 5C, 5D
PostRefused(t) ==
    /\ \/ /\ "rejected" \in Answers(t)
          /\ Record(t, "REJECTED") /\ Return(t, "REJECTED")
       \/ /\ Answers(t) \cap {"auth", "rateLimited"} # {}
          /\ Record(t, "CANCELLED") /\ Return(t, "FAILED")
    /\ UNCHANGED executed

PostAnswered(t) ==
    /\ path = "service" /\ At(t, "post")
    /\ PostAccepted(t) \/ PostRefused(t)
    /\ Cleanup(t)
    /\ UNCHANGED <<path, ex, sessionVars, holes>>

\* 5E: everything else may have been placed.
UnknownOutcomes == {"unknown", "unreadable", "unsuccessful"}

PostUnknown(t) ==
    /\ path = "service" /\ At(t, "post")
    /\ Answers(t) \cap UnknownOutcomes # {}
    /\ Goto(t, "reconcile")
    /\ UNCHANGED <<path, ex, sessionVars, serviceVars, holes>>

\* MUTANT of OnTheBook
AssumesPlaced(t) == TRUE

\* _reconcile_order_with_exchange reads the orders that are open or pending.
OnTheBook(t) == ex[t].entry \in Working

\* Whatever is not said to be open is reported as filled.
FoundVerdict(status) == IF status = "OPEN" THEN "SUBMITTED" ELSE "FILLED"

QueryFound(t) ==
    /\ OnTheBook(t)
    /\ \E status \in Stated(t) :
        /\ Record(t, status)
        /\ Return(t, FoundVerdict(status))
        /\ holes' = IF status # "OPEN" THEN holes \cup {t} ELSE holes
    /\ MarkExecuted(t)

\* Not listed, or no answer at all: "verified order was NOT placed".  An order
\* that filled, was cancelled or is still on its way was not seen either.
QueryNotFound(t) ==
    /\ Record(t, "CANCELLED")
    /\ Return(t, "FAILED")
    /\ holes' = IF ex[t].wire \in {"sent", "taken"} THEN holes \cup {t} ELSE holes
    /\ UNCHANGED executed

ReconcileOrder(t) ==
    /\ path = "service" /\ At(t, "reconcile")
    /\ QueryFound(t) \/ QueryNotFound(t)
    /\ Cleanup(t)
    /\ UNCHANGED <<path, ex, sessionVars>>

-----------------------------------------------------------------------------
(* UserExecutionSession.execute_trade *)

\* acquire_lock(allow_replay=False): the lock is the duplicate-signal gate.
CanAcquire(s) == lock = Free

\* UserAccountConfig
Accounts == [active: BOOLEAN, algo: BOOLEAN, killSwitch: BOOLEAN, keys: BOOLEAN]

Skipped(account) == ~account.active \/ ~account.algo \/ account.killSwitch

\* _setup_geometry_error: a side that is one of the two, prices above zero, in order.
SetupGeometry(r) ==
    /\ r.side \in {"LONG", "SHORT"}
    /\ r.entry > 0 /\ r.stop > 0 /\ r.target > 0
    /\ IF r.side = "LONG" THEN r.stop < r.entry /\ r.entry < r.target
       ELSE r.target < r.entry /\ r.entry < r.stop

\* 1-2: eligibility, geometry, lock.
StartSession(t) ==
    /\ path = "session" /\ At(t, "idle")
    /\ \E account \in Accounts, sound \in {SetupGeometry(r) : r \in Requests} :
        IF Skipped(account) THEN Return(t, "SKIPPED") /\ UNCHANGED lock
        ELSE IF ~account.keys \/ ~sound THEN Return(t, "ERROR") /\ UNCHANGED lock
        ELSE IF ~CanAcquire(SetupOf(t)) THEN Return(t, "BLOCKED") /\ UNCHANGED lock
        ELSE lock' = SetupOf(t) /\ Goto(t, "balances")
    /\ UNCHANGED <<path, ex, audit, serviceVars, holes>>

EntrySubmitted(t) == ex[t].wire # "none"
EntryAccepted(t) == task[t].pc \in {"poll", "stop", "target"}

\* MUTANT of ReleaseLock
KeepLock(t) == UNCHANGED lock

\* release_lock is scoped to the setup.
ReleaseLock(t) == lock' = IF lock = SetupOf(t) THEN Free ELSE lock

ReleaseIfNothingCanExist(t) == IF EntryAccepted(t) THEN UNCHANGED lock ELSE ReleaseLock(t)

\* MUTANT of LosesConnection
LosesEntry(t) == Return(t, "ERROR") /\ ReleaseIfNothingCanExist(t)

\* DeltaConnectionError: of the entry it is an unknown outcome, the lock is retained.
LosesConnection(t) ==
    IF EntrySubmitted(t)
    THEN Return(t, "RECONCILIATION_REQUIRED") /\ UNCHANGED lock
    ELSE Return(t, "ERROR") /\ ReleaseIfNothingCanExist(t)

\* CapitalAllocationError
LacksMargin(t) == Return(t, "BLOCKED") /\ ReleaseIfNothingCanExist(t)

\* DeltaOrderRejectedError and every other exception.
Raises(t) == Return(t, "ERROR") /\ ReleaseIfNothingCanExist(t)

\* A read that is lost, refused, or answered with something unreadable.
ReadFails(t) ==
    /\ path = "session" /\ task[t].pc \in {"balances", "positions", "ticker"}
    /\ LosesConnection(t) \/ Raises(t)
    /\ UNCHANGED <<path, ex, audit, serviceVars, holes>>

\* 4: a single unreadable wallet fails the answer.
ReadBalances(t) ==
    /\ path = "session" /\ At(t, "balances")
    /\ \E w \in Wallets :
        IF ~ReadableWallet(w) THEN Raises(t)
        ELSE IF ~Collateral(w) THEN LacksMargin(t)
        ELSE Goto(t, "positions") /\ UNCHANGED lock
    /\ UNCHANGED <<path, ex, audit, serviceVars, holes>>

\* 5: a resting entry is no position.
ReadPositions(t) ==
    /\ path = "session" /\ At(t, "positions")
    /\ \E readable \in {ReadablePosition(row) : row \in Rows} :
        IF readable /\ \A u \in Tasks : ~ex[u].held
        THEN Goto(t, "ticker") /\ UNCHANGED lock
        ELSE Raises(t)
    /\ UNCHANGED <<path, ex, audit, serviceVars, holes>>

EntryRequest(size) ==
    [type |-> "LIMIT", size |-> size, stopType |-> FALSE, stopPrice |-> FALSE,
     trigger |-> FALSE]

\* 6-8: the mark, the size, the entry.
SizeAndSubmit(t) ==
    /\ path = "session" /\ At(t, "ticker")
    /\ \E usable \in {UsableTicker(q) : q \in Tickers},
          size \in {Allocation(Available, r.entry, leverage, 98, ContractValue) :
                      r \in Requests, leverage \in {1, MaxLeverage}} :
        IF ~usable THEN Raises(t) /\ UNCHANGED ex
        ELSE IF size < 1 THEN LacksMargin(t) /\ UNCHANGED ex
        ELSE IF ~Submittable(EntryRequest(size)) THEN Raises(t) /\ UNCHANGED ex
        ELSE Sent(t) /\ Goto(t, "post") /\ UNCHANGED lock
    /\ UNCHANGED <<path, audit, serviceVars, holes>>

EntryAnswered(t) ==
    /\ path = "session" /\ At(t, "post")
    /\ \/ "accepted" \in Answers(t) /\ Goto(t, "poll") /\ UNCHANGED <<lock, holes>>
       \/ "unknown" \in Answers(t) /\ LosesConnection(t) /\ UNCHANGED holes
       \/ \E a \in Answers(t) \ {"accepted", "unknown"} :
            /\ Raises(t)
            /\ holes' = IF a = "unreadable" THEN holes \cup {"unread"} ELSE holes
    /\ UNCHANGED <<path, ex, audit, serviceVars>>

\* 9: five looks for the fill, whose failures are swallowed; then on, filled or not.
PollingEnds(t) ==
    /\ path = "session" /\ At(t, "poll")
    /\ Goto(t, "stop")
    /\ UNCHANGED <<path, ex, sessionVars, serviceVars, holes>>

BracketRequest(leg) ==
    [type |-> IF leg = "stop" THEN "STOP_MARKET" ELSE "LIMIT", size |-> 1,
     stopType |-> leg = "stop", stopPrice |-> leg = "stop", trigger |-> leg = "stop"]

\* A reduce-only order is taken while a position is there to reduce.
Reducible(t) == ex[t].held

\* MUTANT of BracketPlaced
BracketAssumed(t, leg) ==
    IF leg = "stop" THEN Goto(t, "target") ELSE Return(t, "EXECUTED")

BracketPlaced(t, leg) ==
    /\ Reducible(t)
    /\ IF leg = "stop" THEN Goto(t, "target") ELSE Return(t, "EXECUTED")

\* 10: one leg after the other.
PlaceBracket(t, leg) ==
    /\ path = "session" /\ At(t, leg)
    /\ \/ /\ Submittable(BracketRequest(leg))
          /\ BracketPlaced(t, leg)
          /\ ex' = IF ex[t].held THEN [ex EXCEPT ![t][leg] = TRUE] ELSE ex
          /\ UNCHANGED lock
       \/ /\ LosesConnection(t) \/ Raises(t)
          /\ \E placed \in {FALSE, Reducible(t)} :
                ex' = IF placed THEN [ex EXCEPT ![t][leg] = TRUE] ELSE ex
    /\ UNCHANGED <<path, audit, serviceVars, holes>>

-----------------------------------------------------------------------------
(* DeltaReconciliationService.reconcile_account(auto_resolve=True) *)

NoPositions == \A t \in Tasks : ~ex[t].held
NoOrders == \A t \in Tasks : ex[t].entry \notin Working

AuditStarts ==
    /\ path = "session" /\ audit.pc = "idle"
    /\ audit' = [pc |-> "positions", flat |-> FALSE]
    /\ UNCHANGED <<path, ex, task, lock, serviceVars, holes>>

\* Legs of an open position are orders too, but then the position is there.
AuditReads ==
    /\ \/ /\ audit.pc = "positions"
          /\ audit' = [pc |-> "orders", flat |-> NoPositions]
       \/ /\ audit.pc = "orders"
          /\ audit' = [pc |-> "release", flat |-> audit.flat /\ NoOrders]
    /\ UNCHANGED <<path, ex, task, lock, serviceVars, holes>>

\* The exchange cannot be queried: fail closed.
AuditUnreachable ==
    /\ audit.pc \in {"positions", "orders"}
    /\ audit' = [pc |-> "idle", flat |-> FALSE]
    /\ UNCHANGED <<path, ex, task, lock, serviceVars, holes>>

Orphaned == audit.flat

\* After the awaited sync(): whoever holds the lock now loses it.
AuditReleases ==
    /\ audit.pc = "release"
    /\ audit' = [pc |-> "idle", flat |-> FALSE]
    /\ lock' = IF Orphaned THEN Free ELSE lock
    /\ holes' = IF audit.flat /\ lock # Free
                   /\ \E t \in Tasks : SetupOf(t) = lock
                        /\ (Exposed(t) \/ task[t].pc \notin {"idle", "done"})
                THEN holes \cup {"early"} ELSE holes
    /\ UNCHANGED <<path, ex, task, serviceVars>>

-----------------------------------------------------------------------------

Next ==
    \/ \E t \in Tasks :
        \/ Arrives(t)
        \/ EntryMoves(t)
        \/ PositionCloses(t)
        \/ RefuseCaller(t)
        \/ CallService(t)
        \/ CallWithDecision(t)
        \/ PostAnswered(t)
        \/ PostUnknown(t)
        \/ ReconcileOrder(t)
        \/ StartSession(t)
        \/ ReadFails(t)
        \/ ReadBalances(t)
        \/ ReadPositions(t)
        \/ SizeAndSubmit(t)
        \/ EntryAnswered(t)
        \/ PollingEnds(t)
        \/ \E leg \in {"stop", "target"} : PlaceBracket(t, leg)
    \/ AuditStarts
    \/ AuditReads
    \/ AuditUnreachable
    \/ AuditReleases

Spec == Init /\ [][Next]_vars

-----------------------------------------------------------------------------
(* Properties *)

Exposures == {t \in Tasks : Exposed(t)}

\* multi_user_orchestrator.py: "the lock is released on failure only while nothing
\* can exist on the exchange yet".  Whatever answers are lost or late and however
\* dispatches, replays and reconciliations overlap, an account has one trade at a
\* time and the lock names it.  The two holes are excluded by name: an answer that
\* could not be read, and an audit that released by a judgement gone stale.
ExposureNamesHolder ==
    path = "session" /\ holes = {} =>
        /\ \A t \in Exposures : lock = SetupOf(t)
        /\ Cardinality(Exposures) <= 1

\* A session that sent nothing hands the account back: the lock names a setup of
\* which a session still runs or whose entry left.
NoStrandedLock ==
    lock # Free =>
        \E t \in Tasks : SetupOf(t) = lock
            /\ (EntrySubmitted(t) \/ task[t].pc \notin {"idle", "done"})

\* EXECUTED is reported of an entry that executed, in part at least, and whose stop
\* and target were both taken, although the wait for the fill may end without one.
ExecutedIsProtected ==
    \A t \in Tasks : task[t].result = "EXECUTED" =>
        ex[t].entry \in {"partial", "filled"} /\ ex[t].stop /\ ex[t].target

\* Of all overlapping, repeated and failed calls of the service that execute one
\* setup, at most one ever has an order on the exchange or on its way there.
OneOrderPerSetup ==
    \A t, u \in Tasks :
        path = "service" /\ SetupOf(t) = SetupOf(u)
        /\ {ex[t].wire, ex[u].wire} \subseteq {"sent", "taken"} => t = u

\* What execute_order reports is so: success means an order and an executed mark,
\* FILLED and PARTIALLY_FILLED an execution, a refusal that there is no order.  Two
\* verdicts of the one query after an unknown outcome are excluded by name (holes):
\* of an order it could not see, and of one it found pending or partially filled,
\* which is reported as filled.
VerdictIsTrue ==
    path = "service" =>
        /\ \A t \in Tasks :
            /\ task[t].result \in {"SUBMITTED", "PARTIALLY_FILLED", "FILLED"} =>
                 ex[t].wire = "taken" /\ SetupOf(t) \in executed
            /\ task[t].result = "FILLED" /\ t \notin holes => ex[t].entry = "filled"
            /\ task[t].result = "PARTIALLY_FILLED" => ex[t].entry \in {"partial", "filled"}
            /\ task[t].result \in {"REJECTED", "FAILED"} /\ t \notin holes =>
                 ex[t].wire \notin {"sent", "taken"}
        /\ \A s \in executed : \E t \in Tasks : SetupOf(t) = s /\ ex[t].wire = "taken"

\* Requests and decisions, sized by one formula and judged by another: what leaves
\* and may open a position pays 1.5 for 1 or better, can be margined and risks at
\* most 35.35 per cent of the equity (an equity of zero sets no limit:
\* "max_risk_allowed > 0" is asked).  Nothing is said of a reduce-only order, which
\* passes without these checks; a decision never becomes one.
PostedOrdersAreSound ==
    \A t \in Tasks : LET r == ex[t].order IN
        r.type # "none" /\ ~r.reduceOnly =>
            /\ 2 * RewardDistance(r) >= 3 * RiskDistance(r) /\ RiskDistance(r) > 0
            /\ Equity > 0 =>
                 10000 * r.size * ContractValue * RiskDistance(r) <= 3535 * Equity
            /\ r.size * ContractValue * r.entry <= Available * r.leverage

=============================================================================
