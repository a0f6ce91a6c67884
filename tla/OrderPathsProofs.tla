-------------------------- MODULE OrderPathsProofs --------------------------
(***************************************************************************)
(* Theorems about OrderPaths, for every set of calls, setups and client    *)
(* order ids, every request and every account: type correctness and the    *)
(* six safety invariants, and what the two sizing formulas return.         *)
(*                                                                         *)
(* Each action is translated once into what it does to the call that takes *)
(* it (ExchangeStep, ServiceStep, SessionStep, AuditStep); every invariant *)
(* is then shown against these four kinds of step.  What each strengthens: *)
(* StageInv ties the place of a call to its exposure, ServiceInv keeps     *)
(* every posted setup in flight, HolderInv gives the lock to running       *)
(* sessions too, OwnerInv keeps it free while the service trades.          *)
(***************************************************************************)
EXTENDS OrderPaths, TLAPS, FiniteSetTheorems

-----------------------------------------------------------------------------
\* The order a decision is sized into is an order.
LEMMA SizedTyped ==
    ASSUME NEW r \in Orders
    PROVE  Sized(r) \in Orders
<1>1. RiskDistance(r) \in Int
  BY DEF RiskDistance, Orders
<1>2. DecisionQuantity(r) \in Int
  <2>1. CASE RiskDistance(r) <= 0
    BY <2>1 DEF DecisionQuantity
  <2>2. CASE ~(RiskDistance(r) <= 0)
    <3>1. 100 * RiskDistance(r) \in Nat \ {0} /\ Equity * 35 \in Nat
      BY <1>1, <2>2, OrderAssumption
    <3>2. Nearest(Equity * 35, 100 * RiskDistance(r)) \in Int
      BY <3>1 DEF Nearest
    <3> QED
      BY <2>2, <3>2 DEF DecisionQuantity
  <2> QED
    BY <2>1, <2>2
<1>3. \A q, l \in Int :
        [r EXCEPT !.type = "LIMIT", !.size = q, !.leverage = l, !.reduceOnly = FALSE]
          \in Orders
  BY DEF Orders
<1>4. MaxLeverage \in Int
  BY OrderAssumption
<1> QED
  BY <1>2, <1>3, <1>4 DEF Sized

-----------------------------------------------------------------------------
(* What the exchange and the calls do to an exposure *)

\* A request arrives, an entry moves, a position closes.
ExchangeStep(e, f) ==
    /\ f \in Exposure
    /\ f.stop = e.stop /\ f.target = e.target /\ f.order = e.order
    /\ \/ e.wire = "sent" /\ f.wire = "refused" /\ f.entry = e.entry /\ f.held = e.held
       \/ /\ e.wire = "sent" /\ f.wire = "taken"
          /\ f.entry \in {"pending", "open"} /\ f.held = e.held
       \/ e.wire = "sent" /\ f.wire = "taken" /\ f.entry = "filled"
       \/ e.entry \in Working /\ f.wire = e.wire /\ f.entry = "filled"
       \/ e.entry = "pending" /\ f.wire = e.wire /\ f.entry = "open" /\ f.held = e.held
       \/ e.entry = "open" /\ f.wire = e.wire /\ f.entry = "partial"
       \/ /\ e.entry \in {"pending", "open"} /\ f.wire = e.wire
          /\ f.entry = "dead" /\ f.held = e.held
       \/ e.held /\ f.wire = e.wire /\ f.entry = e.entry /\ f.held = FALSE

\* The exposure of one call moves,
ExchangeMoves(t) == \E f : ExchangeStep(ex[t], f) /\ ex' = [ex EXCEPT ![t] = f]

\* and nothing else does.
ExchangeStepOf(t) ==
    /\ ExchangeMoves(t)
    /\ UNCHANGED <<path, task, lock, audit, flying, ids, store, executed, holes>>

\* Arrives, EntryMoves and PositionCloses move one exposure by an ExchangeStep.
LEMMA ExchangeEffect ==
    ASSUME TypeOK, NEW t \in Tasks, Arrives(t) \/ EntryMoves(t) \/ PositionCloses(t)
    PROVE  ExchangeStepOf(t)
<1> DEFINE e == ex[t]
           opens == Opens(t)
           resting == IF IsStop(e.order) THEN "pending" ELSE "open"
           refused == [e EXCEPT !.wire = "refused"]
           open == [e EXCEPT !.wire = "taken", !.entry = resting]
           filled == [e EXCEPT !.wire = "taken", !.entry = "filled", !.held = opens]
           fills == [e EXCEPT !.entry = "filled", !.held = opens]
           triggers == [e EXCEPT !.entry = "open"]
           partly == [e EXCEPT !.entry = "partial", !.held = opens]
           dies == [e EXCEPT !.entry = "dead"]
           ends == [e EXCEPT !.entry = "filled"]
           closed == [e EXCEPT !.held = FALSE]
<1>0. e \in Exposure
  BY DEF TypeOK
<1>a. resting \in {"pending", "open"}
  OBVIOUS
<1>b. opens \in BOOLEAN
  BY DEF Opens
<1> HIDE DEF opens, resting
<1>1. e.wire = "sent" =>
        ExchangeStep(e, refused) /\ ExchangeStep(e, open) /\ ExchangeStep(e, filled)
  BY <1>0, <1>a, <1>b DEF ExchangeStep, Exposure, Working
<1>2. /\ e.entry \in Working => ExchangeStep(e, fills)
      /\ e.entry = "pending" => ExchangeStep(e, triggers)
      /\ e.entry = "open" => ExchangeStep(e, partly)
      /\ e.entry \in Working /\ e.entry # "partial" => ExchangeStep(e, dies)
      /\ e.entry = "partial" => ExchangeStep(e, ends)
  BY <1>0, <1>b DEF ExchangeStep, Exposure, Working
<1>3. e.held => ExchangeStep(e, closed)
  BY <1>0 DEF ExchangeStep, Exposure, Working
<1>4. /\ [ex EXCEPT ![t].wire = "refused"] = [ex EXCEPT ![t] = refused]
      /\ [ex EXCEPT ![t].wire = "taken", ![t].entry = resting] = [ex EXCEPT ![t] = open]
      /\ [ex EXCEPT ![t].wire = "taken", ![t].entry = "filled", ![t].held = opens]
           = [ex EXCEPT ![t] = filled]
      /\ [ex EXCEPT ![t].entry = "filled", ![t].held = opens] = [ex EXCEPT ![t] = fills]
      /\ [ex EXCEPT ![t].entry = "open"] = [ex EXCEPT ![t] = triggers]
      /\ [ex EXCEPT ![t].entry = "partial", ![t].held = opens] = [ex EXCEPT ![t] = partly]
      /\ [ex EXCEPT ![t].entry = "dead"] = [ex EXCEPT ![t] = dies]
      /\ [ex EXCEPT ![t].entry = "filled"] = [ex EXCEPT ![t] = ends]
      /\ [ex EXCEPT ![t].held = FALSE] = [ex EXCEPT ![t] = closed]
  BY Zenon DEF TypeOK
<1>5. CASE Arrives(t)
  <2>1. \/ ex' = [ex EXCEPT ![t] = refused]
        \/ ex' = [ex EXCEPT ![t] = open]
        \/ ex' = [ex EXCEPT ![t] = filled]
    BY <1>4, <1>5, Zenon DEF Arrives, opens, resting
  <2>2. e.wire = "sent"
    BY <1>5 DEF Arrives
  <2> HIDE DEF refused, open, filled, e
  <2> QED
    BY <1>1, <1>5, <2>1, <2>2 DEF Arrives, ExchangeMoves, ExchangeStepOf, sessionVars, serviceVars, e
<1>6. CASE EntryMoves(t)
  <2>1. \/ ex' = [ex EXCEPT ![t] = fills]
        \/ e.entry = "pending" /\ ex' = [ex EXCEPT ![t] = triggers]
        \/ e.entry = "open" /\ ex' = [ex EXCEPT ![t] = partly]
        \/ e.entry # "partial" /\ ex' = [ex EXCEPT ![t] = dies]
        \/ e.entry = "partial" /\ ex' = [ex EXCEPT ![t] = ends]
    BY <1>4, <1>6, Zenon DEF EntryMoves, opens
  <2>2. e.entry \in Working
    BY <1>6 DEF EntryMoves
  <2> HIDE DEF fills, triggers, partly, dies, ends, e
  <2> QED
    BY <1>2, <1>6, <2>1, <2>2 DEF EntryMoves, ExchangeMoves, ExchangeStepOf, sessionVars, serviceVars, e
<1>7. CASE PositionCloses(t)
  <2>1. ex' = [ex EXCEPT ![t] = closed]
    BY <1>4, <1>7, Zenon DEF PositionCloses
  <2>2. e.held
    BY <1>7 DEF PositionCloses
  <2> HIDE DEF closed, e
  <2> QED
    BY <1>3, <1>7, <2>1, <2>2 DEF PositionCloses, ExchangeMoves, ExchangeStepOf, sessionVars, serviceVars, e
<1> QED
  BY <1>5, <1>6, <1>7

\* The request of a call leaves.
Leaves(t) ==
    /\ ex' \in [Tasks -> Exposure]
    /\ ex'[t].wire = "sent" /\ ex'[t].entry = ex[t].entry /\ ex'[t].held = ex[t].held
    /\ ex'[t].stop = ex[t].stop /\ ex'[t].target = ex[t].target
    /\ \A u \in Tasks \ {t} : ex'[u] = ex[u]

\* A session's request leaves and no order is recorded for it.
LEMMA SentEffect ==
    ASSUME TypeOK, NEW t \in Tasks, Sent(t)
    PROVE  Leaves(t) /\ ex'[t].order = ex[t].order
<1>0. ex \in [Tasks -> Exposure] /\ ex' = [ex EXCEPT ![t].wire = "sent"]
  BY DEF TypeOK, Sent
<1>1. ex' \in [Tasks -> Exposure]
  BY <1>0 DEF Exposure
<1> QED
  BY <1>0, <1>1 DEF Leaves, Exposure

\* The service's request leaves with its order recorded.
LEMMA PostedEffect ==
    ASSUME TypeOK, NEW t \in Tasks, NEW r \in Orders,
           ex' = [ex EXCEPT ![t].wire = "sent", ![t].order = r]
    PROVE  Leaves(t) /\ ex'[t].order = r
<1>0. ex \in [Tasks -> Exposure]
  BY DEF TypeOK
<1>1. ex' \in [Tasks -> Exposure]
  BY <1>0 DEF Exposure
<1> QED
  BY <1>0, <1>1 DEF Leaves, Exposure

\* A bracket leg comes to rest.
Rests(t, leg) ==
    /\ ex' \in [Tasks -> Exposure]
    /\ ex'[t].wire = ex[t].wire /\ ex'[t].entry = ex[t].entry /\ ex'[t].held = ex[t].held
    /\ leg = "stop" => ex'[t].stop = TRUE /\ ex'[t].target = ex[t].target
    /\ leg = "target" => ex'[t].target = TRUE /\ ex'[t].stop = ex[t].stop
    /\ ex'[t].order = ex[t].order
    /\ \A u \in Tasks \ {t} : ex'[u] = ex[u]

\* A bracket leg that is taken changes nothing else of the call's exposure.
LEMMA RestsEffect ==
    ASSUME TypeOK, NEW t \in Tasks, NEW leg \in {"stop", "target"},
           ex' = [ex EXCEPT ![t][leg] = TRUE]
    PROVE  Rests(t, leg)
<1>0. ex \in [Tasks -> Exposure]
  BY DEF TypeOK
<1>1. CASE leg = "stop"
  <2>1. ex' = [ex EXCEPT ![t].stop = TRUE]
    BY <1>1
  <2>2. ex' \in [Tasks -> Exposure]
    BY <1>0, <2>1 DEF Exposure
  <2> QED
    BY <1>0, <1>1, <2>1, <2>2 DEF Rests, Exposure
<1>2. CASE leg = "target"
  <2>1. ex' = [ex EXCEPT ![t].target = TRUE]
    BY <1>2
  <2>2. ex' \in [Tasks -> Exposure]
    BY <1>0, <2>1 DEF Exposure
  <2> QED
    BY <1>0, <1>2, <2>1, <2>2 DEF Rests, Exposure
<1> QED
  BY <1>1, <1>2

-----------------------------------------------------------------------------
(* What a call does to its own place *)

\* One call comes to stand somewhere, with a result.
Stands(t, pc, result) ==
    /\ task' \in [Tasks -> [pc: Steps, result: Results]]
    /\ task'[t].pc = pc /\ task'[t].result = result
    /\ \A u \in Tasks \ {t} : task'[u] = task[u]

\* Goto moves one call and keeps its result.
LEMMA GotoEffect ==
    ASSUME TypeOK, NEW t \in Tasks, NEW pc \in Steps, Goto(t, pc)
    PROVE  Stands(t, pc, task[t].result)
  BY DEF TypeOK, Goto, Stands

\* Return ends one call with a result.
LEMMA ReturnEffect ==
    ASSUME TypeOK, NEW t \in Tasks, NEW result \in Results, Return(t, result)
    PROVE  Stands(t, "done", result)
  BY DEF TypeOK, Return, Stands, Steps

\* A call's ids are ids, and its setup is not the free lock.
LEMMA Names ==
    ASSUME NEW t \in Tasks
    PROVE  SetupOf(t) \in Setups /\ IdOf(t) \in ClientIds /\ SetupOf(t) # Free
  BY OrderAssumption

\* A definite answer tells what became of the request.
LEMMA AnswersMean ==
    ASSUME NEW t \in Tasks
    PROVE  /\ "accepted" \in Answers(t) => ex[t].wire = "taken"
           /\ "rejected" \in Answers(t) => ex[t].wire = "refused"
           /\ Answers(t) \cap {"auth", "rateLimited"} # {} => ex[t].wire = "refused"
           /\ \A a \in Answers(t) \ {"accepted", "unknown", "unreadable"} : ex[t].wire = "refused"
  BY DEF Answers

\* What the exchange states of an order is a status, and an execution is a true one.
LEMMA StatedMeans ==
    ASSUME NEW t \in Tasks, NEW status \in Stated(t)
    PROVE  /\ status \in Statuses
           /\ status = "FILLED" => ex[t].entry = "filled"
           /\ status = "PARTIALLY_FILLED" => ex[t].entry = "partial"
<1>1. CASE ex[t].entry \in {"pending", "open", "partial", "filled"}
  BY <1>1 DEF Stated, Statuses
<1>2. CASE ex[t].entry \notin {"pending", "open", "partial", "filled"}
  <2>1. Stated(t) = {"CANCELLED"}
    BY <1>2 DEF Stated
  <2> QED
    BY <2>1 DEF Statuses
<1> QED
  BY <1>1, <1>2

-----------------------------------------------------------------------------
(* The outcomes of a step of the service *)

\* Refused before anything was sent.
Turned(t) ==
    /\ task[t].pc = "idle"
    /\ Stands(t, "done", "REJECTED")
    /\ flying \subseteq flying' /\ flying' \in SUBSET Setups
    /\ UNCHANGED <<ex, ids, store, executed, holes>>

\* A validated order of a setup that was not in flight leaves, or fails to.
Posts(t) ==
    /\ task[t].pc = "idle" /\ SetupOf(t) \notin flying
    /\ flying' = flying \cup {SetupOf(t)}
    /\ \/ ex' = ex
       \/ Leaves(t) /\ \E c : \E r \in Orders : Valid(r, c) /\ ex'[t].order = r
    /\ store' = [store EXCEPT ![IdOf(t)] = "PENDING"]
    /\ ids' = ids \cup {IdOf(t)}
    /\ Stands(t, "post", task[t].result)
    /\ UNCHANGED <<executed, holes>>

\* The order is reported placed.
Succeeds(t) ==
    /\ task[t].pc \in {"post", "reconcile"}
    /\ task[t].pc = "post" => ex[t].wire = "taken"
    /\ task[t].pc = "reconcile" => ex[t].entry \in Working
    /\ \E r \in {"SUBMITTED", "PARTIALLY_FILLED", "FILLED"} :
         /\ Stands(t, "done", r)
         /\ r = "FILLED" => ex[t].entry = "filled" \/ t \in holes'
         /\ r = "PARTIALLY_FILLED" => ex[t].entry = "partial"
    /\ holes' \in {holes, holes \cup {t}}
    /\ executed' = executed \cup {SetupOf(t)}
    /\ \E s \in Statuses : store' = [store EXCEPT ![IdOf(t)] = s]
    /\ ids' = ids \ {IdOf(t)}
    /\ UNCHANGED <<ex, flying>>

\* The order is reported not placed: it is not, or it was not seen.
Fails(t) ==
    /\ task[t].pc \in {"post", "reconcile"}
    /\ task[t].pc = "post" => ex[t].wire = "refused"
    /\ \E r \in {"REJECTED", "FAILED"} : Stands(t, "done", r)
    /\ \/ holes' = holes /\ ex[t].wire \notin {"sent", "taken"}
       \/ holes' = holes \cup {t}
    /\ \E s \in {"REJECTED", "CANCELLED"} : store' = [store EXCEPT ![IdOf(t)] = s]
    /\ ids' = ids \ {IdOf(t)}
    /\ UNCHANGED <<ex, flying, executed>>

\* The outcome is unknown.
Asks(t) ==
    /\ task[t].pc = "post"
    /\ Stands(t, "reconcile", task[t].result)
    /\ UNCHANGED <<ex, flying, ids, store, executed, holes>>

\* A step of the service.
ServiceStep(t) ==
    /\ path = "service" /\ UNCHANGED <<path, lock, audit>>
    /\ Turned(t) \/ Posts(t) \/ Succeeds(t) \/ Fails(t) \/ Asks(t)

\* A call that is refused before anything was sent is Turned away.
LEMMA RefuseEffect ==
    ASSUME TypeOK, NEW t \in Tasks, task[t].pc = "idle", Refuse(t),
           UNCHANGED <<path, lock, audit, holes>>,
           path = "service", flying \subseteq flying', flying' \in SUBSET Setups
    PROVE  ServiceStep(t)
<1>1. Stands(t, "done", "REJECTED")
  BY ReturnEffect DEF Refuse, Results
<1> QED
  BY <1>1 DEF Refuse, Turned, ServiceStep

\* execute_order is refused or posts a validated order of an unregistered setup.
LEMMA ExecuteOrderEffect ==
    ASSUME TypeOK, NEW t \in Tasks, NEW r \in Orders, NEW c, path = "service",
           task[t].pc = "idle", ExecuteOrder(t, r, c), UNCHANGED <<path, lock, audit, holes>>
    PROVE  ServiceStep(t)
<1>1. CASE Duplicate(t)
  <2>1. Refuse(t) /\ flying' = flying /\ flying \in SUBSET Setups
    BY <1>1 DEF ExecuteOrder, TypeOK
  <2> QED
    BY <2>1, RefuseEffect
<1>2. CASE ~Duplicate(t) /\ ~Valid(r, c)
  <2>1. Refuse(t) /\ flying' = flying \cup {SetupOf(t)}
    BY <1>2 DEF ExecuteOrder, SubmitOrRefuse
  <2>2. flying' \in SUBSET Setups
    BY <2>1, Names DEF TypeOK
  <2> QED
    BY <2>1, <2>2, RefuseEffect
<1>3. CASE ~Duplicate(t) /\ Valid(r, c)
  <2>1. /\ SetupOf(t) \notin flying /\ flying' = flying \cup {SetupOf(t)}
        /\ ids' = ids \cup {IdOf(t)} /\ store' = [store EXCEPT ![IdOf(t)] = "PENDING"]
        /\ executed' = executed
        /\ Goto(t, "post")
        /\ ex' = ex \/ ex' = [ex EXCEPT ![t].wire = "sent", ![t].order = r]
    BY <1>3 DEF ExecuteOrder, SubmitOrRefuse, Duplicate
  <2>2. Stands(t, "post", task[t].result)
    BY <2>1, GotoEffect DEF Steps
  <2>3. ex' = ex \/ (Leaves(t) /\ ex'[t].order = r)
    BY <2>1, PostedEffect
  <2> QED
    BY <1>3, <2>1, <2>2, <2>3 DEF Posts, ServiceStep
<1> QED
  BY <1>1, <1>2, <1>3

\* Every action of the service is a ServiceStep.
LEMMA ServiceEffect ==
    ASSUME TypeOK, NEW t \in Tasks,
           RefuseCaller(t) \/ CallService(t) \/ CallWithDecision(t) \/ PostAnswered(t)
           \/ PostUnknown(t) \/ ReconcileOrder(t)
    PROVE  ServiceStep(t)
<1>0. flying \in SUBSET Setups /\ flying \subseteq flying
  BY DEF TypeOK
<1>1. CASE RefuseCaller(t)
  BY <1>0, <1>1, RefuseEffect DEF RefuseCaller, At, sessionVars
<1>2. CASE CallService(t)
  <2>1. PICK r \in Requests, c \in Contexts : ExecuteOrder(t, r, c)
    BY <1>2 DEF CallService
  <2>2. r \in Orders
    BY OrderAssumption
  <2> QED
    BY <1>2, <2>1, <2>2, ExecuteOrderEffect DEF CallService, At, sessionVars
<1>3. CASE CallWithDecision(t)
  <2>1. PICK r \in Requests, c \in Contexts :
        IF SetupOf(t) \notin executed /\ GeometrySound(r) /\ RewardSuffices(r)
        THEN ExecuteOrder(t, Sized(r), c)
        ELSE Refuse(t) /\ UNCHANGED flying
    BY <1>3 DEF CallWithDecision
  <2>2. Sized(r) \in Orders
    BY SizedTyped, OrderAssumption
  <2>3. UNCHANGED <<path, lock, audit, holes>> /\ path = "service" /\ task[t].pc = "idle"
    BY <1>3 DEF CallWithDecision, At, sessionVars
  <2>4. CASE ExecuteOrder(t, Sized(r), c)
    BY <2>2, <2>3, <2>4, ExecuteOrderEffect
  <2>5. CASE Refuse(t) /\ UNCHANGED flying
    BY <1>0, <2>3, <2>5, RefuseEffect
  <2> QED
    BY <2>1, <2>4, <2>5
<1>4. CASE PostAnswered(t)
  <2>0. /\ path = "service" /\ task[t].pc = "post"
        /\ UNCHANGED <<path, lock, audit, ex, holes, flying>>
        /\ ids' = ids \ {IdOf(t)}
    BY <1>4 DEF PostAnswered, At, sessionVars, Cleanup
  <2>1. CASE PostAccepted(t)
    <3>1. PICK status \in Stated(t) :
            /\ Record(t, status)
            /\ Return(t, IF status \in {"FILLED", "PARTIALLY_FILLED"} THEN status
                         ELSE "SUBMITTED")
      BY <2>1 DEF PostAccepted
    <3> DEFINE r == IF status \in {"FILLED", "PARTIALLY_FILLED"} THEN status
                    ELSE "SUBMITTED"
    <3>2. /\ r \in {"SUBMITTED", "PARTIALLY_FILLED", "FILLED"}
          /\ r = "FILLED" => ex[t].entry = "filled"
          /\ r = "PARTIALLY_FILLED" => ex[t].entry = "partial"
          /\ status \in Statuses
      BY <1>4, StatedMeans
    <3> HIDE DEF r
    <3>a. Stands(t, "done", r)
      BY <3>1, <3>2, ReturnEffect DEF Results, r
    <3>3. \E s \in Statuses : store' = [store EXCEPT ![IdOf(t)] = s]
      BY <3>1, <3>2 DEF Record
    <3>4. ex[t].wire = "taken" /\ executed' = executed \cup {SetupOf(t)}
      BY <2>1, AnswersMean DEF PostAccepted, MarkExecuted
    <3>5. Succeeds(t)
      BY <2>0, <3>2, <3>a, <3>3, <3>4 DEF Succeeds
    <3> QED
      BY <2>0, <3>5 DEF ServiceStep
  <2>2. CASE PostRefused(t)
    <3>1. PICK r \in {"REJECTED", "FAILED"} : Return(t, r)
      BY <2>2 DEF PostRefused
    <3>2. Stands(t, "done", r)
      BY <3>1, ReturnEffect DEF Results
    <3>3. \E s \in {"REJECTED", "CANCELLED"} : store' = [store EXCEPT ![IdOf(t)] = s]
      BY <2>2 DEF PostRefused, Record
    <3>4. ex[t].wire = "refused" /\ executed' = executed
      BY <2>2, AnswersMean DEF PostRefused
    <3>5. Fails(t)
      BY <2>0, <3>2, <3>3, <3>4 DEF Fails
    <3> QED
      BY <2>0, <3>5 DEF ServiceStep
  <2> QED
    BY <1>4, <2>1, <2>2 DEF PostAnswered
<1>5. CASE PostUnknown(t)
  <2>1. Stands(t, "reconcile", task[t].result)
    BY <1>5, GotoEffect DEF PostUnknown, Steps
  <2> QED
    BY <1>5, <2>1 DEF PostUnknown, At, sessionVars, serviceVars, Asks, ServiceStep
<1>6. CASE ReconcileOrder(t)
  <2>0. /\ path = "service" /\ task[t].pc = "reconcile"
        /\ UNCHANGED <<path, lock, audit, ex, flying>>
        /\ ids' = ids \ {IdOf(t)}
    BY <1>6 DEF ReconcileOrder, At, sessionVars, Cleanup
  <2>1. CASE QueryFound(t)
    <3>1. PICK status \in Stated(t) :
            /\ Record(t, status) /\ Return(t, FoundVerdict(status))
            /\ holes' = IF status # "OPEN" THEN holes \cup {t} ELSE holes
      BY <2>1 DEF QueryFound
    <3>a. status \in Statuses
      BY StatedMeans
    <3>b. /\ FoundVerdict(status) \in {"SUBMITTED", "FILLED"}
          /\ FoundVerdict(status) = "FILLED" => t \in holes'
          /\ Stands(t, "done", FoundVerdict(status))
      BY <3>1, ReturnEffect DEF FoundVerdict, Results
    <3>2. Succeeds(t)
      BY <2>0, <2>1, <3>1, <3>a, <3>b DEF QueryFound, Succeeds, OnTheBook, Record, MarkExecuted
    <3> QED
      BY <2>0, <3>2 DEF ServiceStep
  <2>2. CASE QueryNotFound(t)
    <3>1. Stands(t, "done", "FAILED")
      BY <2>2, ReturnEffect DEF QueryNotFound, Results
    <3>2. Fails(t)
      BY <2>0, <2>2, <3>1 DEF QueryNotFound, Fails, Record
    <3> QED
      BY <2>0, <3>2 DEF ServiceStep
  <2> QED
    BY <1>6, <2>1, <2>2 DEF ReconcileOrder
<1> QED
  BY <1>1, <1>2, <1>3, <1>4, <1>5, <1>6

-----------------------------------------------------------------------------
(* The outcomes of a step of a session *)

\* The session ends before it took the lock.
Declines(t) ==
    /\ task[t].pc = "idle"
    /\ \E r \in {"SKIPPED", "ERROR", "BLOCKED"} : Stands(t, "done", r)
    /\ UNCHANGED <<ex, lock, holes>>

\* The session takes the free lock.
Acquires(t) ==
    /\ task[t].pc = "idle"
    /\ lock = Free /\ lock' = SetupOf(t)
    /\ Stands(t, "balances", task[t].result)
    /\ UNCHANGED <<ex, holes>>

\* A read succeeds, the entry is accepted, or the wait for its fill ends.
Advances(t) ==
    /\ \/ task[t].pc \in {"balances", "positions"}
          /\ \E pc \in {"positions", "ticker"} : Stands(t, pc, task[t].result)
       \/ task[t].pc = "post" /\ ex[t].wire = "taken" /\ Stands(t, "poll", task[t].result)
       \/ task[t].pc = "poll" /\ Stands(t, "stop", task[t].result)
    /\ UNCHANGED <<ex, lock, holes>>

\* The entry leaves.
Submits(t) ==
    /\ task[t].pc = "ticker"
    /\ Leaves(t) /\ ex'[t].order = ex[t].order
    /\ Stands(t, "post", task[t].result)
    /\ UNCHANGED <<lock, holes>>

\* Nothing was sent, or it was refused, or the answer could not be read.
GivesUp(t) ==
    /\ task[t].pc \in {"balances", "positions", "ticker", "post"}
    /\ \E r \in {"ERROR", "BLOCKED"} : Stands(t, "done", r)
    /\ lock' = IF lock = SetupOf(t) THEN Free ELSE lock
    /\ ex' = ex
    /\ \/ ex[t].wire \in {"none", "refused"} /\ holes' = holes
       \/ task[t].pc # "post" /\ holes' = holes
       \/ holes' = holes \cup {"unread"}

\* The entry's outcome is unknown: the lock is retained.
Retains(t) ==
    /\ task[t].pc \in {"balances", "positions", "ticker", "post"}
    /\ ex[t].wire # "none"
    /\ Stands(t, "done", "RECONCILIATION_REQUIRED")
    /\ UNCHANGED <<ex, lock, holes>>

\* A bracket leg is taken.
Places(t) ==
    /\ ex[t].held
    /\ \/ task[t].pc = "stop" /\ Rests(t, "stop") /\ Stands(t, "target", task[t].result)
       \/ task[t].pc = "target" /\ Rests(t, "target") /\ Stands(t, "done", "EXECUTED")
    /\ UNCHANGED <<lock, holes>>

\* A bracket leg is refused, or taken without an answer.
Unplaced(t) ==
    /\ \E leg \in {"stop", "target"} : task[t].pc = leg /\ (ex' = ex \/ Rests(t, leg))
    /\ \E r \in {"ERROR", "RECONCILIATION_REQUIRED"} : Stands(t, "done", r)
    /\ UNCHANGED <<lock, holes>>

\* A step of a session.
SessionStep(t) ==
    /\ path = "session" /\ UNCHANGED <<path, audit, serviceVars>>
    /\ \/ Declines(t) \/ Acquires(t) \/ Advances(t) \/ Submits(t)
       \/ GivesUp(t) \/ Retains(t) \/ Places(t) \/ Unplaced(t)

\* An exception before the entry was accepted gives the lock up.
LEMMA RaisesEffect ==
    ASSUME TypeOK, NEW t \in Tasks, task[t].pc \in {"balances", "positions", "ticker", "post"},
           Raises(t) \/ LacksMargin(t), ex' = ex,
           \/ ex[t].wire \in {"none", "refused"} /\ holes' = holes
           \/ task[t].pc # "post" /\ holes' = holes
           \/ holes' = holes \cup {"unread"}
    PROVE  GivesUp(t)
<1>1. \E r \in {"ERROR", "BLOCKED"} : Return(t, r)
  BY DEF Raises, LacksMargin
<1>2. \E r \in {"ERROR", "BLOCKED"} : Stands(t, "done", r)
  BY <1>1, ReturnEffect DEF Results
<1>3. lock' = IF lock = SetupOf(t) THEN Free ELSE lock
  BY DEF Raises, LacksMargin, ReleaseIfNothingCanExist, EntryAccepted, ReleaseLock
<1> QED
  BY <1>2, <1>3 DEF GivesUp

\* A lost connection before the entry was accepted gives the lock up or retains it.
LEMMA LosesConnectionEffect ==
    ASSUME TypeOK, NEW t \in Tasks, task[t].pc \in {"balances", "positions", "ticker", "post"},
           LosesConnection(t), ex' = ex, holes' = holes
    PROVE  GivesUp(t) \/ Retains(t)
<1>1. CASE EntrySubmitted(t)
  <2>1. Stands(t, "done", "RECONCILIATION_REQUIRED") /\ lock' = lock
    BY <1>1, ReturnEffect DEF LosesConnection, Results
  <2> QED
    BY <1>1, <2>1 DEF EntrySubmitted, Retains
<1>2. CASE ~EntrySubmitted(t)
  <2>1. Raises(t) /\ ex[t].wire = "none"
    BY <1>2 DEF LosesConnection, Raises, EntrySubmitted
  <2> QED
    BY <2>1, RaisesEffect
<1> QED
  BY <1>1, <1>2

\* A bracket leg is placed or the session ends with the lock retained.
LEMMA PlaceBracketEffect ==
    ASSUME TypeOK, NEW t \in Tasks, NEW leg \in {"stop", "target"}, PlaceBracket(t, leg)
    PROVE  SessionStep(t)
<1>0. path = "session" /\ task[t].pc = leg /\ UNCHANGED <<path, audit, serviceVars, holes>>
  BY DEF PlaceBracket, At
<1>1. CASE BracketPlaced(t, leg) /\ ex' = (IF ex[t].held THEN [ex EXCEPT ![t][leg] = TRUE] ELSE ex)
           /\ lock' = lock
  <2>1. ex[t].held /\ ex' = [ex EXCEPT ![t][leg] = TRUE]
    BY <1>1 DEF BracketPlaced, Reducible
  <2>2. Rests(t, leg)
    BY <2>1, RestsEffect
  <2>3. CASE leg = "stop"
    <3>1. Stands(t, "target", task[t].result)
      BY <1>1, <2>3, GotoEffect DEF BracketPlaced, Steps
    <3> QED
      BY <1>0, <1>1, <2>1, <2>2, <2>3, <3>1 DEF Places, SessionStep
  <2>4. CASE leg = "target"
    <3>1. Stands(t, "done", "EXECUTED")
      BY <1>1, <2>4, ReturnEffect DEF BracketPlaced, Results
    <3> QED
      BY <1>0, <1>1, <2>1, <2>2, <2>4, <3>1 DEF Places, SessionStep
  <2> QED
    BY <2>3, <2>4
<1>2. CASE /\ LosesConnection(t) \/ Raises(t)
           /\ \E placed \in {FALSE, Reducible(t)} :
                ex' = IF placed THEN [ex EXCEPT ![t][leg] = TRUE] ELSE ex
  <2>1. ex' = ex \/ Rests(t, leg)
    BY <1>2, RestsEffect
  <2>2. \E r \in {"ERROR", "RECONCILIATION_REQUIRED"} : Return(t, r)
    BY <1>2 DEF LosesConnection, Raises
  <2>3. \E r \in {"ERROR", "RECONCILIATION_REQUIRED"} : Stands(t, "done", r)
    BY <2>2, ReturnEffect DEF Results
  <2>4. lock' = lock
    BY <1>0, <1>2 DEF LosesConnection, Raises, ReleaseIfNothingCanExist, EntryAccepted
  <2> QED
    BY <1>0, <2>1, <2>3, <2>4 DEF Unplaced, SessionStep
<1> QED
  BY <1>1, <1>2 DEF PlaceBracket

\* Every action of a session is a SessionStep.
LEMMA SessionEffect ==
    ASSUME TypeOK, NEW t \in Tasks,
           StartSession(t) \/ ReadFails(t) \/ ReadBalances(t) \/ ReadPositions(t)
           \/ SizeAndSubmit(t) \/ EntryAnswered(t) \/ PollingEnds(t)
           \/ \E leg \in {"stop", "target"} : PlaceBracket(t, leg)
    PROVE  SessionStep(t)
<1>1. CASE StartSession(t)
  <2>0. /\ path = "session" /\ task[t].pc = "idle"
        /\ UNCHANGED <<path, ex, audit, serviceVars, holes>>
    BY <1>1 DEF StartSession, At
  <2>1. \/ lock' = lock /\ \E r \in {"SKIPPED", "ERROR", "BLOCKED"} : Return(t, r)
        \/ lock = Free /\ lock' = SetupOf(t) /\ Goto(t, "balances")
    BY <1>1 DEF StartSession, CanAcquire
  <2>2. CASE lock' = lock /\ \E r \in {"SKIPPED", "ERROR", "BLOCKED"} : Return(t, r)
    <3>1. \E r \in {"SKIPPED", "ERROR", "BLOCKED"} : Stands(t, "done", r)
      BY <2>2, ReturnEffect DEF Results
    <3> QED
      BY <2>0, <2>2, <3>1 DEF Declines, SessionStep
  <2>3. CASE lock = Free /\ lock' = SetupOf(t) /\ Goto(t, "balances")
    <3>1. Stands(t, "balances", task[t].result)
      BY <2>3, GotoEffect DEF Steps
    <3> QED
      BY <2>0, <2>3, <3>1 DEF Acquires, SessionStep
  <2> QED
    BY <2>1, <2>2, <2>3
<1>2. CASE ReadFails(t)
  BY <1>2, RaisesEffect, LosesConnectionEffect DEF ReadFails, SessionStep
<1>3. CASE ReadBalances(t)
  <2>0. /\ path = "session" /\ task[t].pc = "balances"
        /\ UNCHANGED <<path, ex, audit, serviceVars, holes>>
    BY <1>3 DEF ReadBalances, At
  <2>1. Raises(t) \/ LacksMargin(t) \/ (Goto(t, "positions") /\ lock' = lock)
    BY <1>3 DEF ReadBalances
  <2>2. CASE Raises(t) \/ LacksMargin(t)
    BY <2>0, <2>2, RaisesEffect DEF SessionStep
  <2>3. CASE Goto(t, "positions") /\ lock' = lock
    <3>1. Stands(t, "positions", task[t].result)
      BY <2>3, GotoEffect DEF Steps
    <3> QED
      BY <2>0, <2>3, <3>1 DEF Advances, SessionStep
  <2> QED
    BY <2>1, <2>2, <2>3
<1>4. CASE ReadPositions(t)
  <2>0. /\ path = "session" /\ task[t].pc = "positions"
        /\ UNCHANGED <<path, ex, audit, serviceVars, holes>>
    BY <1>4 DEF ReadPositions, At
  <2>1. Raises(t) \/ (Goto(t, "ticker") /\ lock' = lock)
    BY <1>4 DEF ReadPositions
  <2>2. CASE Raises(t)
    BY <2>0, <2>2, RaisesEffect DEF SessionStep
  <2>3. CASE Goto(t, "ticker") /\ lock' = lock
    <3>1. Stands(t, "ticker", task[t].result)
      BY <2>3, GotoEffect DEF Steps
    <3> QED
      BY <2>0, <2>3, <3>1 DEF Advances, SessionStep
  <2> QED
    BY <2>1, <2>2, <2>3
<1>5. CASE SizeAndSubmit(t)
  <2>0. /\ path = "session" /\ task[t].pc = "ticker"
        /\ UNCHANGED <<path, audit, serviceVars, holes>>
    BY <1>5 DEF SizeAndSubmit, At
  <2>1. \/ (Raises(t) \/ LacksMargin(t)) /\ ex' = ex
        \/ Sent(t) /\ Goto(t, "post") /\ lock' = lock
    BY <1>5 DEF SizeAndSubmit
  <2>2. CASE (Raises(t) \/ LacksMargin(t)) /\ ex' = ex
    BY <2>0, <2>2, RaisesEffect DEF SessionStep
  <2>3. CASE Sent(t) /\ Goto(t, "post") /\ lock' = lock
    <3>1. Stands(t, "post", task[t].result)
      BY <2>3, GotoEffect DEF Steps
    <3>2. Leaves(t) /\ ex'[t].order = ex[t].order
      BY <2>3, SentEffect
    <3> QED
      BY <2>0, <2>3, <3>1, <3>2 DEF Submits, SessionStep
  <2> QED
    BY <2>1, <2>2, <2>3
<1>6. CASE EntryAnswered(t)
  <2>0. /\ path = "session" /\ task[t].pc = "post"
        /\ UNCHANGED <<path, ex, audit, serviceVars>>
    BY <1>6 DEF EntryAnswered, At
  <2>1. CASE "accepted" \in Answers(t) /\ Goto(t, "poll") /\ UNCHANGED <<lock, holes>>
    <3>1. Stands(t, "poll", task[t].result) /\ ex[t].wire = "taken"
      BY <2>1, GotoEffect, AnswersMean DEF Steps
    <3> QED
      BY <2>0, <2>1, <3>1 DEF Advances, SessionStep
  <2>2. CASE LosesConnection(t) /\ UNCHANGED holes
    BY <2>0, <2>2, LosesConnectionEffect DEF SessionStep
  <2>3. CASE \E a \in Answers(t) \ {"accepted", "unknown"} :
               /\ Raises(t)
               /\ holes' = IF a = "unreadable" THEN holes \cup {"unread"} ELSE holes
    <3>1. PICK a \in Answers(t) \ {"accepted", "unknown"} :
               /\ Raises(t)
               /\ holes' = IF a = "unreadable" THEN holes \cup {"unread"} ELSE holes
      BY <2>3
    <3>2. CASE a = "unreadable"
      BY <2>0, <3>1, <3>2, RaisesEffect DEF SessionStep
    <3>3. CASE a # "unreadable"
      <4>1. ex[t].wire = "refused"
        BY <3>1, <3>3, AnswersMean
      <4> QED
        BY <2>0, <3>1, <3>3, <4>1, RaisesEffect DEF SessionStep
    <3> QED
      BY <3>2, <3>3
  <2> QED
    BY <1>6, <2>1, <2>2, <2>3 DEF EntryAnswered
<1>7. CASE PollingEnds(t)
  <2>1. Stands(t, "stop", task[t].result)
    BY <1>7, GotoEffect DEF PollingEnds, Steps
  <2> QED
    BY <1>7, <2>1 DEF PollingEnds, At, sessionVars, Advances, SessionStep
<1>8. CASE \E leg \in {"stop", "target"} : PlaceBracket(t, leg)
  BY <1>8, PlaceBracketEffect
<1> QED
  BY <1>1, <1>2, <1>3, <1>4, <1>5, <1>6, <1>7, <1>8

-----------------------------------------------------------------------------
(* Type correctness *)

\* A step of reconcile_account.
AuditStep ==
    /\ UNCHANGED <<path, ex, task, serviceVars>>
    /\ audit' \in [pc: {"idle", "positions", "orders", "release"}, flat: BOOLEAN]
    /\ \/ UNCHANGED <<lock, holes>>
       \/ /\ lock' = Free
          /\ holes' = IF lock # Free
                         /\ \E t \in Tasks : SetupOf(t) = lock
                              /\ (Exposed(t) \/ task[t].pc \notin {"idle", "done"})
                      THEN holes \cup {"early"} ELSE holes

\* Every action of reconcile_account is an AuditStep.
LEMMA AuditEffect ==
    ASSUME TypeOK, AuditStarts \/ AuditReads \/ AuditUnreachable \/ AuditReleases
    PROVE  AuditStep
<1>1. CASE AuditStarts
  BY <1>1 DEF AuditStarts, AuditStep
<1>2. CASE AuditReads
  <2>1. NoPositions \in BOOLEAN /\ NoOrders \in BOOLEAN /\ audit.flat \in BOOLEAN
    BY DEF NoPositions, NoOrders, TypeOK
  <2> QED
    BY <1>2, <2>1 DEF AuditReads, AuditStep
<1>3. CASE AuditUnreachable
  BY <1>3 DEF AuditUnreachable, AuditStep
<1>4. CASE AuditReleases
  <2>1. CASE audit.flat
    BY <1>4, <2>1 DEF AuditReleases, Orphaned, AuditStep
  <2>2. CASE ~audit.flat
    BY <1>4, <2>2 DEF AuditReleases, Orphaned, AuditStep
  <2> QED
    BY <2>1, <2>2
<1> QED
  BY <1>1, <1>2, <1>3, <1>4

\* Every step of the system is one of the four kinds.
LEMMA StepEffect ==
    ASSUME TypeOK, Next
    PROVE  \/ \E t \in Tasks : ExchangeStepOf(t) \/ ServiceStep(t) \/ SessionStep(t)
           \/ AuditStep
  BY ExchangeEffect, ServiceEffect, SessionEffect, AuditEffect DEF Next

\* The initial state is typed.
LEMMA InitTyped == Init => TypeOK
  BY DEF Init, TypeOK, Exposure, None, Steps, Results

\* A step of the exchange keeps the types.
LEMMA ExchangeTyped ==
    ASSUME TypeOK, NEW t \in Tasks, ExchangeStepOf(t)
    PROVE  TypeOK'
<1>1. ex' \in [Tasks -> Exposure]
  BY DEF TypeOK, ExchangeStepOf, ExchangeMoves, ExchangeStep
<1> QED
  BY <1>1 DEF TypeOK, ExchangeStepOf

\* A step of the service keeps the types.
LEMMA ServiceTyped ==
    ASSUME TypeOK, NEW t \in Tasks, ServiceStep(t)
    PROVE  TypeOK'
<1>1. task' \in [Tasks -> [pc: Steps, result: Results]]
  BY DEF ServiceStep, Turned, Posts, Succeeds, Fails, Asks, Stands
<1>2. ex' \in [Tasks -> Exposure]
  BY DEF TypeOK, ServiceStep, Turned, Posts, Succeeds, Fails, Asks, Leaves
<1>3. flying' \in SUBSET Setups /\ executed' \in SUBSET Setups /\ ids' \in SUBSET ClientIds
  BY Names DEF TypeOK, ServiceStep, Turned, Posts, Succeeds, Fails, Asks
<1>4. store' \in [ClientIds -> {"none"} \cup Statuses]
  <2>1. /\ store \in [ClientIds -> {"none"} \cup Statuses]
        /\ {"PENDING", "REJECTED", "CANCELLED"} \subseteq Statuses
    BY DEF TypeOK, Statuses
  <2> QED
    BY <2>1, Names DEF ServiceStep, Turned, Posts, Succeeds, Fails, Asks
<1>5. holes' \in SUBSET ({"unread", "early"} \cup Tasks)
  BY DEF TypeOK, ServiceStep, Turned, Posts, Succeeds, Fails, Asks
<1> QED
  BY <1>1, <1>2, <1>3, <1>4, <1>5 DEF TypeOK, ServiceStep

\* A step of a session keeps the types.
LEMMA SessionTyped ==
    ASSUME TypeOK, NEW t \in Tasks, SessionStep(t)
    PROVE  TypeOK'
<1> USE DEF SessionStep, Declines, Acquires, Advances, Submits, GivesUp, Retains, Places, Unplaced
<1>1. task' \in [Tasks -> [pc: Steps, result: Results]]
  BY DEF Stands
<1>2. ex' \in [Tasks -> Exposure]
  BY DEF TypeOK, Leaves, Rests
<1>3. lock' \in Setups \cup {Free}
  BY Names DEF TypeOK
<1>4. holes' \in SUBSET ({"unread", "early"} \cup Tasks)
  BY DEF TypeOK
<1> QED
  BY <1>1, <1>2, <1>3, <1>4 DEF TypeOK, serviceVars

\* A step of reconcile_account keeps the types.
LEMMA AuditTyped ==
    ASSUME TypeOK, AuditStep
    PROVE  TypeOK'
  BY DEF TypeOK, AuditStep, serviceVars

\* Every step keeps the types.
LEMMA TypedStep ==
    ASSUME TypeOK, [Next]_vars
    PROVE  TypeOK'
<1>1. CASE UNCHANGED vars
  BY <1>1 DEF TypeOK, vars, sessionVars, serviceVars
<1>2. CASE Next
  BY <1>2, StepEffect, ExchangeTyped, ServiceTyped, SessionTyped, AuditTyped
<1> QED
  BY <1>1, <1>2

\* Every state is typed: the order store holds only the states it knows, and every
\* call stands at one of its steps with one of its results.
THEOREM TypeCorrect == Spec => []TypeOK
<1> QED
  BY InitTyped, TypedStep, PTL DEF Spec

-----------------------------------------------------------------------------
(* Where a call stands and what it has at the exchange *)

\* The place of a call tells what it has at the exchange, and the other way round.
Stage(t) ==
    /\ task[t].pc \in {"idle", "balances", "positions", "ticker"} => ex[t].wire = "none"
    /\ ex[t].wire # "taken" => ex[t].entry = "none" /\ ~ex[t].held
    /\ ex[t].held => ex[t].entry \in {"partial", "filled"}
    /\ task[t].pc # "done" => task[t].result = "none"
    /\ path = "service" => task[t].pc \in {"idle", "post", "reconcile", "done"}
    /\ path = "session" =>
         /\ task[t].pc # "reconcile"
         /\ task[t].pc = "post" => ex[t].wire # "none"
         /\ task[t].pc \in {"poll", "stop", "target"} => ex[t].wire = "taken"
    /\ task[t].pc = "target" => ex[t].entry \in {"partial", "filled"} /\ ex[t].stop
    /\ task[t].result = "EXECUTED" =>
         ex[t].entry \in {"partial", "filled"} /\ ex[t].stop /\ ex[t].target

\* It does for every call.
StageInv == \A t \in Tasks : Stage(t)

\* Initially every call is idle with nothing at the exchange.
LEMMA InitStaged == Init => StageInv
  BY DEF Init, StageInv, Stage

\* Every step keeps StageInv.
LEMMA StagedStep ==
    ASSUME TypeOK, StageInv, [Next]_vars
    PROVE  StageInv'
<1> SUFFICES ASSUME NEW u \in Tasks PROVE Stage(u)'
  BY DEF StageInv
<1>0. Stage(u) /\ ex \in [Tasks -> Exposure] /\ task \in [Tasks -> [pc: Steps, result: Results]]
  BY DEF StageInv, TypeOK
<1>1. CASE UNCHANGED vars
  BY <1>0, <1>1 DEF Stage, vars
<1>2. ASSUME NEW t \in Tasks, ExchangeStepOf(t)
      PROVE  Stage(u)'
  <2>1. CASE u = t
    BY <1>0, <1>2, <2>1 DEF Stage, ExchangeStepOf, ExchangeMoves, ExchangeStep, Exposure, Working
  <2>2. CASE u # t
    BY <1>0, <1>2, <2>2 DEF Stage, ExchangeStepOf, ExchangeMoves
  <2> QED
    BY <2>1, <2>2
<1>3. ASSUME NEW t \in Tasks, ServiceStep(t)
      PROVE  Stage(u)'
  <2> USE <1>0, <1>3 DEF Stage, ServiceStep
  <2>1. CASE u # t
    BY <2>1 DEF Turned, Posts, Succeeds, Fails, Asks, Stands, Leaves
  <2>2. CASE u = t /\ Turned(t)
    BY <2>2 DEF Turned, Stands
  <2>3. CASE u = t /\ Posts(t)
    BY <2>3 DEF Posts, Stands, Leaves
  <2>4. CASE u = t /\ Succeeds(t)
    BY <2>4 DEF Succeeds, Stands, Working
  <2>5. CASE u = t /\ Fails(t)
    BY <2>5 DEF Fails, Stands
  <2>6. CASE u = t /\ Asks(t)
    BY <2>6 DEF Asks, Stands
  <2> QED
    BY <2>1, <2>2, <2>3, <2>4, <2>5, <2>6
<1>4. ASSUME NEW t \in Tasks, SessionStep(t)
      PROVE  Stage(u)'
  <2> USE <1>0, <1>4 DEF Stage, SessionStep
  <2>1. CASE u # t
    BY <2>1 DEF Declines, Acquires, Advances, Submits, GivesUp, Retains, Places,
       Unplaced, Stands, Leaves, Rests
  <2>2. CASE u = t /\ (Declines(t) \/ Acquires(t))
    BY <2>2 DEF Declines, Acquires, Stands
  <2>3. CASE u = t /\ Advances(t)
    BY <2>3 DEF Advances, Stands
  <2>4. CASE u = t /\ Submits(t)
    BY <2>4 DEF Submits, Stands, Leaves
  <2>5. CASE u = t /\ (GivesUp(t) \/ Retains(t))
    BY <2>5 DEF GivesUp, Retains, Stands
  <2>6. CASE u = t /\ Places(t)
    BY <2>6 DEF Places, Stands, Rests
  <2>7. CASE u = t /\ Unplaced(t)
    BY <2>7 DEF Unplaced, Stands, Rests
  <2> QED
    BY <2>1, <2>2, <2>3, <2>4, <2>5, <2>6, <2>7
<1>5. CASE AuditStep
  BY <1>0, <1>5 DEF Stage, AuditStep
<1> QED
  BY <1>1, <1>2, <1>3, <1>4, <1>5, StepEffect

-----------------------------------------------------------------------------
(* The service: one order per setup, a true verdict *)

\* What left is registered in flight, once per setup; a result tells of the request.
Accounted(t) ==
    /\ ex[t].wire # "none" \/ task[t].pc \in {"post", "reconcile"} => SetupOf(t) \in flying
    /\ \A u \in Tasks : ex[t].wire # "none" /\ ex[u].wire # "none"
                          /\ SetupOf(t) = SetupOf(u) => t = u
    /\ task[t].result \in {"SUBMITTED", "PARTIALLY_FILLED", "FILLED"} =>
         ex[t].wire = "taken" /\ SetupOf(t) \in executed
    /\ task[t].result = "FILLED" /\ t \notin holes => ex[t].entry = "filled"
    /\ task[t].result = "PARTIALLY_FILLED" => ex[t].entry \in {"partial", "filled"}
    /\ task[t].result \in {"REJECTED", "FAILED"} /\ t \notin holes =>
         ex[t].wire \notin {"sent", "taken"}

\* It is so for every call of the service, and an executed mark stands for an order.
ServiceInv ==
    path = "service" =>
        /\ \A t \in Tasks : Accounted(t)
        /\ \A s \in executed : \E t \in Tasks : SetupOf(t) = s /\ ex[t].wire = "taken"

\* Initially no setup is registered and nothing has left.
LEMMA InitAccounted == Init => ServiceInv
  BY DEF Init, ServiceInv, Accounted

\* Every step keeps ServiceInv.
LEMMA AccountedStep ==
    ASSUME TypeOK, StageInv, ServiceInv, [Next]_vars
    PROVE  ServiceInv'
<1> SUFFICES ASSUME path' = "service" PROVE ServiceInv'
  BY DEF ServiceInv
<1>1. CASE UNCHANGED vars
  BY <1>1 DEF ServiceInv, Accounted, vars, serviceVars
<1>2. ASSUME NEW t \in Tasks, ExchangeStepOf(t)
      PROVE  ServiceInv'
  <2>1. PICK f : ExchangeStep(ex[t], f) /\ ex' = [ex EXCEPT ![t] = f]
    BY <1>2 DEF ExchangeStepOf, ExchangeMoves
  <2>2. /\ ex'[t] = f /\ \A u \in Tasks \ {t} : ex'[u] = ex[u]
        /\ ex[t].wire # "none" /\ f.wire # "none"
        /\ ex[t].wire = "taken" => f.wire = "taken"
        /\ ex[t].wire = "taken" /\ ex[t].entry = "filled" => f.entry = "filled"
        /\ ex[t].wire = "taken" /\ ex[t].entry \in {"partial", "filled"} =>
             f.entry \in {"partial", "filled"}
        /\ f.wire \in {"sent", "taken"} => ex[t].wire \in {"sent", "taken"}
    BY <2>1 DEF ExchangeStep, TypeOK, Exposure, StageInv, Stage, Working
  <2>3. UNCHANGED <<path, task, flying, executed, holes>>
    BY <1>2 DEF ExchangeStepOf
  <2>4. path = "service" /\ \A u \in Tasks : Accounted(u)
    BY <2>3 DEF ServiceInv
  <2>5. ASSUME NEW u \in Tasks
        PROVE  Accounted(u)'
    BY <2>2, <2>3, <2>4 DEF Accounted
  <2>6. \A s \in executed' : \E u \in Tasks : SetupOf(u) = s /\ ex'[u].wire = "taken"
    BY <2>2, <2>3, <2>4 DEF ServiceInv
  <2> QED
    BY <2>5, <2>6 DEF ServiceInv
<1>3. ASSUME NEW t \in Tasks, ServiceStep(t)
      PROVE  ServiceInv'
  <2>0. /\ path = "service" /\ \A u \in Tasks : Accounted(u) /\ Stage(u)
        /\ \A s \in executed : \E u \in Tasks : SetupOf(u) = s /\ ex[u].wire = "taken"
    BY <1>3 DEF ServiceInv, ServiceStep, StageInv
  <2>1. CASE Turned(t)
    BY <2>0, <2>1 DEF ServiceInv, Accounted, Turned, Stands, Stage
  <2>2. CASE Posts(t)
    <3>1. /\ \A u \in Tasks \ {t} : ex'[u] = ex[u] /\ task'[u] = task[u]
          /\ ex[t].wire = "none" /\ task'[t].pc = "post" /\ task'[t].result = "none"
          /\ ex'[t].wire \in {"none", "sent"}
          /\ SetupOf(t) \notin flying /\ flying' = flying \cup {SetupOf(t)}
          /\ holes' = holes /\ executed' = executed
      BY <2>0, <2>2 DEF Posts, Leaves, Stands, Stage
    <3>2. ASSUME NEW u \in Tasks
          PROVE  Accounted(u)'
      BY <2>0, <3>1 DEF Accounted
    <3>3. \A s \in executed' : \E u \in Tasks : SetupOf(u) = s /\ ex'[u].wire = "taken"
      BY <2>0, <3>1
    <3> QED
      BY <3>2, <3>3 DEF ServiceInv
  <2>3. CASE Succeeds(t)
    <3>1. ex[t].wire = "taken"
      BY <2>0, <2>3 DEF Succeeds, Stage, Working
    <3> QED
      BY <2>0, <2>3, <3>1 DEF ServiceInv, Accounted, Succeeds, Stands
  <2>4. CASE Fails(t)
    BY <2>0, <2>4 DEF ServiceInv, Accounted, Fails, Stands
  <2>5. CASE Asks(t)
    BY <2>0, <2>5 DEF ServiceInv, Accounted, Asks, Stands, Stage
  <2> QED
    BY <1>3, <2>1, <2>2, <2>3, <2>4, <2>5 DEF ServiceStep
<1>4. ASSUME NEW t \in Tasks, SessionStep(t)
      PROVE  ServiceInv'
  BY <1>4 DEF SessionStep
<1>5. CASE AuditStep
  BY <1>5 DEF ServiceInv, Accounted, AuditStep, serviceVars
<1> QED
  BY <1>1, <1>2, <1>3, <1>4, <1>5, StepEffect

-----------------------------------------------------------------------------
(* The session: the lock *)

\* A call has begun and has not ended.
Running(t) == task[t].pc \notin {"idle", "done"}

\* Who runs or is exposed holds the lock, and there is one.
HolderInv ==
    path = "session" /\ holes = {} =>
        /\ \A t \in Tasks : Running(t) \/ Exposed(t) => lock = SetupOf(t)
        /\ \A t, u \in Tasks : (Running(t) \/ Exposed(t)) /\ (Running(u) \/ Exposed(u)) => t = u

\* Initially no session runs and nothing is exposed.
LEMMA InitHeld == Init => HolderInv
  BY DEF Init, HolderInv, Running, Exposed, Working

\* Every step keeps HolderInv.
LEMMA HeldStep ==
    ASSUME TypeOK, StageInv, HolderInv, [Next]_vars
    PROVE  HolderInv'
<1> SUFFICES ASSUME path' = "session", holes' = {} PROVE HolderInv'
  BY DEF HolderInv
<1> USE DEF Running, Exposed, Working
<1>1. CASE UNCHANGED vars
  BY <1>1 DEF HolderInv, vars, sessionVars
<1>2. ASSUME NEW t \in Tasks, ExchangeStepOf(t)
      PROVE  HolderInv'
  <2>1. PICK f : ExchangeStep(ex[t], f) /\ ex' = [ex EXCEPT ![t] = f]
    BY <1>2 DEF ExchangeStepOf, ExchangeMoves
  <2>2. ex'[t] = f /\ (\A u \in Tasks \ {t} : ex'[u] = ex[u]) /\ Exposed(t)
    BY <2>1 DEF ExchangeStep, TypeOK, Exposure
  <2> QED
    BY <1>2, <2>2 DEF HolderInv, ExchangeStepOf
<1>3. ASSUME NEW t \in Tasks, ServiceStep(t)
      PROVE  HolderInv'
  BY <1>3 DEF ServiceStep
<1>4. ASSUME NEW t \in Tasks, SessionStep(t)
      PROVE  HolderInv'
  <2>0. /\ path = "session" /\ holes = {} /\ Stage(t)
        /\ SetupOf(t) # Free
        /\ \A u \in Tasks : Running(u) \/ Exposed(u) => lock = SetupOf(u) /\ SetupOf(u) # Free
        /\ \A u, v \in Tasks : (Running(u) \/ Exposed(u)) /\ (Running(v) \/ Exposed(v)) => v = u
    BY <1>4, Names DEF HolderInv, SessionStep, StageInv, Declines, Acquires, Advances, Submits,
       GivesUp, Retains, Places, Unplaced
  <2>1. CASE Declines(t)
    BY <2>0, <2>1 DEF HolderInv, Declines, Stands
  <2>2. CASE Acquires(t)
    BY <2>0, <2>2 DEF HolderInv, Acquires, Stands
  <2>3. CASE Advances(t)
    BY <2>0, <2>3 DEF HolderInv, Advances, Stands
  <2>4. CASE Submits(t)
    BY <2>0, <2>4 DEF HolderInv, Submits, Stands, Leaves
  <2>5. CASE GivesUp(t)
    <3>1. ~Exposed(t) /\ Running(t)
      BY <2>0, <2>5 DEF GivesUp, Stage
    <3> QED
      BY <2>0, <2>5, <3>1 DEF HolderInv, GivesUp, Stands
  <2>6. CASE Retains(t)
    BY <2>0, <2>6 DEF HolderInv, Retains, Stands
  <2>7. CASE Places(t)
    <3>1. /\ ex'[t].held = ex[t].held /\ ex[t].held /\ Running(t)
          /\ \A u \in Tasks \ {t} : ex'[u] = ex[u] /\ task'[u] = task[u]
          /\ lock' = lock /\ holes' = holes
      BY <2>7 DEF Places, Stands, Rests
    <3> QED
      BY <2>0, <3>1 DEF HolderInv
  <2>8. CASE Unplaced(t)
    BY <2>0, <2>8 DEF HolderInv, Unplaced, Stands, Rests
  <2> QED
    BY <1>4, <2>1, <2>2, <2>3, <2>4, <2>5, <2>6, <2>7, <2>8 DEF SessionStep
<1>5. CASE AuditStep
  <2>1. CASE UNCHANGED <<lock, holes>>
    BY <1>5, <2>1 DEF HolderInv, AuditStep
  <2>2. CASE /\ lock # Free
             /\ \E t \in Tasks : SetupOf(t) = lock
                  /\ (Exposed(t) \/ task[t].pc \notin {"idle", "done"})
             /\ "early" \in holes'
    BY <2>2
  <2>3. CASE ~(lock # Free /\
               \E t \in Tasks : SetupOf(t) = lock
                              /\ (Exposed(t) \/ task[t].pc \notin {"idle", "done"}))
             /\ holes' = holes
    BY <1>5, <2>3, Names DEF HolderInv, AuditStep
  <2> HIDE DEF Exposed
  <2> QED
    BY <1>5, <2>1, <2>2, <2>3 DEF AuditStep
<1> QED
  BY <1>1, <1>2, <1>3, <1>4, <1>5, StepEffect

\* The lock is never left to a session that is over and sent nothing.
OwnerInv ==
    /\ NoStrandedLock
    /\ path = "service" => lock = Free

\* Initially the lock is free.
LEMMA InitOwned == Init => OwnerInv
  BY DEF Init, OwnerInv, NoStrandedLock

\* Every step keeps OwnerInv.
LEMMA OwnedStep ==
    ASSUME TypeOK, StageInv, OwnerInv, [Next]_vars
    PROVE  OwnerInv'
<1> USE DEF OwnerInv, NoStrandedLock, EntrySubmitted
<1>1. CASE UNCHANGED vars
  BY <1>1 DEF vars, sessionVars
<1>2. ASSUME NEW t \in Tasks, ExchangeStepOf(t)
      PROVE  OwnerInv'
  <2>1. PICK f : ExchangeStep(ex[t], f) /\ ex' = [ex EXCEPT ![t] = f]
    BY <1>2 DEF ExchangeStepOf, ExchangeMoves
  <2>2. ex'[t] = f /\ (\A u \in Tasks \ {t} : ex'[u] = ex[u]) /\ f.wire # "none"
    BY <2>1 DEF ExchangeStep, TypeOK, Exposure, StageInv, Stage, Working
  <2> QED
    BY <1>2, <2>2 DEF ExchangeStepOf
<1>3. ASSUME NEW t \in Tasks, ServiceStep(t)
      PROVE  OwnerInv'
  BY <1>3 DEF ServiceStep
<1>4. ASSUME NEW t \in Tasks, SessionStep(t)
      PROVE  OwnerInv'
  <2>0. path = "session" /\ path' = path /\ Stage(t)
    BY <1>4 DEF SessionStep, StageInv
  <2>1. CASE Declines(t)
    BY <2>0, <2>1 DEF Declines, Stands
  <2>2. CASE Acquires(t)
    BY <2>0, <2>2 DEF Acquires, Stands
  <2>3. CASE Advances(t)
    BY <2>0, <2>3 DEF Advances, Stands
  <2>4. CASE Submits(t)
    BY <2>0, <2>4 DEF Submits, Stands, Leaves
  <2>5. CASE GivesUp(t)
    BY <2>0, <2>5 DEF GivesUp, Stands
  <2>6. CASE Retains(t)
    BY <2>0, <2>6 DEF Retains, Stands
  <2>7. CASE Places(t)
    <3>1. /\ ex'[t].wire # "none"
          /\ \A u \in Tasks \ {t} : ex'[u] = ex[u] /\ task'[u] = task[u]
          /\ lock' = lock
      BY <2>0, <2>7 DEF Places, Stands, Rests, Stage
    <3> QED
      BY <2>0, <3>1
  <2>8. CASE Unplaced(t)
    BY <2>0, <2>8 DEF Unplaced, Stands, Rests, Stage
  <2> QED
    BY <1>4, <2>1, <2>2, <2>3, <2>4, <2>5, <2>6, <2>7, <2>8 DEF SessionStep
<1>5. CASE AuditStep
  BY <1>5 DEF AuditStep
<1> QED
  BY <1>1, <1>2, <1>3, <1>4, <1>5, StepEffect

-----------------------------------------------------------------------------
(* What leaves *)

\* The limits of reward, risk and margin.
SoundOrder(r) ==
    /\ 2 * RewardDistance(r) >= 3 * RiskDistance(r) /\ RiskDistance(r) > 0
    /\ Equity > 0 => 10000 * r.size * ContractValue * RiskDistance(r) <= 3535 * Equity
    /\ r.size * ContractValue * r.entry <= Available * r.leverage

\* What OrderValidationGateway.validate accepts as an order that may open is sound.
LEMMA ValidIsSound ==
    ASSUME NEW r \in Orders, NEW c, Valid(r, c), ~r.reduceOnly
    PROVE  SoundOrder(r)
<1>1. RiskDistance(r) \in Int /\ RewardDistance(r) \in Int /\ r.size \in Int
      /\ ContractValue \in Int /\ Equity \in Nat
  BY OrderAssumption DEF RiskDistance, RewardDistance, Orders
<1>2. Equity > 0 => 10000 * r.size * ContractValue * RiskDistance(r) <= 3535 * Equity
  <2> SUFFICES ASSUME Equity > 0
               PROVE  10000 * r.size * ContractValue * RiskDistance(r) <= 3535 * Equity
    OBVIOUS
  <2> DEFINE d == RiskDistance(r)
             n == r.size
  <2>1. n * ContractValue * d * 10000 <= Equity * 35 * 101
    BY <1>1 DEF Valid, OpensSoundly, RiskWithinLimit
  <2>2. d \in Int /\ n \in Int
    BY <1>1
  <2> HIDE DEF d, n
  <2>3. n * ContractValue * d * 10000 = 10000 * n * ContractValue * d
    BY <1>1, <2>2
  <2>4. Equity * 35 * 101 = 3535 * Equity
    BY <1>1
  <2> QED
    BY <2>1, <2>3, <2>4 DEF d, n
<1> QED
  BY <1>2 DEF Valid, OpensSoundly, SoundOrder, GeometrySound, RewardSuffices, MarginAvailable

\* A recorded order that may open a position.
Opening(r) == r.type # "none" /\ ~r.reduceOnly

\* Every such order keeps them.
OrderInv == \A t \in Tasks : Opening(ex[t].order) => SoundOrder(ex[t].order)

\* Initially no order is recorded.
LEMMA InitPosted == Init => OrderInv
  BY DEF Init, OrderInv, Opening, None

\* Every step keeps OrderInv.
LEMMA PostedStep ==
    ASSUME TypeOK, OrderInv, [Next]_vars
    PROVE  OrderInv'
<1> SUFFICES ASSUME NEW u \in Tasks, Opening(ex'[u].order)
             PROVE  SoundOrder(ex'[u].order)
  BY DEF OrderInv, Opening, SoundOrder, RiskDistance, RewardDistance
<1>0. ex[u].order = ex'[u].order => SoundOrder(ex'[u].order)
  BY DEF OrderInv
<1>1. CASE UNCHANGED vars
  BY <1>0, <1>1 DEF vars
<1>2. ASSUME NEW t \in Tasks, ExchangeStepOf(t)
      PROVE  ex[u].order = ex'[u].order
  <2>1. PICK f : ExchangeStep(ex[t], f) /\ ex' = [ex EXCEPT ![t] = f]
    BY <1>2 DEF ExchangeStepOf, ExchangeMoves
  <2> QED
    BY <2>1 DEF ExchangeStep, TypeOK
<1>3. ASSUME NEW t \in Tasks, ServiceStep(t)
      PROVE  SoundOrder(ex'[u].order)
  <2>1. CASE ex'[u].order = ex[u].order
    BY <1>0, <2>1
  <2>2. CASE ex'[u].order # ex[u].order
    <3>1. u = t /\ \E c : \E r \in Orders : Valid(r, c) /\ ex'[t].order = r
      BY <1>3, <2>2 DEF ServiceStep, Turned, Posts, Succeeds, Fails, Asks, Leaves
    <3> QED
      BY <3>1, ValidIsSound DEF Opening
  <2> QED
    BY <2>1, <2>2
<1>4. ASSUME NEW t \in Tasks, SessionStep(t)
      PROVE  ex[u].order = ex'[u].order
  BY <1>4 DEF SessionStep, Declines, Acquires, Advances, Submits, GivesUp, Retains,
     Places, Unplaced, Leaves, Rests
<1>5. CASE AuditStep
  BY <1>0, <1>5 DEF AuditStep
<1> QED
  BY <1>0, <1>1, <1>2, <1>3, <1>4, <1>5, StepEffect

-----------------------------------------------------------------------------
(* The theorems *)

\* All parts together.
Inv ==
    /\ TypeOK
    /\ StageInv
    /\ ServiceInv
    /\ HolderInv
    /\ OwnerInv
    /\ OrderInv

\* The inductive invariant.
THEOREM Invariance == Spec => []Inv
<1>1. Init => Inv
  BY InitTyped, InitStaged, InitAccounted, InitHeld, InitOwned, InitPosted DEF Inv
<1>2. Inv /\ [Next]_vars => Inv'
  BY TypedStep, StagedStep, AccountedStep, HeldStep, OwnedStep, PostedStep DEF Inv
<1> QED
  BY <1>1, <1>2, PTL DEF Spec

\* At most one exposure is a matter of cardinality.
LEMMA OneExposure ==
    ASSUME Inv, path = "session", holes = {}
    PROVE  Cardinality(Exposures) <= 1
<1>1. CASE Exposures = {}
  BY <1>1, FS_EmptySet
<1>2. CASE Exposures # {}
  <2>1. PICK t \in Tasks : Exposed(t)
    BY <1>2 DEF Exposures
  <2>2. Exposures = {t}
    BY <2>1 DEF Inv, HolderInv, Exposures
  <2>3. Cardinality({t}) = 1
    BY FS_Singleton
  <2> QED
    BY <2>2, <2>3
<1> QED
  BY <1>1, <1>2

\* One account has one trade at a time and the lock names its setup, however
\* dispatches, late answers and reconciliations overlap, unless one of the two known
\* holes was stepped into (multi_user_orchestrator.py, single_trade_lock.py).
THEOREM HolderIsNamed == Spec => []ExposureNamesHolder
<1>1. Inv => ExposureNamesHolder
  BY OneExposure DEF Inv, HolderInv, ExposureNamesHolder, Exposures
<1> QED
  BY <1>1, Invariance, PTL

\* The lock always names a setup whose session still runs or whose entry left:
\* a session that sent nothing hands the account back.
THEOREM LockComesBack == Spec => []NoStrandedLock
<1>1. Inv => NoStrandedLock
  BY DEF Inv, OwnerInv
<1> QED
  BY <1>1, Invariance, PTL

\* EXECUTED means a filled entry with both bracket legs taken.
THEOREM BracketsWereTaken == Spec => []ExecutedIsProtected
<1>1. Inv => ExecutedIsProtected
  BY DEF Inv, StageInv, Stage, ExecutedIsProtected
<1> QED
  BY <1>1, Invariance, PTL

\* However the service's calls overlap, repeat and fail, a setup has at most one
\* order on the exchange or on its way: _in_flight_setups never forgets.
THEOREM SetupOrderedOnce == Spec => []OneOrderPerSetup
<1>1. Inv => OneOrderPerSetup
  BY DEF Inv, ServiceInv, Accounted, OneOrderPerSetup
<1> QED
  BY <1>1, Invariance, PTL

\* The verdict of execute_order is true of the exchange, "filled" included, except
\* after a query that could not see the order or did not find it open.
THEOREM ServiceTellsTruth == Spec => []VerdictIsTrue
<1>1. Inv => VerdictIsTrue
  BY DEF Inv, ServiceInv, Accounted, VerdictIsTrue
<1> QED
  BY <1>1, Invariance, PTL

\* Every order the service sends that may open a position kept the reward, risk and
\* margin limits, whichever of the two ways it was sized.
THEOREM OrdersSound == Spec => []PostedOrdersAreSound
<1>1. Inv => PostedOrdersAreSound
  BY DEF Inv, OrderInv, Opening, SoundOrder, PostedOrdersAreSound
<1> QED
  BY <1>1, Invariance, PTL

-----------------------------------------------------------------------------
(* Sizing *)

\* An integer quotient and its successor bound the dividend.
LEMMA Quotient ==
    ASSUME NEW a \in Nat, NEW b \in Nat \ {0}
    PROVE  /\ a \div b \in Nat
           /\ b * (a \div b) <= a /\ a < b * (a \div b + 1)
<1>1. a \div b \in Nat /\ a % b \in 0..(b - 1)
  OBVIOUS
<1>2. a = b * (a \div b) + (a % b)
  OBVIOUS
<1>3. b * (a \div b) \in Int /\ b * (a \div b + 1) = b * (a \div b) + b
  BY <1>1
<1> QED
  BY <1>1, <1>2, <1>3

\* A product of naturals grows with a factor.
LEMMA Grows ==
    ASSUME NEW a \in Nat, NEW b \in Nat, NEW c \in Nat, a <= b
    PROVE  c * a <= c * b
<1>1. b - a \in Nat
  OBVIOUS
<1>2. c * (b - a) >= 0
  BY <1>1
<1>3. c * (b - a) = c * b - c * a
  OBVIOUS
<1> QED
  BY <1>2, <1>3

\* calculate_100_percent_allocation gives the greatest number of contracts that the
\* used part of the balance carries; the margin check after it never fires.
THEOREM AllocationIsGreatest ==
    ASSUME NEW balance \in Nat \ {0}, NEW mark \in Nat \ {0}, NEW unit \in Nat \ {0},
           NEW leverage \in 1..100, NEW buffer \in 1..100
    PROVE  /\ Allocation(balance, mark, leverage, buffer, unit) \in Nat
           /\ 100 * mark * unit * Allocation(balance, mark, leverage, buffer, unit)
                <= balance * buffer * leverage
           /\ balance * buffer * leverage
                < 100 * mark * unit * (Allocation(balance, mark, leverage, buffer, unit) + 1)
<1> DEFINE carried == balance * buffer * leverage
           cost == 100 * mark * unit
           quantity == carried \div cost
           worth == quantity * unit * mark
           margin == worth \div leverage
<1>1. carried \in Nat /\ cost \in Nat \ {0}
  <2>1. mark * unit \in Nat \ {0} /\ balance * buffer \in Nat
    OBVIOUS
  <2>2. cost = 100 * (mark * unit) /\ (balance * buffer) * leverage \in Nat
    BY <2>1
  <2> QED
    BY <2>1, <2>2
<1>2. quantity \in Nat /\ cost * quantity <= carried /\ carried < cost * (quantity + 1)
  <2> HIDE DEF carried, cost
  <2> QED
    BY <1>1, Quotient
<1>3. worth \in Nat /\ cost * quantity = 100 * worth
  <2> HIDE DEF carried, quantity
  <2>1. unit * mark \in Nat
    OBVIOUS
  <2>2. worth \in Nat
    BY <1>2, <2>1
  <2> QED
    BY <1>2, <2>2
<1>4. carried <= 100 * (balance * leverage)
  <2>1. balance * leverage \in Nat /\ carried = (balance * leverage) * buffer
    OBVIOUS
  <2>2. (balance * leverage) * buffer <= (balance * leverage) * 100
    BY <2>1, Grows
  <2> QED
    BY <2>1, <2>2
<1>5. worth <= balance * leverage
  <2> HIDE DEF carried, cost, quantity, worth
  <2>1. balance * leverage \in Nat
    OBVIOUS
  <2> QED
    BY <1>1, <1>2, <1>3, <1>4, <2>1
<1>6. margin <= balance
  <2> HIDE DEF worth
  <2>1. margin \in Nat /\ leverage * margin <= worth
    BY <1>3, Quotient
  <2>2. SUFFICES ASSUME balance < margin PROVE FALSE
    BY <2>1
  <2>3. leverage * (balance + 1) <= leverage * margin
    BY <2>1, <2>2, Grows
  <2>4. leverage * (balance + 1) = balance * leverage + leverage
    OBVIOUS
  <2> DEFINE most == balance * leverage
             least == leverage * margin
  <2>5. most \in Nat /\ least \in Nat /\ worth <= most /\ least <= worth
        /\ most + leverage <= least
    BY <1>5, <2>1, <2>3, <2>4
  <2> HIDE DEF most, least, margin
  <2> QED
    BY <1>3, <2>5
<1>7. Allocation(balance, mark, leverage, buffer, unit) = quantity
  BY <1>6 DEF Allocation
<1> HIDE DEF quantity, carried, cost
<1> QED
  BY <1>2, <1>7 DEF carried, cost

\* Decimal.quantize to a whole number is off by at most one half.
THEOREM NearestIsNearest ==
    ASSUME NEW a \in Nat, NEW b \in Nat \ {0}
    PROVE  /\ Nearest(a, b) \in Nat
           /\ 2 * (b * Nearest(a, b)) <= 2 * a + b
           /\ 2 * a <= 2 * (b * Nearest(a, b)) + b
<1> DEFINE q == a \div b
           r == 2 * (a % b)
<1>1. q \in Nat /\ a % b \in 0..(b - 1) /\ a = b * q + (a % b)
  OBVIOUS
<1>2. /\ Nearest(a, b) \in {q, q + 1}
      /\ Nearest(a, b) = q => r <= b
      /\ Nearest(a, b) = q + 1 => r >= b
  <2>1. Nearest(a, b) = IF r > b \/ (r = b /\ q % 2 = 1) THEN q + 1 ELSE q
    BY DEF Nearest
  <2> HIDE DEF q
  <2> QED
    BY <1>1, <2>1
<1>3. b * q \in Nat /\ b * (q + 1) = b * q + b
  BY <1>1
<1> HIDE DEF q
<1>4. CASE Nearest(a, b) = q
  BY <1>1, <1>2, <1>3, <1>4
<1>5. CASE Nearest(a, b) = q + 1
  BY <1>1, <1>2, <1>3, <1>5
<1> QED
  BY <1>2, <1>4, <1>5

\* The quantity of a decision is one contract or exceeds the risk budget (35 per
\* cent of the equity) by at most half a contract's risk.
THEOREM DecisionNearBudget ==
    ASSUME NEW r \in Orders, RiskDistance(r) > 0
    PROVE  /\ DecisionQuantity(r) \in Nat \ {0}
           /\ \/ DecisionQuantity(r) = 1
              \/ 200 * RiskDistance(r) * DecisionQuantity(r)
                   <= 70 * Equity + 100 * RiskDistance(r)
<1> DEFINE d == RiskDistance(r)
           n == Nearest(Equity * 35, 100 * d)
<1>1. d \in Nat \ {0} /\ Equity \in Nat
  BY OrderAssumption DEF RiskDistance, Orders
<1>2. n \in Nat /\ 2 * ((100 * d) * n) <= 2 * (Equity * 35) + 100 * d
  <2>1. 100 * d \in Nat \ {0} /\ Equity * 35 \in Nat
    BY <1>1
  <2> HIDE DEF d
  <2> QED
    BY <2>1, NearestIsNearest
<1>3. DecisionQuantity(r) = IF n < 1 THEN 1 ELSE n
  BY <1>1 DEF DecisionQuantity
<1> HIDE DEF d, n
<1>4. 2 * ((100 * d) * n) = 200 * d * n
  BY <1>1, <1>2
<1>5. CASE n < 1
  BY <1>3, <1>5
<1>6. CASE ~(n < 1)
  BY <1>1, <1>2, <1>3, <1>4, <1>6 DEF d
<1> QED
  BY <1>5, <1>6
=============================================================================
