------------------------ MODULE SMCSubmissionProofs -------------------------
(***************************************************************************)
(* Theorems about the Manual SMC runtime that submits to an orchestrator:  *)
(* an entry that rests at the exchange is one the strategy still wants, or *)
(* the task that will cancel it is on its way, for every number of pairs,  *)
(* order blocks and tasks.                                                 *)
(*                                                                         *)
(* An order block leaves the states in which its entry is wanted only by   *)
(* dying on a candle, which reports it, unless the candle raises.  A candle *)
(* raises only in a resumed process and only in the hour of the last close *)
(* (CandleReports); by then the pair of every block that was offered has   *)
(* passed that hour (OfferedAfterClose), so its own candle does not.       *)
(***************************************************************************)
EXTENDS ManualSMCProofs

\* The states in which the strategy wants the entry of an order block, or would if no
\* other block had the slot, or wanted it until its own trade was over.
Standing(o) == ob[o].state \in {"LIMIT_RESTING", "TRADE_ACTIVE", "TRADE_CLOSED"}

\* What the tasks and the entry are: without an orchestrator there is neither, and a
\* task that has nothing to cancel has a decision to offer.
DeskTyped ==
    /\ tasks \in Seq(Tasks) /\ entry \in Entries
    /\ bound \in BOOLEAN /\ (~bound => tasks = <<>> /\ entry = NoEntry)
    /\ \A i \in 1..Len(tasks) : tasks[i].dead = {} => tasks[i].pick # NoOB
    /\ entry.state \in {"posting", "resting"} => entry.ob # NoOB

\* An entry on its way to the exchange, or resting there, is wanted, or its
\* cancellation is on its way, or it came before the order was sent.
EntryIsWanted ==
    entry.state \in {"posting", "resting"} =>
        \/ Standing(entry.ob)
        \/ entry.late
        \/ \E i \in 1..Len(tasks) : Cancelling(i)

\* The pair of a block that was offered has passed the hour of the last close, unless
\* the lock knows of that close.
PassedClose(o) == o # NoOB /\ lock.closedAt # closedAt => mark[AssetOf[o]] >= closedAt
OfferedAfterClose ==
    /\ PassedClose(entry.ob)
    /\ \A i \in 1..Len(tasks) : PassedClose(tasks[i].pick)

DeskInv == ClockInv /\ DeskTyped /\ EntryIsWanted /\ OfferedAfterClose

-----------------------------------------------------------------------------
(* The pieces of a candle.                                                 *)

\* A block whose entry is wanted stays so over a candle of its pair or of another, or
\* it is a candidate the candle invalidates.
LEMMA WantedOrInvalidated ==
    ASSUME TypeInv, NEW a \in Assets, ClosedCandle(a), NEW o \in OBs, Standing(o)
    PROVE  \/ ob'[o].state \in {"LIMIT_RESTING", "TRADE_ACTIVE", "TRADE_CLOSED"}
           \/ o \in Invalidated /\ AssetOf[o] = a
<1>a. PICK t \in Hours : \E wick, side : \E hit \in BOOLEAN : \E born \in Emissions(a, t) :
             Candle(a, t, wick, side, hit, born)
  BY CandleParts
<1>1. PICK wick, side, hit, born :
          born \in Emissions(a, t) /\ Candle(a, t, wick, side, hit, born)
  BY <1>a
<1> DEFINE winner == Winner(a, t, wick, hit)
<1>2. ProcessCandle(a, t, wick, side, hit, born, winner)
  BY <1>1 DEF Candle
<1> HIDE DEF winner
<1>3. /\ \A p \in born : ob[p].state = "UNBORN"
      /\ \A p \in OBs \ born : p \in Candidates(a) =>
             ob'[p] = UpdateCandidate(p, t, wick, side, winner)
      /\ \A p \in OBs \ born : p \notin Candidates(a) =>
             ob'[p] = IF ExitDue(a, t, hit) /\ p = active.ob
                      THEN Dead("TRADE_CLOSED") ELSE ob[p]
  BY <1>1, <1>2, PoolAfterCandle
<1>4. o \notin born
  BY <1>3 DEF Standing
<1>5. CASE o \in Candidates(a)
  <2>1. AssetOf[o] = a /\ ob[o].state = "LIMIT_RESTING" /\ Live(o)
    BY <1>5 DEF Candidates, Standing, Live, LiveStates
  <2>2. ob'[o].state = IF Dies(o, t, wick) THEN "INVALIDATED"
                       ELSE IF o = winner THEN "TRADE_ACTIVE" ELSE "LIMIT_RESTING"
    <3>1. ob'[o] = IF Dies(o, t, wick) THEN Dead("INVALIDATED")
                   ELSE IF o = winner THEN [ob[o] EXCEPT !.state = "TRADE_ACTIVE"] ELSE ob[o]
      BY <1>3, <1>4, <1>5, <2>1 DEF UpdateCandidate
    <3>2. Dead("INVALIDATED").state = "INVALIDATED"
      BY DEF Dead, Unborn
    <3>3. [ob[o] EXCEPT !.state = "TRADE_ACTIVE"].state = "TRADE_ACTIVE"
      BY DEF TypeInv, OBRecords
    <3> QED
      BY <2>1, <3>1, <3>2, <3>3
  <2> QED
    BY <2>1, <2>2 DEF Invalidated
<1>6. CASE o \notin Candidates(a)
  <2>1. Dead("TRADE_CLOSED").state = "TRADE_CLOSED"
    BY DEF Dead, Unborn
  <2>2. ob'[o].state = "TRADE_CLOSED" \/ ob'[o] = ob[o]
    BY <1>3, <1>4, <1>6, <2>1
  <2> QED
    BY <2>2 DEF Standing
<1> QED
  BY <1>5, <1>6

\* A candle of a pair that had passed the last close does not raise, one that does not
\* raise marks its pair, and no close is forgotten.
LEMMA CandleMarks ==
    ASSUME ClockInv, NEW a \in Assets, ClosedCandle(a)
    PROVE  /\ \A b \in Assets : mark'[b] \in Nat /\ mark'[b] >= mark[b]
           /\ \/ lock'.closedAt = closedAt'
              \/ lock'.closedAt = lock.closedAt /\ closedAt' = closedAt
           /\ fault' = "none" => mark'[a] >= closedAt'
           /\ fault' # "none" => /\ lock.closedAt # closedAt
                                 /\ ~(mark[a] >= closedAt)
                                 /\ offered' = {}
           /\ \A o \in offered' : /\ o \in OBs /\ AssetOf[o] = a
                                  /\ ob'[o].state = "LIMIT_RESTING"
<1>a. PICK t \in Hours : \E wick, side : \E hit \in BOOLEAN : \E born \in Emissions(a, t) :
             Candle(a, t, wick, side, hit, born)
  BY CandleParts
<1>1. PICK wick, side, hit, born : hit \in BOOLEAN /\ Candle(a, t, wick, side, hit, born)
  BY <1>a
<1>2. /\ SlotInv /\ t \in Nat /\ t >= lastTs /\ t > mark[a]
      /\ lastTs \in Nat /\ closedAt \in Nat /\ closedAt <= lastTs
      /\ mark \in [Assets -> Nat] /\ lock.closedAt \in Nat
      /\ lock.closedAt <= closedAt
  BY <1>1 DEF ClockInv, ClockIsNewestMark, CandleInv, SlotInv, TypeInv, Hours, Candle,
              Admissible, LockKnowsNoMore
<1>3. /\ \/ fault' = "none" /\ Marked(a, t)
         \/ /\ fault' # "none" /\ mark' = mark /\ offered' = {}
            /\ t <= closedAt /\ ~LockRefuses(lock, t)
      /\ \A o \in offered' : /\ o \in OBs /\ AssetOf[o] = a
                             /\ ob'[o].state = "LIMIT_RESTING"
  BY <1>1, <1>2, CandleReports
<1>4. \/ Closing(a, t)
      \/ Filling(a, t, wick, Winner(a, t, wick, hit))
      \/ Idle(a, t)
  BY <1>1, <1>2, CandleOutcome
<1>5. \/ lock'.closedAt = t /\ closedAt' = t
      \/ lock'.closedAt = lock.closedAt /\ closedAt' = closedAt
  BY <1>4 DEF Closing, Filling, Idle
<1>6. CASE fault' = "none" /\ Marked(a, t)
  <2>1. mark'[a] = t /\ \A b \in Assets \ {a} : mark'[b] = mark[b]
    BY <1>2, <1>6 DEF Marked
  <2>2. \A b \in Assets : mark'[b] \in Nat /\ mark'[b] >= mark[b]
    BY <1>2, <2>1
  <2> QED
    BY <1>2, <1>3, <1>5, <1>6, <2>1, <2>2
<1>7. CASE fault' # "none" /\ mark' = mark /\ t <= closedAt /\ ~LockRefuses(lock, t)
  <2>1. \A b \in Assets : mark'[b] \in Nat /\ mark'[b] >= mark[b]
    BY <1>2, <1>7
  <2>2. ~(t <= lock.closedAt)
    BY <1>7 DEF LockRefuses
  <2> QED
    BY <1>2, <1>3, <1>5, <1>7, <2>1, <2>2
<1> QED
  BY <1>3, <1>6, <1>7

\* The first ready decision is one of them.
LEMMA FirstReadyIsReady ==
    ASSUME TypeInv, NEW ready \in SUBSET OBs, ready # {}
    PROVE  FirstReady(ready) \in ready
<1>1. \E o \in ready : \A p \in ready \ {o} : ~Earlier(p, o)
  BY FirstExists
<1>2. FirstReady(ready) = CHOOSE o \in ready : \A p \in ready \ {o} : ~Earlier(p, o)
  BY DEF FirstReady
<1> QED
  BY <1>1, <1>2

-----------------------------------------------------------------------------
(* The tasks.                                                              *)

\* A task that ends leaves the others, each as it was.
LEMMA FinishKeepsOthers ==
    ASSUME DeskTyped, NEW i \in 1..Len(tasks)
    PROVE  /\ Finish(i) \in Seq(Tasks)
           /\ \A k \in 1..Len(Finish(i)) :
                  \E j \in 1..Len(tasks) : j # i /\ Finish(i)[k] = tasks[j]
           /\ \A j \in 1..Len(tasks) : j # i =>
                  \E k \in 1..Len(Finish(i)) : Finish(i)[k] = tasks[j]
<1> DEFINE n == Len(tasks)
<1>1. n \in Nat /\ i \in Nat /\ 1 <= i /\ i <= n /\ \A j \in 1..n : tasks[j] \in Tasks
  BY DEF DeskTyped
<1>2. Finish(i) = [j \in 1..(n - 1) |-> IF j < i THEN tasks[j] ELSE tasks[j + 1]]
  BY DEF Finish
<1> HIDE DEF n
<1>3. \A k \in 1..(n - 1) : Finish(i)[k] = tasks[IF k < i THEN k ELSE k + 1]
  BY <1>1, <1>2
<1>4. n - 1 \in Nat
  BY <1>1
<1>5. \A k \in 1..(n - 1) : (IF k < i THEN k ELSE k + 1) \in (1..n) \ {i}
  BY <1>1
<1>6. Finish(i) \in Seq(Tasks) /\ Len(Finish(i)) = n - 1
  BY <1>1, <1>2, <1>3, <1>4, <1>5
<1>7. ASSUME NEW j \in 1..n, j # i
      PROVE  \E k \in 1..(n - 1) : Finish(i)[k] = tasks[j]
  <2> DEFINE k == IF j < i THEN j ELSE j - 1
  <2>1. k \in 1..(n - 1) /\ (IF k < i THEN k ELSE k + 1) = j
    BY <1>1, <1>7
  <2>2. Finish(i)[k] = tasks[j]
    BY <1>3, <2>1
  <2> QED
    BY <2>1, <2>2
<1> QED
  BY <1>3, <1>5, <1>6, <1>7 DEF n

\* What a step that ends a task, or takes its expiries off it, leaves of the tasks.
TasksAfter(i) ==
    /\ tasks' \in Seq(Tasks)
    /\ \A k \in 1..Len(tasks') :
           \/ \E j \in 1..Len(tasks) : tasks'[k] = tasks[j]
           \/ tasks'[k].dead = {} /\ tasks'[k].pick = tasks[i].pick
              /\ tasks[i].pick # NoOB
    /\ \A j \in 1..Len(tasks) : j # i =>
           \E k \in 1..Len(tasks') : tasks'[k] = tasks[j]

\* Ending a task, or doing its first part, leaves the others as they were.
LEMMA TasksAfterStep ==
    ASSUME DeskTyped, NEW i \in 1..Len(tasks), tasks' = Finish(i) \/ tasks' = GoOn(i)
    PROVE  TasksAfter(i)
<1>1. CASE tasks' = Finish(i)
  BY <1>1, FinishKeepsOthers DEF TasksAfter
<1>2. CASE tasks[i].pick # NoOB /\ tasks' = [tasks EXCEPT ![i].dead = {}]
  <2> DEFINE g == [tasks[i] EXCEPT !.dead = {}]
  <2>1. /\ tasks \in Seq(Tasks) /\ tasks[i] \in Tasks
    BY DEF DeskTyped
  <2>2. g \in Tasks /\ g.dead = {} /\ g.pick = tasks[i].pick
    BY <2>1 DEF Tasks
  <2>3. tasks' = [tasks EXCEPT ![i] = g]
    BY <1>2
  <2> HIDE DEF g
  <2>4. /\ tasks' \in Seq(Tasks) /\ Len(tasks') = Len(tasks)
        /\ tasks'[i] = g /\ \A j \in 1..Len(tasks) : j # i => tasks'[j] = tasks[j]
    BY <2>1, <2>2, <2>3
  <2> QED
    BY <1>2, <2>2, <2>4 DEF TasksAfter
<1> QED
  BY <1>1, <1>2 DEF GoOn

\* An entry that no task but i was to cancel stays wanted when i has had its say, and a
\* block stays past the last close.
LEMMA DeskAfterTask ==
    ASSUME DeskInv, NEW i \in 1..Len(tasks), TasksAfter(i), UNCHANGED <<vars, bound>>,
           entry' = entry, ~Cancelling(i)
    PROVE  DeskTyped' /\ EntryIsWanted' /\ OfferedAfterClose'
<1>1. DeskTyped'
  <2>1. \A k \in 1..Len(tasks') : tasks'[k].dead = {} => tasks'[k].pick # NoOB
    BY DEF DeskInv, DeskTyped, TasksAfter
  <2>2. bound
    BY DEF DeskInv, DeskTyped
  <2> QED
    BY <2>1, <2>2 DEF DeskInv, DeskTyped, TasksAfter
<1>2. EntryIsWanted'
  <2> SUFFICES ASSUME entry.state \in {"posting", "resting"}, ~Standing(entry.ob), ~entry.late
               PROVE  \E k \in 1..Len(tasks') : entry.ob \in tasks'[k].dead
    BY DEF EntryIsWanted, Standing, Cancelling, vars, lifecycle
  <2>1. PICK j \in 1..Len(tasks) : Cancelling(j)
    BY DEF DeskInv, EntryIsWanted
  <2>2. PICK k \in 1..Len(tasks') : tasks'[k] = tasks[j]
    BY <2>1 DEF TasksAfter
  <2> QED
    BY <2>1, <2>2 DEF Cancelling
<1>3. OfferedAfterClose'
  <2>1. \A k \in 1..Len(tasks') : \E j \in 1..Len(tasks) : tasks'[k].pick = tasks[j].pick
    BY DEF TasksAfter
  <2> QED
    BY <2>1 DEF DeskInv, OfferedAfterClose, PassedClose, vars, lifecycle, strategy
<1> QED
  BY <1>1, <1>2, <1>3

-----------------------------------------------------------------------------
(* One lemma per action.                                                   *)

\* An entry keeps its block when its state changes.
LEMMA EntryMoves ==
    ASSUME NEW e \in Entries, NEW s \in {"none", "posting", "resting", "open", "unresolved"}
    PROVE  /\ [e EXCEPT !.state = s] \in Entries
           /\ [e EXCEPT !.state = s].state = s
           /\ [e EXCEPT !.state = s].ob = e.ob
           /\ [e EXCEPT !.state = s].late = e.late
  BY DEF Entries

\* No entry is one without a block.
LEMMA NoEntryTyped ==
    NoEntry \in Entries /\ NoEntry.ob = NoOB /\ NoEntry.state = "none"
  BY DEF Entries, NoEntry

\* A candle that is reported leaves its report behind the other tasks.
LEMMA CallbackKeeps ==
    ASSUME DeskInv, NEW a \in Assets, CandleCallback(a)
    PROVE  DeskTyped' /\ EntryIsWanted' /\ OfferedAfterClose'
<1> USE ParametersAssumption
<1>1. /\ ClosedCandle(a) /\ ClockInv /\ TypeInv
      /\ entry' = entry /\ bound' = bound
      /\ tasks' = IF bound /\ fault' = "none" /\ AsksForSomething(Report)
                  THEN Append(tasks, Report) ELSE tasks
  BY DEF CandleCallback, DeskInv, ClockInv, CandleInv, SlotInv
<1>2. /\ \A b \in Assets : mark'[b] \in Nat /\ mark'[b] >= mark[b] /\ mark[b] \in Nat
      /\ closedAt \in Nat
      /\ \/ lock'.closedAt = closedAt'
         \/ lock'.closedAt = lock.closedAt /\ closedAt' = closedAt
      /\ fault' = "none" => mark'[a] >= closedAt'
      /\ fault' # "none" => lock.closedAt # closedAt /\ ~(mark[a] >= closedAt)
      /\ \A o \in offered' : o \in OBs /\ AssetOf[o] = a
  BY <1>1, CandleMarks DEF TypeInv
<1>3. ASSUME NEW o \in OBs \cup {NoOB}, PassedClose(o)
      PROVE  o # NoOB /\ lock'.closedAt # closedAt' => mark'[AssetOf[o]] >= closedAt'
  <2>1. o # NoOB => AssetOf[o] \in Assets
    OBVIOUS
  <2> QED
    BY <1>2, <1>3, <2>1 DEF PassedClose
<1>4. /\ Report.dead = Invalidated /\ Report.dead \subseteq OBs
      /\ Report.pick = NoOB \/ Report.pick \in offered'
      /\ Report \in Tasks
  <2>1. offered' \in SUBSET OBs
    BY <1>2
  <2>2. FirstReady(offered') = NoOB \/ FirstReady(offered') \in offered'
    <3>1. CASE offered' = {}
      BY <3>1 DEF FirstReady
    <3>2. CASE offered' # {}
      BY <1>1, <2>1, <3>2, FirstReadyIsReady
    <3> QED
      BY <3>1, <3>2
  <2> QED
    BY <2>1, <2>2 DEF Report, Invalidated, SupersededByFill, Tasks
<1>5. /\ tasks' \in Seq(Tasks) /\ tasks \in Seq(Tasks)
      /\ Len(tasks') >= Len(tasks) /\ Len(tasks) \in Nat /\ Len(tasks') \in Nat
      /\ \A j \in 1..Len(tasks) : tasks'[j] = tasks[j]
      /\ \A k \in 1..Len(tasks') : \/ k \in 1..Len(tasks)
                                   \/ /\ tasks'[k] = Report /\ fault' = "none" /\ bound
                                      /\ AsksForSomething(Report)
  <2>1. tasks \in Seq(Tasks)
    BY DEF DeskInv, DeskTyped
  <2>2. CASE tasks' = tasks
    BY <2>1, <2>2
  <2>3. CASE /\ tasks' = Append(tasks, Report) /\ fault' = "none" /\ bound
             /\ AsksForSomething(Report)
    <3>1. /\ tasks' \in Seq(Tasks) /\ Len(tasks') = Len(tasks) + 1
          /\ tasks'[Len(tasks) + 1] = Report
          /\ \A j \in 1..Len(tasks) : tasks'[j] = tasks[j]
      BY <1>4, <2>1, <2>3
    <3> QED
      BY <2>1, <2>3, <3>1
  <2> QED
    BY <1>1, <2>2, <2>3
<1>6. AsksForSomething(Report) => Report.dead # {} \/ Report.pick # NoOB
  BY DEF AsksForSomething
<1>7. DeskTyped'
  <2>1. \A k \in 1..Len(tasks') : tasks'[k].dead = {} => tasks'[k].pick # NoOB
    BY <1>5, <1>6 DEF DeskInv, DeskTyped
  <2>2. ~bound => tasks' = <<>> /\ entry = NoEntry
    BY <1>1 DEF DeskInv, DeskTyped
  <2> QED
    BY <1>1, <1>5, <2>1, <2>2 DEF DeskInv, DeskTyped
<1>8. OfferedAfterClose'
  <2>1. entry.ob \in OBs \cup {NoOB} /\ PassedClose(entry.ob)
    BY DEF DeskInv, DeskTyped, Entries, OfferedAfterClose
  <2>2. PassedClose(entry.ob)'
    BY <1>1, <1>3, <2>1 DEF PassedClose
  <2>3. ASSUME NEW k \in 1..Len(tasks') PROVE PassedClose(tasks[k].pick)'
    <3>1. CASE k \in 1..Len(tasks)
      <4>0. tasks[k] \in Tasks
        BY <1>5, <3>1
      <4>1. tasks[k].pick \in OBs \cup {NoOB} /\ PassedClose(tasks[k].pick)
        BY <3>1, <4>0 DEF DeskInv, Tasks, OfferedAfterClose
      <4>2. tasks'[k].pick = tasks[k].pick
        BY <1>5, <3>1
      <4> QED
        BY <1>3, <4>1, <4>2, Zenon DEF PassedClose
    <3>2. CASE tasks'[k] = Report /\ fault' = "none"
      <4>1. tasks'[k].pick # NoOB => AssetOf[tasks'[k].pick] = a
        BY <1>2, <1>4, <3>2
      <4> QED
        BY <1>2, <3>2, <4>1 DEF PassedClose
    <3> QED
      BY <1>5, <3>1, <3>2
  <2> QED
    BY <2>2, <2>3 DEF OfferedAfterClose
<1>9. EntryIsWanted'
  <2> SUFFICES ASSUME entry.state \in {"posting", "resting"}, ~entry.late,
                      ob'[entry.ob].state \notin {"LIMIT_RESTING", "TRADE_ACTIVE", "TRADE_CLOSED"}
               PROVE  \E k \in 1..Len(tasks') : entry.ob \in tasks'[k].dead
    BY <1>1 DEF EntryIsWanted, Standing, Cancelling
  <2>1. entry.ob \in OBs /\ bound
    BY DEF DeskInv, DeskTyped, Entries, NoEntry
  <2>2. CASE \E j \in 1..Len(tasks) : Cancelling(j)
    BY <1>5, <2>2 DEF Cancelling
  <2>3. CASE Standing(entry.ob)
    <3>1. entry.ob \in Invalidated /\ AssetOf[entry.ob] = a
      BY <1>1, <2>1, <2>3, WantedOrInvalidated
    <3>2. PassedClose(entry.ob)
      BY DEF DeskInv, OfferedAfterClose
    <3>3. fault' = "none"
      BY <1>2, <2>1, <3>1, <3>2 DEF PassedClose
    <3>4. tasks' = Append(tasks, Report)
      <4>1. Report.dead # {}
        BY <1>4, <3>1
      <4>2. AsksForSomething(Report)
        BY <4>1 DEF AsksForSomething
      <4> QED
        BY <1>1, <2>1, <3>3, <4>2
    <3>5. Len(tasks) + 1 \in 1..Len(tasks') /\ tasks'[Len(tasks) + 1] = Report
      BY <1>4, <1>5, <3>4
    <3> QED
      BY <1>4, <3>1, <3>5
  <2> QED
    BY <2>2, <2>3 DEF DeskInv, EntryIsWanted
<1> QED
  BY <1>7, <1>8, <1>9

\* The verdict on a cancellation never leaves the entry resting, and a task without
\* the entry among its dead does not touch it.
LEMMA CancelKeeps ==
    ASSUME DeskInv, NEW i \in 1..Len(tasks), CancelExpiredEntries(i)
    PROVE  DeskTyped' /\ EntryIsWanted' /\ OfferedAfterClose'
<1>1. /\ TasksAfter(i) /\ UNCHANGED <<vars, bound>>
      /\ entry' \in IF Cancelling(i) THEN ExpiryVerdicts(entry) ELSE {entry}
  BY TasksAfterStep DEF CancelExpiredEntries, CancelExpired, DeskInv
<1>2. CASE ~Cancelling(i)
  BY <1>1, <1>2, DeskAfterTask
<1>3. CASE Cancelling(i)
  <2>1. entry \in Entries /\ bound /\ entry.ob \in OBs \cup {NoOB}
    BY DEF DeskInv, DeskTyped, Entries
  <2>2. entry' \in {entry, NoEntry, [entry EXCEPT !.state = "open"],
                    [entry EXCEPT !.state = "unresolved"]}
        /\ (entry' = entry => entry.state \notin {"posting", "resting"})
    BY <1>1, <1>3, <2>1 DEF ExpiryVerdicts, Entries, NoEntry
  <2>3. /\ entry' \in Entries /\ entry'.state \notin {"posting", "resting"}
        /\ entry'.ob \in {NoOB, entry.ob}
    <3>1. CASE entry' = [entry EXCEPT !.state = "open"]
      BY <2>1, <3>1, EntryMoves
    <3>2. CASE entry' = [entry EXCEPT !.state = "unresolved"]
      BY <2>1, <3>2, EntryMoves
    <3>3. CASE entry' = NoEntry
      BY <3>3, NoEntryTyped
    <3>4. CASE entry' = entry
      BY <2>1, <2>2, <3>4
    <3> QED
      BY <2>2, <3>1, <3>2, <3>3, <3>4
  <2>4. EntryIsWanted'
    BY <2>3 DEF EntryIsWanted
  <2>5. DeskTyped'
    <3>1. \A k \in 1..Len(tasks') : tasks'[k].dead = {} => tasks'[k].pick # NoOB
      BY <1>1 DEF DeskInv, DeskTyped, TasksAfter
    <3> QED
      BY <1>1, <2>1, <2>3, <3>1 DEF DeskTyped, TasksAfter
  <2>6. OfferedAfterClose'
    <3>1. \A k \in 1..Len(tasks') : \E j \in 1..Len(tasks) : tasks'[k].pick = tasks[j].pick
      BY <1>1 DEF TasksAfter
    <3> QED
      BY <1>1, <2>3, <3>1
         DEF DeskInv, OfferedAfterClose, PassedClose, vars, lifecycle, strategy
  <2> QED
    BY <2>4, <2>5, <2>6
<1> QED
  BY <1>2, <1>3

\* A decision that is sent was wanted when it was sent, or dies in a task to come, or is
\* known to be late.
LEMMA ScanKeeps ==
    ASSUME DeskInv, NEW i \in 1..Len(tasks), ScanAndExecute(i)
    PROVE  DeskTyped' /\ EntryIsWanted' /\ OfferedAfterClose'
<1> USE ParametersAssumption
<1> DEFINE o == tasks[i].pick
           late == /\ ob[o].state # "LIMIT_RESTING"
                   /\ \A j \in 1..Len(tasks) : o \notin tasks[j].dead
           sent == [ob |-> o, state |-> "posting", late |-> late]
<1>1. /\ TasksAfter(i) /\ UNCHANGED <<vars, bound>> /\ tasks[i].dead = {}
      /\ entry' \in IF entry = NoEntry THEN {sent, entry} ELSE {entry}
  BY TasksAfterStep DEF ScanAndExecute, DeskInv
<1>2. ~Cancelling(i)
  BY <1>1 DEF Cancelling
<1>3. CASE entry' = entry
  BY <1>1, <1>2, <1>3, DeskAfterTask
<1>4. CASE entry' = sent
  <2>0. tasks[i] \in Tasks
    BY DEF DeskInv, DeskTyped
  <2>1. o \in OBs /\ PassedClose(o) /\ bound
    BY <1>1, <2>0 DEF DeskInv, DeskTyped, Tasks, OfferedAfterClose
  <2>2. late \in BOOLEAN
    OBVIOUS
  <2>3. /\ entry' \in Entries /\ entry'.ob = o /\ entry'.late = late
        /\ entry'.state = "posting"
    BY <1>4, <2>1, <2>2 DEF Entries
  <2>4. DeskTyped'
    <3> HIDE DEF late, sent
    <3>1. \A k \in 1..Len(tasks') : tasks'[k].dead = {} => tasks'[k].pick # NoOB
      <4>1. \A j \in 1..Len(tasks) : tasks[j].dead = {} => tasks[j].pick # NoOB
        BY DEF DeskInv, DeskTyped
      <4> QED
        BY <1>1, <4>1 DEF TasksAfter
    <3>2. entry' \in Entries /\ entry'.ob # NoOB /\ bound' /\ bound' \in BOOLEAN
      BY <1>1, <2>1, <2>3 DEF DeskInv, DeskTyped
    <3> QED
      BY <1>1, <3>1, <3>2 DEF DeskTyped, TasksAfter
  <2>5. OfferedAfterClose'
    <3>1. \A k \in 1..Len(tasks') : \E j \in 1..Len(tasks) : tasks'[k].pick = tasks[j].pick
      BY <1>1 DEF TasksAfter
    <3> QED
      BY <1>1, <2>1, <2>3, <3>1
         DEF DeskInv, OfferedAfterClose, PassedClose, vars, lifecycle, strategy
  <2>6. EntryIsWanted'
    <3>1. CASE late
      BY <2>3, <3>1 DEF EntryIsWanted
    <3>2. CASE ob[o].state = "LIMIT_RESTING"
      BY <1>1, <2>3, <3>2 DEF EntryIsWanted, Standing, vars, lifecycle
    <3>3. CASE \E j \in 1..Len(tasks) : o \in tasks[j].dead
      <4>1. PICK j \in 1..Len(tasks) : o \in tasks[j].dead
        BY <3>3
      <4>2. PICK k \in 1..Len(tasks') : tasks'[k] = tasks[j]
        BY <1>1, <4>1 DEF TasksAfter
      <4> QED
        BY <2>3, <4>1, <4>2 DEF EntryIsWanted, Cancelling
    <3> QED
      BY <3>1, <3>2, <3>3
  <2> QED
    BY <2>4, <2>5, <2>6
<1> QED
  BY <1>1, <1>3, <1>4

\* The exchange makes a resting entry only of one that was on its way.
LEMMA ExchangeKeeps ==
    ASSUME DeskInv, SubmissionReturns \/ ExchangeMoves
    PROVE  DeskTyped' /\ EntryIsWanted' /\ OfferedAfterClose'
<1>1. entry \in Entries /\ UNCHANGED <<vars, bound, tasks>>
  BY DEF DeskInv, DeskTyped, SubmissionReturns, ExchangeMoves
<1>2. /\ entry' \in Entries
      /\ ~bound => entry' = NoEntry
      /\ entry'.ob = NoOB \/ (entry'.ob = entry.ob /\ entry'.late = entry.late)
      /\ entry'.state \in {"posting", "resting"} =>
             /\ entry.state = "posting"
             /\ entry'.ob = entry.ob /\ entry'.late = entry.late
  <2>1. ~bound => entry = NoEntry
    BY DEF DeskInv, DeskTyped
  <2>2. CASE entry' = NoEntry
    BY <2>2, NoEntryTyped
  <2>3. ASSUME NEW s \in {"resting", "open", "unresolved"}, entry' = [entry EXCEPT !.state = s],
               entry.state \in {"posting", "resting", "unresolved"},
               s = "resting" => entry.state = "posting"
        PROVE  /\ entry' \in Entries /\ bound
               /\ entry'.ob = entry.ob /\ entry'.late = entry.late
               /\ entry'.state \in {"posting", "resting"} => entry.state = "posting"
    <3>1. s \in {"none", "posting", "resting", "open", "unresolved"}
      OBVIOUS
    <3>2. /\ entry' \in Entries /\ entry'.state = s
          /\ entry'.ob = entry.ob /\ entry'.late = entry.late
      BY <1>1, <2>3, <3>1, EntryMoves
    <3>3. bound
      BY <2>1, <2>3, NoEntryTyped
    <3> QED
      BY <2>3, <3>2, <3>3
  <2> QED
    BY <2>2, <2>3 DEF SubmissionReturns, ExchangeMoves
<1>3. DeskTyped'
  BY <1>1, <1>2 DEF DeskInv, DeskTyped
<1>4. EntryIsWanted'
  BY <1>1, <1>2 DEF DeskInv, EntryIsWanted, Standing, Cancelling, vars, lifecycle
<1>5. OfferedAfterClose'
  BY <1>1, <1>2 DEF DeskInv, OfferedAfterClose, PassedClose, vars, lifecycle, strategy
<1> QED
  BY <1>3, <1>4, <1>5

\* A restart leaves neither tasks nor an entry in memory.
LEMMA RestartKeeps ==
    ASSUME DeskInv, Restart
    PROVE  DeskTyped' /\ EntryIsWanted' /\ OfferedAfterClose'
<1>1. tasks' = <<>> /\ entry' = NoEntry /\ bound' = bound /\ bound \in BOOLEAN
  BY DEF Restart, DeskInv, DeskTyped
<1>2. /\ Len(tasks') = 0 /\ tasks' \in Seq(Tasks)
      /\ entry' \in Entries /\ entry'.ob = NoOB /\ entry'.state = "none"
  BY <1>1 DEF NoEntry, Entries
<1>3. 1..Len(tasks') = {}
  BY <1>2
<1> QED
  BY <1>1, <1>2, <1>3 DEF DeskTyped, EntryIsWanted, OfferedAfterClose, PassedClose

-----------------------------------------------------------------------------
(* The theorem.                                                            *)

\* A process starts with neither.
LEMMA DeskInitially == SubmitInit => DeskInv
<1> SUFFICES ASSUME SubmitInit PROVE DeskInv
  OBVIOUS
<1>1. ClockInv
  BY ClockInitially DEF SubmitInit
<1>2. tasks = <<>> /\ entry = NoEntry /\ bound \in BOOLEAN
  BY DEF SubmitInit
<1>3. /\ Len(tasks) = 0 /\ tasks \in Seq(Tasks)
      /\ entry \in Entries /\ entry.ob = NoOB /\ entry.state = "none"
  BY <1>2 DEF NoEntry, Entries
<1>4. 1..Len(tasks) = {}
  BY <1>3
<1> QED
  BY <1>1, <1>2, <1>3, <1>4
     DEF DeskInv, DeskTyped, EntryIsWanted, OfferedAfterClose, PassedClose

\* Every step of the feed callback, of a task, of the exchange or of a restart keeps it.
LEMMA DeskSteps == DeskInv /\ [SubmitNext]_<<vars, desk>> => DeskInv'
<1> SUFFICES ASSUME DeskInv, [SubmitNext]_<<vars, desk>> PROVE DeskInv'
  OBVIOUS
<1>1. ClockInv'
  BY ClockSteps, SubmissionStep DEF DeskInv
<1>2. CASE UNCHANGED <<vars, desk>>
  <2>1. UNCHANGED <<vars, bound, tasks, entry>>
    BY <1>2 DEF desk
  <2> QED
    BY <1>1, <2>1 DEF DeskInv, DeskTyped, EntryIsWanted, OfferedAfterClose, PassedClose,
                      Standing, Cancelling, vars, lifecycle, strategy
<1>3. CASE \E a \in Assets : CandleCallback(a)
  BY <1>1, <1>3, CallbackKeeps DEF DeskInv
<1>4. CASE \E i \in 1..Len(tasks) : CancelExpiredEntries(i)
  BY <1>1, <1>4, CancelKeeps DEF DeskInv
<1>5. CASE \E i \in 1..Len(tasks) : ScanAndExecute(i)
  BY <1>1, <1>5, ScanKeeps DEF DeskInv
<1>6. CASE SubmissionReturns \/ ExchangeMoves
  BY <1>1, <1>6, ExchangeKeeps DEF DeskInv
<1>7. CASE LeftOrderEnds
  BY <1>1, <1>7 DEF LeftOrderEnds, DeskInv, DeskTyped, EntryIsWanted, OfferedAfterClose,
                    PassedClose, Standing, Cancelling, vars, lifecycle, strategy
<1>8. CASE Restart
  BY <1>1, <1>8, RestartKeeps DEF DeskInv
<1> QED
  BY <1>2, <1>3, <1>4, <1>5, <1>6, <1>7, <1>8 DEF SubmitNext

\* An entry that rests at the exchange is one the strategy wants, unless a task that will
\* cancel it is on its way, whatever burst of candles arrives while tasks wait, however
\* often the process restarts and whichever candle raises; but for the holes the
\* property names.
THEOREM RestingIsWanted == SubmitSpec => []RestingEntriesAreWanted
<1>1. DeskInv => RestingEntriesAreWanted
  <2> SUFFICES ASSUME DeskInv, entry.state = "resting",
                      \A i \in 1..Len(tasks) : ~Cancelling(i), ~RestsUnwanted(entry)
               PROVE  Wanted(entry.ob)
    BY DEF RestingEntriesAreWanted
  <2>1. Standing(entry.ob) /\ entry.ob # NoOB
    BY DEF DeskInv, DeskTyped, EntryIsWanted, RestsUnwanted
  <2>2. ob[entry.ob].state = "LIMIT_RESTING" => active.ob \in {NoOB, entry.ob}
    BY DEF RestsUnwanted, Superseded
  <2>3. active.ob = entry.ob => ob[entry.ob].state = "TRADE_ACTIVE"
    BY <2>1 DEF DeskInv, ClockInv, CandleInv, SlotInv, SlotMirrorsTrade
  <2> QED
    BY <2>1, <2>2, <2>3 DEF RestsUnwanted, Wanted, Standing
<1> QED
  BY DeskInitially, DeskSteps, <1>1, PTL DEF SubmitSpec
=============================================================================
