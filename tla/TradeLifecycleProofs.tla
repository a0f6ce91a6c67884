------------------------ MODULE TradeLifecycleProofs ------------------------
(***************************************************************************)
(* Theorems about TradeLifecycle, for every set of setups and tasks, every *)
(* assignment of duties, every entry quantity and every network, with and  *)
(* without overlapping calls.                                              *)
(*                                                                         *)
(* The manager's actions are long but disturb the invariants in few ways.  *)
(* "Managed" says what nearly every one of them does to the record, the    *)
(* frames and the slot; each action is shown to be Managed once, and a     *)
(* Managed step preserves both invariants.  Submission, its rejection and  *)
(* the exchange's own steps are treated one by one.                        *)
(***************************************************************************)
EXTENDS TradeLifecycle, TLAPS

-----------------------------------------------------------------------------
(* The strengthened type invariant *)

\* Order ids that the exchange has given out.
Placed == {i \in LegIds : leg[i].st # "free"}

\* A frame at one of these works for a setup; at the second, on a known leg.
SetupPcs == {"post", "cancel", "verify", "echo", "openOrders", "place",
             "expCancel", "expGet", "balance", "closing", "closeCancel",
             "closeVerify", "killCancel", "killVerify", "recGet", "recCheck",
             "recDone"}
LegPcs == {"cancel", "verify", "closeCancel", "closeVerify"}

GoodRecords ==
    {r \in Records : r.sl \in Placed \cup {0} /\ r.tp \in Placed \cup {0}}

GoodFrames ==
    {f \in Frames :
        /\ f.pc \in SetupPcs \/ f.then \in {"recCheck", "recDone"} => f.s \in Setups
        /\ f.pc \in LegPcs \/ (f.pc = "place" /\ f.reply = "ok") => f.oid \in Placed
        /\ f.seen \subseteq Placed}

GoodOrders ==
    {o \in Orders : o.pos <= o.got /\ (o.entry = "open" => o.got < Qty)}

TypeInv ==
    /\ active \in SUBSET Setups
    /\ rec \in [Setups -> GoodRecords]
    /\ owner \in Setups \cup {NoOne}
    /\ mutex \in Tasks \cup {NoOne}
    /\ hung \in BOOLEAN
    /\ alerts \in BOOLEAN
    /\ killSwitch \in BOOLEAN
    /\ frame \in [Tasks -> GoodFrames]
    /\ survey \in Surveys
    /\ ex \in [Setups -> GoodOrders]
    /\ leg \in [LegIds -> Legs]

\* Zero and the requested quantity are amounts; leg ids are ids.
LEMMA Bounds ==
    /\ 0 \in Amounts /\ Qty \in Amounts
    /\ 0 \in 0..MaxLegs /\ LegIds \subseteq 0..MaxLegs
    /\ Amounts \subseteq Nat
  BY ConstantsAssumption DEF Amounts, LegIds

\* The larger of two observed fills is an amount.
LEMMA LargerBound ==
    ASSUME NEW m \in Amounts, NEW n \in Amounts
    PROVE  Larger(m, n) \in Amounts
  BY DEF Larger

\* A task that is not in a call has a well-formed frame.
LEMMA IdleIsGood == IdleFrame \in GoodFrames
  BY Bounds DEF IdleFrame, GoodFrames, Frames, Roles, Replies, SetupPcs, LegPcs

\* The record of a setup never executed is well formed.
LEMMA NewIsGood == NewRecord \in GoodRecords
  BY Bounds DEF NewRecord, GoodRecords, Records, States

\* The initial state satisfies the strengthened type invariant.
LEMMA InitTyped == Init => TypeInv
  <1> SUFFICES ASSUME Init PROVE TypeInv
    OBVIOUS
  <1>1. rec \in [Setups -> GoodRecords]
    BY NewIsGood DEF Init
  <1>2. frame \in [Tasks -> GoodFrames]
    BY IdleIsGood DEF Init
  <1>3. survey \in Surveys
    BY Bounds DEF Init, NoSurvey, Surveys
  <1>4. ex \in [Setups -> GoodOrders]
    BY ConstantsAssumption DEF Init, GoodOrders, Orders, Amounts
  <1>5. leg \in [LegIds -> Legs]
    BY Bounds DEF Init, NoLeg, Legs, Roles
  <1> QED
    BY <1>1, <1>2, <1>3, <1>4, <1>5 DEF Init, TypeInv

\* The strengthened type invariant implies the checked one.
LEMMA TypeInvSuffices == TypeInv => TypeOK
  BY DEF TypeInv, TypeOK, GoodRecords, GoodFrames, GoodOrders

-----------------------------------------------------------------------------
(* What a step of the manager does *)

\* The record stays well formed and no record becomes unused again.
RecEffect ==
    /\ rec' \in [Setups -> GoodRecords]
    /\ \A s \in Setups : rec'[s].state = "NONE" => rec[s].state = "NONE"

\* The frames stay well formed and no task starts to submit an entry.
FrameEffect ==
    /\ frame' \in [Tasks -> GoodFrames]
    /\ \A u \in Tasks : frame'[u].pc = "post" => frame'[u] = frame[u]

\* Nothing is admitted; a trade that stays active keeps the lock it holds.
SlotEffect ==
    /\ active' \subseteq active
    /\ owner' \in {owner, NoOne}
    /\ \A s \in active' : owner = s => owner' = s

Managed ==
    /\ RecEffect
    /\ FrameEffect
    /\ SlotEffect
    /\ mutex' \in Tasks \cup {NoOne}
    /\ hung' \in BOOLEAN
    /\ alerts' \in BOOLEAN
    /\ killSwitch' \in BOOLEAN
    /\ survey' \in Surveys
    /\ UNCHANGED exchangeVars

\* A Managed step preserves the strengthened type invariant.
LEMMA ManagedTyped ==
    ASSUME TypeInv, Managed
    PROVE  TypeInv'
  <1>1. UNCHANGED <<ex, leg>> /\ Placed' = Placed
    BY DEF Managed, exchangeVars, Placed
  <1>2. GoodRecords' = GoodRecords /\ GoodFrames' = GoodFrames
    BY <1>1 DEF GoodRecords, GoodFrames
  <1> QED
    BY <1>1, <1>2 DEF TypeInv, Managed, RecEffect, FrameEffect, SlotEffect

\* Frames a task may suspend with, other than to submit an entry.
Requests ==
    {f \in Frames :
        /\ f.pc # "post"
        /\ f.pc \in SetupPcs \/ f.then \in {"recCheck", "recDone"} => f.s \in Setups
        /\ f.pc \in LegPcs => f.oid \in Placed}

\* Leaving the records alone is a RecEffect.
LEMMA SameRec ==
    ASSUME TypeInv, UNCHANGED rec
    PROVE  RecEffect
  BY DEF TypeInv, RecEffect

\* So is writing one well-formed record that is not reset.
LEMMA SetRecGood ==
    ASSUME TypeInv, NEW s \in Setups, NEW r \in GoodRecords, SetRec(s, r),
           r.state = "NONE" => rec[s].state = "NONE"
    PROVE  RecEffect
  BY DEF TypeInv, SetRec, RecEffect

\* Leaving the frames alone is a FrameEffect.
LEMMA SameFrame ==
    ASSUME TypeInv, UNCHANGED frame
    PROVE  FrameEffect
  BY DEF TypeInv, FrameEffect

\* So is moving one task to a well-formed frame that is not a submission,
LEMMA StepGood ==
    ASSUME TypeInv, NEW t \in Tasks, NEW f \in GoodFrames, f.pc # "post", Step(t, f)
    PROVE  FrameEffect
  BY DEF TypeInv, Step, FrameEffect

\* ending its call,
LEMMA StopGood ==
    ASSUME TypeInv, NEW t \in Tasks, Stop(t)
    PROVE  FrameEffect
  <1>1. IdleFrame.pc # "post"
    BY DEF IdleFrame
  <1> QED
    BY <1>1, IdleIsGood, StepGood DEF Stop

\* or suspending it at a request.
LEMMA AwaitGood ==
    ASSUME TypeInv, NEW t \in Tasks, NEW f \in Requests, Await(t, f)
    PROVE  FrameEffect
  <1> DEFINE g == [f EXCEPT !.reply = "wait", !.amt = 0, !.seen = {}]
  <1>1. /\ g \in Frames
        /\ g.reply = "wait" /\ g.seen = {}
        /\ g.s = f.s /\ g.pc = f.pc /\ g.oid = f.oid /\ g.then = f.then
    BY Bounds DEF Requests, Frames, Replies
  <1>2. g \in GoodFrames /\ g.pc # "post"
    BY <1>1 DEF GoodFrames, Requests
  <1> HIDE DEF g
  <1>3. Step(t, g)
    BY DEF Await, g
  <1> QED
    BY <1>2, <1>3, StepGood

\* Where a fill observation returns to is well formed.
LEMMA BackGood ==
    ASSUME NEW f \in Frames, f.s \in Setups
    PROVE  Back(f) \in GoodFrames /\ Back(f).pc # "post"
  BY IdleIsGood DEF Back, IdleFrame, GoodFrames, Frames, LoopPcs, SetupPcs, LegPcs

-----------------------------------------------------------------------------
(* Protection *)

\* A record may take the id of a leg the exchange gave out.
LEMMA SetLegGood ==
    ASSUME NEW r \in GoodRecords, NEW role \in Roles, NEW i \in Placed \cup {0}
    PROVE  /\ [r EXCEPT ![role] = i] \in GoodRecords
           /\ [r EXCEPT ![role] = i].state = r.state
  BY Bounds DEF GoodRecords, Records, Roles, Placed

\* _adopt_exchange_attached_bracket starts with a well-formed request,
LEMMA AdoptOrPlaceGood ==
    ASSUME NEW f \in Frames, f.s \in Setups, NEW r
    PROVE  AdoptOrPlace(f, r) \in Requests
  <1>1. \A pc \in {"echo", "place"} :
            [f EXCEPT !.pc = pc, !.role = "sl"] \in Requests
    BY DEF Requests, Frames, AwaitPcs, Roles, LegPcs
  <1> QED
    BY <1>1 DEF AdoptOrPlace

\* and the cancel of a tracked leg names a leg that exists.
LEMMA CancelLegOfGood ==
    ASSUME NEW f \in Frames, f.s \in Setups, NEW r \in GoodRecords,
           NEW role \in Roles, r[role] # 0
    PROVE  CancelLegOf(f, r, role) \in Requests
  <1>1. r[role] \in Placed /\ r[role] \in 0..MaxLegs
    BY DEF GoodRecords, Records, Roles
  <1> QED
    BY <1>1 DEF CancelLegOf, Requests, Frames, AwaitPcs, Roles

\* The start of _ensure_bracket_protection, for any size.
LEMMA BeginProtectionGood ==
    ASSUME TypeInv, NEW t \in Tasks, NEW f \in Frames, f.s \in Setups,
           NEW r \in GoodRecords, NEW goal \in Amounts,
           BeginProtection(t, f, r, goal)
    PROVE  RecEffect /\ FrameEffect
  <1> DEFINE g == [f EXCEPT !.goal = goal, !.stale = FALSE]
             p == [r EXCEPT !.state = "PROTECTION_PENDING"]
             role == IF r.sl # 0 THEN "sl" ELSE "tp"
             direct == r.protected = goal \/ (r.sl = 0 /\ r.tp = 0)
  <1>1. g \in Frames /\ g.s \in Setups
    BY DEF Frames
  <1>2. p \in GoodRecords /\ p.state # "NONE"
    BY DEF GoodRecords, Records, States
  <1>3. role \in Roles /\ (~direct => r[role] # 0)
    BY DEF Roles
  <1> HIDE DEF g, p, role, direct
  <1>4. /\ SetRec(f.s, p)
        /\ Await(t, IF direct THEN AdoptOrPlace(g, r) ELSE CancelLegOf(g, r, role))
    BY DEF BeginProtection, g, p, role, direct
  <1>5. RecEffect
    BY <1>2, <1>4, SetRecGood
  <1>6. AdoptOrPlace(g, r) \in Requests
    BY <1>1, AdoptOrPlaceGood
  <1>7. ~direct => CancelLegOf(g, r, role) \in Requests
    BY <1>1, <1>3, CancelLegOfGood
  <1>8. FrameEffect
    BY <1>4, <1>6, <1>7, AwaitGood
  <1> QED
    BY <1>5, <1>8

\* The return of a fill handler with any well-formed record.
LEMMA ReturnGood ==
    ASSUME TypeInv, NEW t \in Tasks, NEW f \in Frames, f.s \in Setups,
           NEW r \in GoodRecords, r.state = "NONE" => rec[f.s].state = "NONE",
           Return(t, f, r)
    PROVE  RecEffect /\ FrameEffect /\ alerts' \in BOOLEAN
  <1>1. RecEffect
    BY SetRecGood DEF Return
  <1>2. FrameEffect
    BY BackGood, StepGood DEF Return
  <1>3. alerts' \in BOOLEAN
    BY DEF Return, TypeInv
  <1> QED
    BY <1>1, <1>2, <1>3

\* on_entry_fill and on_entry_partial_fill, for any observed size.
LEMMA OnFillGood ==
    ASSUME TypeInv, NEW t \in Tasks, NEW f \in Frames, f.s \in Setups,
           NEW r \in GoodRecords, r.state = "NONE" => rec[f.s].state = "NONE",
           NEW size \in Amounts, NEW full \in BOOLEAN,
           OnFill(t, f, r, size, full)
    PROVE  RecEffect /\ FrameEffect /\ alerts' \in BOOLEAN
  <1> DEFINE known == Larger(r.filled, size)
             now == [r EXCEPT !.filled = known,
                              !.state = IF full THEN "ENTRY_FILLED"
                                        ELSE "ENTRY_PARTIALLY_FILLED"]
  <1>1. known \in Amounts
    BY LargerBound DEF GoodRecords, Records
  <1>2. now \in GoodRecords /\ now.state # "NONE"
    <2> HIDE DEF known
    <2> QED
      BY <1>1 DEF GoodRecords, Records, States, RestingStates
  <1>3. \/ Return(t, f, r)
        \/ Return(t, f, now)
        \/ BeginProtection(t, f, now, known) /\ UNCHANGED alerts
    BY DEF OnFill
  <1> HIDE DEF known, now
  <1>4. CASE Return(t, f, r)
    BY <1>4, ReturnGood
  <1>5. CASE Return(t, f, now)
    BY <1>2, <1>5, ReturnGood
  <1>6. CASE BeginProtection(t, f, now, known) /\ UNCHANGED alerts
    BY <1>1, <1>2, <1>6, BeginProtectionGood DEF TypeInv
  <1> QED
    BY <1>3, <1>4, <1>5, <1>6

\* Leaving the active trades and the lock alone is a SlotEffect.
LEMMA SameSlot ==
    ASSUME TypeInv, UNCHANGED <<active, owner>>
    PROVE  SlotEffect
  BY DEF TypeInv, SlotEffect

\* _archive_and_release takes the lock only from the trade it archives.
LEMMA FinalizeGood ==
    ASSUME TypeInv, NEW s \in Setups, NEW r \in GoodRecords,
           NEW state \in States \ {"NONE"}, Finalize(s, r, state)
    PROVE  RecEffect /\ SlotEffect
  <1>1. [r EXCEPT !.state = state] \in GoodRecords
        /\ [r EXCEPT !.state = state].state # "NONE"
    BY DEF GoodRecords, Records
  <1>2. RecEffect
    BY <1>1, SetRecGood DEF Finalize
  <1>3. SlotEffect
    BY DEF Finalize, Release, SlotEffect, TypeInv
  <1> QED
    BY <1>2, <1>3

\* _apply_entry_order_state, whatever was observed of the entry.
LEMMA ApplyEntryGood ==
    ASSUME TypeInv, NEW t \in Tasks, NEW f \in Frames, f.s \in Setups,
           NEW r \in GoodRecords, r.state = "NONE" => rec[f.s].state = "NONE",
           NEW status, NEW size \in Amounts,
           ApplyEntry(t, f, r, status, size)
    PROVE  RecEffect /\ FrameEffect /\ SlotEffect /\ alerts' \in BOOLEAN
  <1> DEFINE known == Larger(size, r.filled)
             full == status = "filled" \/ known >= Qty
  <1>1. known \in Amounts /\ full \in BOOLEAN
    BY LargerBound DEF GoodRecords, Records
  <1> HIDE DEF known, full
  <1>2. \/ SetRec(f.s, r) /\ Step(t, Back(f)) /\ UNCHANGED <<active, owner, alerts>>
        \/ /\ Finalize(f.s, r, "ENTRY_CANCELLED")
           /\ Step(t, Back(f))
           /\ UNCHANGED alerts
        \/ OnFill(t, f, r, known, full) /\ UNCHANGED <<active, owner>>
    BY DEF ApplyEntry, known, full
  <1>3. CASE SetRec(f.s, r) /\ Step(t, Back(f)) /\ UNCHANGED <<active, owner, alerts>>
    BY <1>3, SetRecGood, BackGood, StepGood, SameSlot DEF TypeInv
  <1>4. CASE /\ Finalize(f.s, r, "ENTRY_CANCELLED")
             /\ Step(t, Back(f))
             /\ UNCHANGED alerts
    <2>1. RecEffect /\ SlotEffect
      BY <1>4, FinalizeGood DEF States, TerminalStates
    <2>2. FrameEffect
      BY <1>4, BackGood, StepGood
    <2> QED
      BY <1>4, <2>1, <2>2 DEF TypeInv
  <1>5. CASE OnFill(t, f, r, known, full) /\ UNCHANGED <<active, owner>>
    BY <1>1, <1>5, OnFillGood, SameSlot
  <1> QED
    BY <1>2, <1>3, <1>4, <1>5

\* A call suspended at a setup's point has a setup, its record and its leg.
LEMMA AtSetup ==
    ASSUME TypeInv, NEW t \in Tasks, frame[t].pc \in SetupPcs
    PROVE  /\ frame[t] \in GoodFrames /\ frame[t] \in Frames
           /\ frame[t].s \in Setups
           /\ rec[frame[t].s] \in GoodRecords
           /\ frame[t].pc \in LegPcs => frame[t].oid \in Placed
  BY DEF TypeInv, GoodFrames

\* A call may go from one request to another of the same setup.
LEMMA MoveOnGood ==
    ASSUME NEW f \in Frames, f.s \in Setups, NEW pc \in AwaitPcs \ {"post"},
           pc \in LegPcs => f.oid \in Placed
    PROVE  [f EXCEPT !.pc = pc] \in Requests
  BY DEF Requests, Frames

\* Turning to the placement of the pair is a FrameEffect.
LEMMA PlaceStopLossGood ==
    ASSUME TypeInv, NEW t \in Tasks, NEW f \in Frames, f.s \in Setups,
           PlaceStopLoss(t, f)
    PROVE  FrameEffect
  <1>1. [f EXCEPT !.pc = "place", !.role = "sl"] \in Requests
    BY DEF Requests, Frames, AwaitPcs, Roles, LegPcs
  <1> QED
    BY <1>1, AwaitGood DEF PlaceStopLoss

\* A well-formed record with another state is well formed.
LEMMA StateOnlyGood ==
    ASSUME TypeInv, NEW r \in GoodRecords, NEW state \in States \ {"NONE"}
    PROVE  /\ [r EXCEPT !.state = state] \in GoodRecords
           /\ [r EXCEPT !.state = state].state # "NONE"
  BY DEF GoodRecords, Records

\* Writing it is a RecEffect.
LEMMA SetStateGood ==
    ASSUME TypeInv, NEW s \in Setups, NEW r \in GoodRecords,
           NEW state \in States \ {"NONE"},
           SetRec(s, [r EXCEPT !.state = state])
    PROVE  RecEffect
  BY StateOnlyGood, SetRecGood

\* Learning the entry's order id changes nothing else of a record.
LEMMA EntryIdGood ==
    ASSUME TypeInv, NEW s \in Setups, NEW b \in BOOLEAN
    PROVE  /\ [rec[s] EXCEPT !.entryId = b] \in GoodRecords
           /\ [rec[s] EXCEPT !.entryId = b].state = rec[s].state
  BY DEF TypeInv, GoodRecords, Records

\* _cancel_existing_brackets after a leg is gone.
LEMMA LegGoneGood ==
    ASSUME TypeInv, NEW t \in Tasks, NEW f \in Frames, f.s \in Setups, LegGone(t, f)
    PROVE  RecEffect /\ FrameEffect
  <1> DEFINE r == [rec[f.s] EXCEPT ![f.role] = 0]
             none == [r EXCEPT !.protected = 0]
             g == [f EXCEPT !.stale = TRUE]
  <1>1. rec[f.s] \in GoodRecords /\ f.role \in Roles
    BY DEF TypeInv, Frames
  <1>2. r \in GoodRecords /\ r.state = rec[f.s].state
    BY <1>1, SetLegGood
  <1>3. none \in GoodRecords /\ none.state = rec[f.s].state
    <2> HIDE DEF r
    <2> QED
      BY <1>2, Bounds DEF GoodRecords, Records
  <1>4. g \in Frames /\ g.s \in Setups
    BY DEF Frames
  <1> HIDE DEF r, none, g
  <1>5. \/ r.tp # 0 /\ SetRec(f.s, r) /\ Await(t, CancelLegOf(f, r, "tp"))
        \/ SetRec(f.s, none) /\ Await(t, AdoptOrPlace(g, none))
    BY DEF LegGone, r, none, g
  <1>6. CASE r.tp # 0 /\ SetRec(f.s, r) /\ Await(t, CancelLegOf(f, r, "tp"))
    <2>1. CancelLegOf(f, r, "tp") \in Requests
      BY <1>2, <1>6, CancelLegOfGood DEF Roles
    <2> QED
      BY <1>2, <1>6, <2>1, SetRecGood, AwaitGood
  <1>7. CASE SetRec(f.s, none) /\ Await(t, AdoptOrPlace(g, none))
    <2>1. AdoptOrPlace(g, none) \in Requests
      BY <1>4, AdoptOrPlaceGood
    <2> QED
      BY <1>3, <1>7, <2>1, SetRecGood, AwaitGood
  <1> QED
    BY <1>5, <1>6, <1>7

\* The answer to the cancel of a leg.
LEMMA ResumeCancelManaged ==
    ASSUME TypeInv, NEW t \in Tasks, ResumeCancel(t)
    PROVE  Managed
  <1>1. frame[t].pc = "cancel"
    BY DEF ResumeCancel, Resume
  <1>2. CASE LegGone(t, frame[t])
    BY <1>1, <1>2, AtSetup, LegGoneGood, SameSlot
       DEF SetupPcs, Managed, ResumeCancel, TypeInv
  <1>3. CASE Await(t, [frame[t] EXCEPT !.pc = "verify"]) /\ UNCHANGED rec
    <2>1. [frame[t] EXCEPT !.pc = "verify"] \in Requests
      BY <1>1, AtSetup, MoveOnGood DEF SetupPcs, AwaitPcs, LegPcs
    <2> QED
      BY <1>3, <2>1, AwaitGood, SameRec, SameSlot DEF Managed, ResumeCancel, TypeInv
  <1> QED
    BY <1>2, <1>3 DEF ResumeCancel

\* The verdict on a refused cancel.
LEMMA ResumeVerifyManaged ==
    ASSUME TypeInv, NEW t \in Tasks, ResumeVerify(t)
    PROVE  Managed
  <1> DEFINE f == frame[t]
  <1>1. f \in Frames /\ f.s \in Setups /\ rec[f.s] \in GoodRecords
    BY AtSetup DEF SetupPcs, ResumeVerify, Resume
  <1> HIDE DEF f
  <1>2. SlotEffect
    BY SameSlot DEF ResumeVerify
  <1>3. CASE LegGone(t, f) /\ UNCHANGED alerts
    BY <1>1, <1>2, <1>3, LegGoneGood DEF Managed, ResumeVerify, TypeInv
  <1>4. CASE /\ SetRec(f.s, [rec[f.s] EXCEPT !.state = "PROTECTION_FAILED"])
             /\ Step(t, Back(f))
             /\ alerts' = TRUE
    <2>1. RecEffect
      BY <1>1, <1>4, SetStateGood DEF States
    <2>2. FrameEffect
      BY <1>1, <1>4, BackGood, StepGood
    <2> QED
      BY <1>2, <1>4, <2>1, <2>2 DEF Managed, ResumeVerify, TypeInv
  <1> QED
    BY <1>3, <1>4 DEF ResumeVerify, f

\* The entry order's echo of its attached bracket.
LEMMA ResumeEchoManaged ==
    ASSUME TypeInv, NEW t \in Tasks, ResumeEcho(t)
    PROVE  Managed
  <1> DEFINE f == frame[t]
  <1>1. f \in Frames /\ f.s \in Setups
    BY AtSetup DEF SetupPcs, ResumeEcho, Resume
  <1> HIDE DEF f
  <1>2. [f EXCEPT !.pc = "openOrders"] \in Requests
    BY <1>1, MoveOnGood DEF AwaitPcs, LegPcs
  <1>3. FrameEffect
    BY <1>1, <1>2, AwaitGood, PlaceStopLossGood DEF ResumeEcho, f
  <1>4. alerts' \in BOOLEAN
    BY DEF ResumeEcho, TypeInv
  <1> QED
    BY <1>3, <1>4, SameRec, SameSlot DEF Managed, ResumeEcho, TypeInv

\* Adoption: the two ids taken over were given out by the exchange.
LEMMA ResumeOpenOrdersManaged ==
    ASSUME TypeInv, NEW t \in Tasks, ResumeOpenOrders(t)
    PROVE  Managed
  <1> DEFINE f == frame[t]
             p(i, j) == [rec[f.s] EXCEPT !.sl = i, !.tp = j, !.protected = f.goal,
                                         !.state = "PROTECTED_POSITION"]
  <1>1. f \in GoodFrames /\ f \in Frames /\ f.s \in Setups /\ rec[f.s] \in GoodRecords
    BY AtSetup DEF SetupPcs, ResumeOpenOrders, Resume
  <1>2. f.goal \in Amounts /\ f.seen \subseteq Placed
    BY <1>1 DEF GoodFrames, Frames
  <1> HIDE DEF f
  <1>3. \A i, j \in Placed : p(i, j) \in GoodRecords /\ p(i, j).state # "NONE"
    BY <1>1, <1>2, Bounds DEF GoodRecords, Records, States, Placed
  <1>4. \/ \E i, j \in Placed : Return(t, f, p(i, j))
        \/ PlaceStopLoss(t, f) /\ UNCHANGED rec /\ alerts' \in BOOLEAN
    <2>1. \/ \E i \in Adoptable(f, "sl"), j \in Adoptable(f, "tp") :
                 Return(t, f, p(i, j))
          \/ /\ PlaceStopLoss(t, f)
             /\ alerts' = (alerts \/ f.reply = "error" \/ ~f.stale)
             /\ UNCHANGED rec
      BY DEF ResumeOpenOrders, f
    <2>2. Adoptable(f, "sl") \subseteq Placed /\ Adoptable(f, "tp") \subseteq Placed
      BY <1>2 DEF Adoptable
    <2> QED
      BY <2>1, <2>2
  <1> HIDE DEF p
  <1>5. RecEffect /\ FrameEffect /\ alerts' \in BOOLEAN
    BY <1>1, <1>3, <1>4, ReturnGood, PlaceStopLossGood, SameRec
  <1> QED
    BY <1>5, SameSlot DEF Managed, ResumeOpenOrders, TypeInv

\* The placement of a leg: refused, half done, or complete.
LEMMA ResumePlaceManaged ==
    ASSUME TypeInv, NEW t \in Tasks, ResumePlace(t)
    PROVE  Managed
  <1> DEFINE f == frame[t]
             r == [rec[f.s] EXCEPT ![f.role] = f.oid]
             failed == [rec[f.s] EXCEPT !.state = "PROTECTION_FAILED"]
             done == [r EXCEPT !.protected = f.goal, !.state = "PROTECTED_POSITION"]
             g == [f EXCEPT !.role = "tp"]
  <1>1. /\ f \in GoodFrames /\ f \in Frames /\ f.s \in Setups
        /\ rec[f.s] \in GoodRecords /\ f.pc = "place"
    BY AtSetup DEF SetupPcs, ResumePlace, Resume
  <1>2. failed \in GoodRecords /\ failed.state # "NONE"
    BY <1>1, StateOnlyGood DEF States
  <1>3. f.reply = "ok" => r \in GoodRecords /\ r.state = rec[f.s].state
    <2> SUFFICES ASSUME f.reply = "ok"
                 PROVE  r \in GoodRecords /\ r.state = rec[f.s].state
      OBVIOUS
    <2>1. f.role \in Roles /\ f.oid \in Placed
      BY <1>1 DEF GoodFrames, Frames
    <2> QED
      BY <1>1, <2>1, SetLegGood
  <1>4. f.reply = "ok" => done \in GoodRecords /\ done.state # "NONE"
    <2> HIDE DEF r
    <2> QED
      BY <1>1, <1>3 DEF GoodRecords, Records, States, Frames
  <1>5. g \in Requests
    BY <1>1 DEF Requests, Frames, Roles, LegPcs
  <1> HIDE DEF f, r, failed, done, g
  <1>6. \/ Return(t, f, failed)
        \/ f.reply = "ok" /\ SetRec(f.s, r) /\ Await(t, g) /\ UNCHANGED alerts
        \/ f.reply = "ok" /\ Return(t, f, done)
    BY DEF ResumePlace, PlacementFailed, f, r, failed, done, g
  <1>7. RecEffect /\ FrameEffect /\ alerts' \in BOOLEAN
    <2>1. CASE Return(t, f, failed)
      BY <1>1, <1>2, <2>1, ReturnGood
    <2>2. CASE f.reply = "ok" /\ SetRec(f.s, r) /\ Await(t, g) /\ UNCHANGED alerts
      BY <1>1, <1>3, <1>5, <2>2, SetRecGood, AwaitGood DEF TypeInv
    <2>3. CASE f.reply = "ok" /\ Return(t, f, done)
      BY <1>1, <1>4, <2>3, ReturnGood
    <2> QED
      BY <1>6, <2>1, <2>2, <2>3
  <1> QED
    BY <1>7, SameSlot DEF Managed, ResumePlace, TypeInv

-----------------------------------------------------------------------------
(* Calls that suspend at most *)

\* A new call may suspend at any request that names no leg.
LEMMA IdleRequest ==
    ASSUME NEW s \in Setups, NEW pc \in AwaitPcs \ ({"post"} \cup LegPcs),
           NEW then \in {"end", "apply", "recCheck", "recDone"}
    PROVE  /\ [IdleFrame EXCEPT !.pc = pc, !.s = s] \in Requests
           /\ [IdleFrame EXCEPT !.pc = pc, !.s = s, !.then = then] \in Requests
           /\ [IdleFrame EXCEPT !.s = s, !.then = then, !.pc = pc] \in Requests
  <1>1. IdleFrame \in Frames
    BY IdleIsGood DEF GoodFrames
  <1> QED
    BY <1>1 DEF Requests, Frames

\* Or go on in a loop.
LEMMA IdleLoop ==
    ASSUME NEW pc \in {"killNext", "recNext"}
    PROVE  /\ [IdleFrame EXCEPT !.pc = pc] \in GoodFrames
           /\ [IdleFrame EXCEPT !.pc = pc].pc # "post"
  BY IdleIsGood DEF IdleFrame, GoodFrames, Frames, LoopPcs, SetupPcs, LegPcs

\* A refused setup gives back a lock that no tracked trade holds.
LEMMA RefuseSetupManaged ==
    ASSUME TypeInv, NEW t \in Tasks, NEW s \in Setups, RefuseSetup(t, s)
    PROVE  Managed
  <1>1. SlotEffect
    BY DEF RefuseSetup, Release, SlotEffect, TypeInv
  <1> QED
    BY <1>1, SameRec, SameFrame DEF RefuseSetup, Managed, TypeInv

\* An order frame, however late.
LEMMA OrderEventManaged ==
    ASSUME TypeInv, NEW t \in Tasks, NEW s \in Setups, OrderEvent(t, s)
    PROVE  Managed
  <1> DEFINE r == [rec[s] EXCEPT !.entryId = TRUE]
             f == StreamFrame(s)
  <1>1. f \in Frames /\ f.s = s
    BY IdleIsGood DEF StreamFrame, IdleFrame, GoodFrames, Frames
  <1>2. r \in GoodRecords /\ r.state = rec[s].state
    BY EntryIdGood
  <1>3. PICK e \in Reports(s) : ApplyEntry(t, f, r, e.status, e.size)
    BY DEF OrderEvent
  <1>4. e.size \in Amounts
    <2>1. ex[s].got \in Amounts
      BY DEF TypeInv, GoodOrders, Orders
    <2> QED
      BY <2>1, ConstantsAssumption DEF Reports, Amounts
  <1> HIDE DEF r, f
  <1>5. RecEffect /\ FrameEffect /\ SlotEffect /\ alerts' \in BOOLEAN
    BY <1>1, <1>2, <1>3, <1>4, ApplyEntryGood
  <1> QED
    BY <1>5 DEF OrderEvent, Managed, TypeInv

\* A trade frame, however late.
LEMMA FillEventManaged ==
    ASSUME TypeInv, NEW t \in Tasks, NEW s \in Setups, FillEvent(t, s)
    PROVE  Managed
  <1> DEFINE f == StreamFrame(s)
  <1>1. f \in Frames /\ f.s = s
    BY IdleIsGood DEF StreamFrame, IdleFrame, GoodFrames, Frames
  <1>2. PICK n \in 1..ex[s].got : ApplyEntry(t, f, rec[s], "unstated", n)
    BY DEF FillEvent
  <1>3. n \in Amounts
    <2>1. ex[s].got \in Amounts
      BY DEF TypeInv, GoodOrders, Orders
    <2> QED
      BY <1>2, <2>1, ConstantsAssumption DEF Amounts
  <1> HIDE DEF f
  <1>4. rec[s] \in GoodRecords
    BY DEF TypeInv
  <1>5. RecEffect /\ FrameEffect /\ SlotEffect /\ alerts' \in BOOLEAN
    BY <1>1, <1>2, <1>3, <1>4, ApplyEntryGood
  <1> QED
    BY <1>5 DEF FillEvent, Managed, TypeInv

\* A position reported flat.
LEMMA ClosureEventManaged ==
    ASSUME TypeInv, NEW t \in Tasks, NEW s \in Setups, ClosureEvent(t, s)
    PROVE  Managed
  <1>1. rec[s] \in GoodRecords
    BY DEF TypeInv
  <1>2. alerts' \in BOOLEAN
    BY DEF ClosureEvent, TypeInv
  <1>3. \/ Await(t, [IdleFrame EXCEPT !.pc = "balance", !.s = s]) /\ UNCHANGED rec
        \/ /\ SetRec(s, [rec[s] EXCEPT !.state = "RECONCILIATION_REQUIRED"])
           /\ UNCHANGED frame
    BY DEF ClosureEvent
  <1>4. [IdleFrame EXCEPT !.pc = "balance", !.s = s] \in Requests
    BY IdleRequest DEF AwaitPcs, LegPcs
  <1>5. RecEffect /\ FrameEffect
    BY <1>1, <1>3, <1>4, AwaitGood, SameRec, SetStateGood, SameFrame DEF States
  <1> QED
    BY <1>2, <1>5, SameSlot DEF ClosureEvent, Managed, TypeInv

\* The start of expire_resting_entry.
LEMMA ExpireManaged ==
    ASSUME TypeInv, NEW t \in Tasks, NEW s \in Setups, Expire(t, s)
    PROVE  Managed
  <1> DEFINE pc == IF rec[s].entryId THEN "expCancel" ELSE "expGet"
             f == [IdleFrame EXCEPT !.s = s, !.then = "apply", !.pc = pc]
  <1>1. f \in Requests
    <2>1. pc \in AwaitPcs \ ({"post"} \cup LegPcs)
      BY DEF AwaitPcs, LegPcs
    <2> HIDE DEF pc
    <2> QED
      BY <2>1, IdleRequest
  <1>2. Await(t, f)
    BY DEF Expire
  <1> HIDE DEF f
  <1> QED
    BY <1>1, <1>2, AwaitGood, SameRec, SameSlot
       DEF Expire, engineVars, Managed, TypeInv

\* The calls that only raise or clear a flag, or stop the loop.
LEMMA FlagsManaged ==
    ASSUME TypeInv, NEW t \in Tasks,
           \/ \E s \in Setups : OrphanPositionEvent(t, s)
           \/ StreamIntegrityLost(t) \/ ResetKillSwitch(t) \/ ClearAlerts(t)
           \/ BlockOnMutex(t)
    PROVE  Managed
  <1>1. UNCHANGED <<active, rec, owner, mutex, frame, survey, exchangeVars>>
    BY DEF OrphanPositionEvent, StreamIntegrityLost, ResetKillSwitch,
           ClearAlerts, BlockOnMutex
  <1>2. hung' \in BOOLEAN /\ alerts' \in BOOLEAN /\ killSwitch' \in BOOLEAN
    BY DEF OrphanPositionEvent, StreamIntegrityLost, ResetKillSwitch,
           ClearAlerts, BlockOnMutex, TypeInv
  <1> QED
    BY <1>1, <1>2, SameRec, SameFrame, SameSlot DEF Managed, TypeInv

\* The start of activate_kill_switch.
LEMMA KillSwitchManaged ==
    ASSUME TypeInv, NEW t \in Tasks, KillSwitch(t)
    PROVE  Managed
  <1>1. FrameEffect
    BY IdleLoop, StepGood DEF KillSwitch
  <1> QED
    BY <1>1, SameRec, SameSlot DEF KillSwitch, Managed, TypeInv

\* The start of a reconciliation pass.
LEMMA ReconcileManaged ==
    ASSUME TypeInv, NEW t \in Tasks, Reconcile(t)
    PROVE  Managed
  <1>1. [IdleFrame EXCEPT !.pc = "recPositions"] \in Requests
    BY IdleIsGood DEF IdleFrame, GoodFrames, Frames, Requests, AwaitPcs, SetupPcs, LegPcs
  <1>2. FrameEffect
    BY <1>1, AwaitGood DEF Reconcile
  <1>3. survey' \in Surveys
    BY Bounds DEF Reconcile, NoSurvey, Surveys
  <1> QED
    BY <1>2, <1>3, SameRec, SameSlot DEF Reconcile, engineVars, Managed, TypeInv

-----------------------------------------------------------------------------
(* Submission answered, expiry, closing *)

\* The POST's answer for an accepted entry, possibly filled at once.
LEMMA SubmitAcceptedManaged ==
    ASSUME TypeInv, NEW t \in Tasks, ResumePost(t), SubmitAccepted(t, frame[t])
    PROVE  Managed
  <1> DEFINE f == frame[t]
             r == [rec[f.s] EXCEPT !.entryId = TRUE]
             full == f.reply = "filled"
  <1>1. f \in Frames /\ f.s \in Setups
    BY AtSetup DEF SetupPcs, ResumePost, Resume
  <1>2. r \in GoodRecords /\ r.state = rec[f.s].state
    BY <1>1, EntryIdGood
  <1>3. f.amt \in Amounts /\ full \in BOOLEAN
    BY <1>1 DEF Frames
  <1>4. /\ \/ SetRec(f.s, r) /\ Stop(t) /\ UNCHANGED alerts
           \/ OnFill(t, f, r, f.amt, full)
        /\ UNCHANGED owner
    BY DEF SubmitAccepted
  <1> HIDE DEF f, r, full
  <1>5. CASE SetRec(f.s, r) /\ Stop(t) /\ UNCHANGED alerts
    BY <1>1, <1>2, <1>4, <1>5, SetRecGood, StopGood, SameSlot
       DEF ResumePost, Managed, TypeInv
  <1>6. CASE OnFill(t, f, r, f.amt, full)
    BY <1>1, <1>2, <1>3, <1>4, <1>6, OnFillGood, SameSlot
       DEF ResumePost, Managed, TypeInv
  <1> QED
    BY <1>4, <1>5, <1>6

\* An ambiguous submission keeps the lock.
LEMMA SubmitUnknownManaged ==
    ASSUME TypeInv, NEW t \in Tasks, ResumePost(t), SubmitUnknown(t, frame[t])
    PROVE  Managed
  <1> DEFINE s == frame[t].s
             state == IF frame[t].reply = "timeout" THEN "RECONCILIATION_REQUIRED"
                      ELSE "ENTRY_REJECTED"
  <1>1. s \in Setups /\ rec[s] \in GoodRecords
    BY AtSetup DEF SetupPcs, ResumePost, Resume
  <1>2. state \in States \ {"NONE"}
    BY DEF States, TerminalStates
  <1>3. SetRec(s, [rec[s] EXCEPT !.state = state])
    BY DEF SubmitUnknown
  <1> HIDE DEF s, state
  <1>4. RecEffect
    BY <1>1, <1>2, <1>3, SetStateGood
  <1> QED
    BY <1>4, StopGood, SameSlot DEF SubmitUnknown, ResumePost, Managed, TypeInv

\* The closure handler after it has read the wallet.
LEMMA ResumeBalanceManaged ==
    ASSUME TypeInv, NEW t \in Tasks, ResumeBalance(t)
    PROVE  Managed
  <1> DEFINE g == [frame[t] EXCEPT !.pc = "closing", !.reply = "none"]
  <1>1. frame[t] \in GoodFrames /\ frame[t].s \in Setups
    BY AtSetup DEF SetupPcs, ResumeBalance, Resume
  <1>2. g \in GoodFrames /\ g.pc # "post"
    BY <1>1 DEF GoodFrames, Frames, LoopPcs, Replies, LegPcs
  <1>3. Step(t, g) /\ alerts' \in BOOLEAN
    BY DEF ResumeBalance, TypeInv
  <1> HIDE DEF g
  <1> QED
    BY <1>2, <1>3, StepGood, SameRec, SameSlot DEF ResumeBalance, Managed, TypeInv

\* The end of close_position, resolved or not.
LEMMA FinishCloseGood ==
    ASSUME TypeInv, NEW t \in Tasks, NEW f \in Frames, f.s \in Setups,
           FinishClose(t, f, rec[f.s])
    PROVE  RecEffect /\ FrameEffect /\ SlotEffect /\ alerts' \in BOOLEAN
           /\ mutex' = NoOne
  <1>1. rec[f.s] \in GoodRecords
    BY DEF TypeInv
  <1>2. CASE f.bad
    BY <1>1, <1>2, SetStateGood, StopGood, SameSlot DEF FinishClose, States
  <1>3. CASE ~f.bad
    BY <1>1, <1>3, FinalizeGood, StopGood DEF FinishClose, States, TerminalStates, TypeInv
  <1> QED
    BY <1>2, <1>3

\* close_position cancels only legs that exist.
LEMMA CloseLegOfGood ==
    ASSUME NEW f \in Frames, f.s \in Setups, NEW r \in GoodRecords,
           NEW role \in Roles, r[role] # 0
    PROVE  CloseLegOf(f, r, role) \in Requests
  <1>1. r[role] \in Placed /\ r[role] \in 0..MaxLegs
    BY DEF GoodRecords, Records, Roles
  <1> QED
    BY <1>1 DEF CloseLegOf, Requests, Frames, AwaitPcs, Roles

\* The start of close_position.
LEMMA StartCloseManaged ==
    ASSUME TypeInv, NEW t \in Tasks, StartClose(t)
    PROVE  Managed
  <1> DEFINE f == frame[t]
             r == rec[f.s]
             role == IF r.sl # 0 THEN "sl" ELSE "tp"
  <1>1. f \in Frames /\ f.s \in Setups /\ r \in GoodRecords
    BY AtSetup DEF SetupPcs, StartClose, Continue
  <1>2. role \in Roles
    BY DEF Roles
  <1>3. \/ Stop(t) /\ alerts' = TRUE /\ UNCHANGED <<active, rec, owner, mutex>>
        \/ FinishClose(t, f, r)
        \/ /\ r[role] # 0
           /\ mutex' = t
           /\ Await(t, CloseLegOf(f, r, role))
           /\ UNCHANGED <<active, rec, owner, alerts>>
    BY DEF StartClose
  <1> HIDE DEF f, role
  <1>4. CASE Stop(t) /\ alerts' = TRUE /\ UNCHANGED <<active, rec, owner, mutex>>
    BY <1>4, StopGood, SameRec, SameSlot DEF StartClose, Managed, TypeInv
  <1>5. CASE FinishClose(t, f, r)
    BY <1>1, <1>5, FinishCloseGood DEF StartClose, Managed, TypeInv
  <1>6. CASE /\ r[role] # 0
             /\ mutex' = t
             /\ Await(t, CloseLegOf(f, r, role))
             /\ UNCHANGED <<active, rec, owner, alerts>>
    <2>1. CloseLegOf(f, r, role) \in Requests
      BY <1>1, <1>2, <1>6, CloseLegOfGood
    <2> QED
      BY <1>6, <2>1, AwaitGood, SameRec, SameSlot DEF StartClose, Managed, TypeInv
  <1> QED
    BY <1>3, <1>4, <1>5, <1>6

\* close_position goes on to the TP or ends.
LEMMA NextCloseGood ==
    ASSUME TypeInv, NEW t \in Tasks, NEW f \in Frames, f.s \in Setups,
           NextClose(t, f)
    PROVE  RecEffect /\ FrameEffect /\ SlotEffect /\ alerts' \in BOOLEAN
           /\ mutex' \in Tasks \cup {NoOne}
  <1>1. CASE /\ rec[f.s].tp # 0
             /\ Await(t, CloseLegOf(f, rec[f.s], "tp"))
             /\ UNCHANGED <<active, rec, owner, mutex, alerts>>
    <2>1. rec[f.s] \in GoodRecords
      BY DEF TypeInv
    <2>2. CloseLegOf(f, rec[f.s], "tp") \in Requests
      BY <1>1, <2>1, CloseLegOfGood DEF Roles
    <2> QED
      BY <1>1, <2>2, AwaitGood, SameRec, SameSlot DEF TypeInv
  <1>2. CASE FinishClose(t, f, rec[f.s])
    BY <1>2, FinishCloseGood
  <1> QED
    BY <1>1, <1>2 DEF NextClose

\* The answers close_position waits for.
LEMMA ResumeCloseManaged ==
    ASSUME TypeInv, NEW t \in Tasks, ResumeCloseCancel(t) \/ ResumeCloseVerify(t)
    PROVE  Managed
  <1> DEFINE f == frame[t]
             g == [f EXCEPT !.bad = f.bad \/ ~ConfirmedGone(f.reply)]
  <1>1. f \in Frames /\ f.s \in Setups /\ f.pc \in LegPcs /\ f.oid \in Placed
    BY AtSetup DEF SetupPcs, LegPcs, ResumeCloseCancel, ResumeCloseVerify, Resume
  <1>2. g \in Frames /\ g.s \in Setups
    BY <1>1 DEF Frames
  <1>3. [f EXCEPT !.pc = "closeVerify"] \in Requests
    BY <1>1, MoveOnGood DEF AwaitPcs
  <1>4. \/ NextClose(t, f)
        \/ NextClose(t, g)
        \/ /\ Await(t, [f EXCEPT !.pc = "closeVerify"])
           /\ UNCHANGED <<active, rec, owner, mutex, alerts>>
    BY DEF ResumeCloseCancel, ResumeCloseVerify
  <1>5. UNCHANGED <<hung, killSwitch, survey, exchangeVars>>
    BY DEF ResumeCloseCancel, ResumeCloseVerify
  <1> HIDE DEF f, g
  <1>6. CASE NextClose(t, f)
    BY <1>1, <1>5, <1>6, NextCloseGood DEF Managed, TypeInv
  <1>7. CASE NextClose(t, g)
    BY <1>2, <1>5, <1>7, NextCloseGood DEF Managed, TypeInv
  <1>8. CASE /\ Await(t, [f EXCEPT !.pc = "closeVerify"])
             /\ UNCHANGED <<active, rec, owner, mutex, alerts>>
    BY <1>3, <1>5, <1>8, AwaitGood, SameRec, SameSlot DEF Managed, TypeInv
  <1> QED
    BY <1>4, <1>6, <1>7, <1>8

\* Whatever the cancel of an expiring entry said.
LEMMA ResumeExpireCancelManaged ==
    ASSUME TypeInv, NEW t \in Tasks, ResumeExpireCancel(t)
    PROVE  Managed
  <1>1. [frame[t] EXCEPT !.pc = "expGet"] \in Requests
    BY AtSetup, MoveOnGood
       DEF SetupPcs, LegPcs, AwaitPcs, ResumeExpireCancel, Resume
  <1> QED
    BY <1>1, AwaitGood, SameRec, SameSlot
       DEF ResumeExpireCancel, engineVars, Managed, TypeInv

\* The verdict of expire_resting_entry.
LEMMA ResumeExpireGetManaged ==
    ASSUME TypeInv, NEW t \in Tasks, ResumeExpireGet(t)
    PROVE  Managed
  <1> DEFINE f == frame[t]
             id == rec[f.s].entryId \/ f.reply \notin {"error", "missing"}
             r == [rec[f.s] EXCEPT !.entryId = id]
  <1>1. f \in Frames /\ f.s \in Setups /\ rec[f.s] \in GoodRecords
    BY AtSetup DEF SetupPcs, ResumeExpireGet, Resume
  <1>2. r \in GoodRecords /\ r.state = rec[f.s].state
    <2>1. id \in BOOLEAN
      OBVIOUS
    <2> HIDE DEF id
    <2> QED
      BY <1>1, <2>1, EntryIdGood
  <1>3. f.amt \in Amounts
    BY <1>1 DEF Frames
  <1>4. \/ ApplyEntry(t, f, r, f.reply, f.amt)
        \/ Finalize(f.s, r, "ENTRY_TIMEOUT") /\ Stop(t) /\ UNCHANGED alerts
        \/ Unverified(t, f, r)
    BY DEF ResumeExpireGet
  <1> HIDE DEF f, r
  <1>5. CASE ApplyEntry(t, f, r, f.reply, f.amt)
    BY <1>1, <1>2, <1>3, <1>5, ApplyEntryGood DEF ResumeExpireGet, Managed, TypeInv
  <1>6. CASE Finalize(f.s, r, "ENTRY_TIMEOUT") /\ Stop(t) /\ UNCHANGED alerts
    BY <1>1, <1>2, <1>6, FinalizeGood, StopGood
       DEF States, ResumeExpireGet, Managed, TypeInv
  <1>7. CASE Unverified(t, f, r)
    BY <1>1, <1>2, <1>7, SetStateGood, StopGood, SameSlot
       DEF Unverified, States, ResumeExpireGet, Managed, TypeInv
  <1> QED
    BY <1>4, <1>5, <1>6, <1>7

-----------------------------------------------------------------------------
(* The kill switch and reconciliation *)

\* The kill switch archives a trade without touching the lock.
LEMMA KillArchiveGood ==
    ASSUME TypeInv, NEW t \in Tasks, NEW s \in Setups, KillArchive(t, s),
           UNCHANGED owner
    PROVE  RecEffect /\ FrameEffect /\ SlotEffect /\ mutex' \in Tasks \cup {NoOne}
  <1>1. rec[s] \in GoodRecords
    BY DEF TypeInv
  <1>2. RecEffect
    BY <1>1, SetStateGood DEF KillArchive, States
  <1>3. FrameEffect
    BY IdleLoop, StepGood, StopGood DEF KillArchive
  <1>4. SlotEffect
    BY DEF KillArchive, SlotEffect, TypeInv
  <1>5. mutex' \in Tasks \cup {NoOne}
    BY DEF KillArchive, TypeInv
  <1> QED
    BY <1>2, <1>3, <1>4, <1>5

\* The next pending trade of the kill switch's loop.
LEMMA KillNextManaged ==
    ASSUME TypeInv, NEW t \in Tasks, KillNext(t)
    PROVE  Managed
  <1>1. /\ \/ \E s \in Setups :
                 /\ Await(t, [IdleFrame EXCEPT !.pc = "killCancel", !.s = s])
                 /\ UNCHANGED <<active, rec, mutex>>
           \/ \E s \in Setups : KillArchive(t, s)
           \/ Stop(t) /\ mutex' = NoOne /\ UNCHANGED <<active, rec>>
        /\ UNCHANGED <<owner, hung, alerts, killSwitch, survey, exchangeVars>>
    BY DEF KillNext
  <1>2. ASSUME NEW s \in Setups,
               Await(t, [IdleFrame EXCEPT !.pc = "killCancel", !.s = s]),
               UNCHANGED <<active, rec, mutex>>
        PROVE  Managed
    <2>1. [IdleFrame EXCEPT !.pc = "killCancel", !.s = s] \in Requests
      BY IdleRequest DEF AwaitPcs, LegPcs
    <2> QED
      BY <1>1, <1>2, <2>1, AwaitGood, SameRec, SameSlot DEF Managed, TypeInv
  <1>3. ASSUME NEW s \in Setups, KillArchive(t, s)
        PROVE  Managed
    BY <1>1, <1>3, KillArchiveGood DEF Managed, TypeInv
  <1>4. CASE Stop(t) /\ mutex' = NoOne /\ UNCHANGED <<active, rec>>
    BY <1>1, <1>4, StopGood, SameRec, SameSlot DEF Managed, TypeInv
  <1> QED
    BY <1>1, <1>2, <1>3, <1>4

\* The answers the kill switch waits for.
LEMMA ResumeKillManaged ==
    ASSUME TypeInv, NEW t \in Tasks, ResumeKillCancel(t) \/ ResumeKillVerify(t)
    PROVE  Managed
  <1> DEFINE f == frame[t]
             next == [IdleFrame EXCEPT !.pc = "killNext"]
  <1>1. f \in Frames /\ f.s \in Setups /\ rec[f.s] \in GoodRecords
    BY AtSetup DEF SetupPcs, ResumeKillCancel, ResumeKillVerify, Resume
  <1>2. [f EXCEPT !.pc = "killVerify"] \in Requests
    BY <1>1, MoveOnGood DEF AwaitPcs, LegPcs
  <1>3. next \in GoodFrames /\ next.pc # "post"
    BY IdleLoop
  <1>4. /\ \/ KillArchive(t, f.s) /\ UNCHANGED alerts
           \/ /\ Await(t, [f EXCEPT !.pc = "killVerify"])
              /\ UNCHANGED <<active, rec, mutex, alerts>>
           \/ /\ SetRec(f.s, [rec[f.s] EXCEPT !.state = "RECONCILIATION_REQUIRED"])
              /\ Step(t, next)
              /\ alerts' = TRUE
              /\ UNCHANGED <<active, mutex>>
        /\ UNCHANGED <<owner, hung, killSwitch, survey, exchangeVars>>
    BY DEF ResumeKillCancel, ResumeKillVerify
  <1> HIDE DEF f, next
  <1>5. CASE KillArchive(t, f.s) /\ UNCHANGED alerts
    BY <1>1, <1>4, <1>5, KillArchiveGood DEF Managed, TypeInv
  <1>6. CASE /\ Await(t, [f EXCEPT !.pc = "killVerify"])
             /\ UNCHANGED <<active, rec, mutex, alerts>>
    BY <1>2, <1>4, <1>6, AwaitGood, SameRec, SameSlot DEF Managed, TypeInv
  <1>7. CASE /\ SetRec(f.s, [rec[f.s] EXCEPT !.state = "RECONCILIATION_REQUIRED"])
             /\ Step(t, next)
             /\ alerts' = TRUE
             /\ UNCHANGED <<active, mutex>>
    BY <1>1, <1>3, <1>4, <1>7, SetStateGood, StepGood, SameSlot
       DEF States, Managed, TypeInv
  <1> QED
    BY <1>4, <1>5, <1>6, <1>7

\* The positions and open orders of a reconciliation pass.
LEMMA ResumeSnapshotManaged ==
    ASSUME TypeInv, NEW t \in Tasks, ResumeSnapshot(t)
    PROVE  Managed
  <1>1. [IdleFrame EXCEPT !.pc = "recOrders"] \in Requests
    BY IdleIsGood DEF IdleFrame, GoodFrames, Frames, Requests, AwaitPcs, SetupPcs, LegPcs
  <1>2. \/ Stop(t)
        \/ Step(t, [IdleFrame EXCEPT !.pc = "recNext"])
        \/ Await(t, [IdleFrame EXCEPT !.pc = "recOrders"])
    BY DEF ResumeSnapshot
  <1>3. FrameEffect
    BY <1>1, <1>2, StopGood, IdleLoop, StepGood, AwaitGood
  <1>4. survey' \in Surveys
    <2>1. survey' \in {survey, [survey EXCEPT !.todo = active]}
      BY DEF ResumeSnapshot
    <2> QED
      BY <2>1 DEF TypeInv, Surveys
  <1>5. alerts' \in BOOLEAN
    BY DEF ResumeSnapshot, TypeInv
  <1> QED
    BY <1>3, <1>4, <1>5, SameRec, SameSlot DEF ResumeSnapshot, Managed, TypeInv

\* The end of a reconciliation pass.
LEMMA FinishReconcileManaged ==
    ASSUME TypeInv, NEW t \in Tasks, FinishReconcile(t)
    PROVE  Managed
  <1>1. survey' \in Surveys
    BY Bounds DEF FinishReconcile, NoSurvey, Surveys
  <1>2. alerts' \in BOOLEAN
    BY DEF FinishReconcile
  <1> QED
    BY <1>1, <1>2, StopGood, SameRec, SameSlot DEF FinishReconcile, Managed, TypeInv

\* The next record of a reconciliation pass.
LEMMA VisitRecordManaged ==
    ASSUME TypeInv, NEW t \in Tasks, VisitRecord(t)
    PROVE  Managed
  <1>1. PICK s \in survey.todo :
            /\ \E lost \in BOOLEAN : survey' = [survey EXCEPT
                    !.todo = @ \ {s},
                    !.claimed = @ \cup {s},
                    !.claimedEntries = @ \cup {e \in {s} : rec[s].entryId},
                    !.claimedLegs = @ \cup {rec[s].sl, rec[s].tp},
                    !.dirty = @ \/ lost]
            /\ \/ UNCHANGED frame
               \/ Await(t, [IdleFrame EXCEPT !.pc = "recGet", !.s = s,
                                             !.then = "recCheck"])
               \/ Step(t, [IdleFrame EXCEPT !.pc = "recCheck", !.s = s])
    BY DEF VisitRecord
  <1>2. s \in Setups
    BY DEF TypeInv, Surveys
  <1>3. survey' \in Surveys
    <2> DEFINE legs == {rec[s].sl, rec[s].tp}
               entries == {e \in {s} : rec[s].entryId}
    <2>1. legs \subseteq 0..MaxLegs
      BY <1>2 DEF TypeInv, GoodRecords, Records
    <2>2. entries \subseteq Setups
      BY <1>2
    <2>3. PICK lost \in BOOLEAN : survey' = [survey EXCEPT
              !.todo = @ \ {s}, !.claimed = @ \cup {s},
              !.claimedEntries = @ \cup entries, !.claimedLegs = @ \cup legs,
              !.dirty = @ \/ lost]
      BY <1>1
    <2> HIDE DEF legs, entries
    <2> QED
      BY <1>2, <2>1, <2>2, <2>3 DEF TypeInv, Surveys
  <1>4. [IdleFrame EXCEPT !.pc = "recGet", !.s = s, !.then = "recCheck"] \in Requests
    BY <1>2, IdleRequest DEF AwaitPcs, LegPcs
  <1>5. /\ [IdleFrame EXCEPT !.pc = "recCheck", !.s = s] \in GoodFrames
        /\ [IdleFrame EXCEPT !.pc = "recCheck", !.s = s].pc # "post"
    BY <1>2, IdleIsGood DEF IdleFrame, GoodFrames, Frames, LoopPcs, LegPcs
  <1>6. FrameEffect
    BY <1>1, <1>4, <1>5, SameFrame, AwaitGood, StepGood
  <1> QED
    BY <1>3, <1>6, SameRec, SameSlot DEF VisitRecord, engineVars, Managed, TypeInv

\* refresh_entry_from_exchange's answer.
LEMMA ResumeRefreshManaged ==
    ASSUME TypeInv, NEW t \in Tasks, ResumeRefresh(t)
    PROVE  Managed
  <1> DEFINE f == frame[t]
             r == [rec[f.s] EXCEPT !.entryId = TRUE]
             next == [IdleFrame EXCEPT !.pc = "recNext"]
  <1>1. f \in Frames /\ f.s \in Setups
    BY AtSetup DEF SetupPcs, ResumeRefresh, Resume
  <1>2. r \in GoodRecords /\ r.state = rec[f.s].state
    BY <1>1, EntryIdGood
  <1>3. f.amt \in Amounts
    BY <1>1 DEF Frames
  <1>4. next \in GoodFrames /\ next.pc # "post"
    BY IdleLoop
  <1>5. \/ /\ survey' = [survey EXCEPT !.dirty = TRUE]
           /\ Step(t, next)
           /\ UNCHANGED <<active, rec, owner, alerts>>
        \/ ApplyEntry(t, f, r, f.reply, f.amt) /\ UNCHANGED survey
    BY DEF ResumeRefresh
  <1> HIDE DEF f, r, next
  <1>6. CASE /\ survey' = [survey EXCEPT !.dirty = TRUE]
             /\ Step(t, next)
             /\ UNCHANGED <<active, rec, owner, alerts>>
    <2>1. survey' \in Surveys
      BY <1>6 DEF TypeInv, Surveys
    <2> QED
      BY <1>4, <1>6, <2>1, StepGood, SameRec, SameSlot
         DEF ResumeRefresh, Managed, TypeInv
  <1>7. CASE ApplyEntry(t, f, r, f.reply, f.amt) /\ UNCHANGED survey
    BY <1>1, <1>2, <1>3, <1>7, ApplyEntryGood DEF ResumeRefresh, Managed, TypeInv
  <1> QED
    BY <1>5, <1>6, <1>7

\* Forgetting ids that are missing from the snapshot.
LEMMA ForgetDeadLegsGood ==
    ASSUME TypeInv, NEW s \in Setups, NEW size \in Amounts
    PROVE  /\ ForgetDeadLegs(rec[s], size) \in GoodRecords
           /\ ForgetDeadLegs(rec[s], size).state = rec[s].state
  <1> DEFINE r == rec[s]
             known == Larger(r.filled, size)
  <1>1. r \in GoodRecords /\ r.filled \in Amounts
    BY DEF TypeInv, GoodRecords, Records
  <1>2. known \in Amounts
    BY <1>1, LargerBound
  <1> HIDE DEF r, known
  <1> DEFINE sl == IF r.sl \in survey.legs THEN r.sl ELSE 0
             tp == IF r.tp \in survey.legs THEN r.tp ELSE 0
             protected == IF sl = 0 /\ tp = 0 THEN 0 ELSE r.protected
  <1>3. protected \in Amounts
    BY <1>1, Bounds DEF GoodRecords, Records
  <1>4. sl \in Placed \cup {0} /\ tp \in Placed \cup {0}
    BY <1>1 DEF GoodRecords
  <1>5. ForgetDeadLegs(r, size) =
            [r EXCEPT !.sl = sl, !.tp = tp, !.filled = known,
                      !.protected = protected]
    BY DEF ForgetDeadLegs, known
  <1> HIDE DEF sl, tp, protected
  <1>6. /\ ForgetDeadLegs(r, size) \in GoodRecords
        /\ ForgetDeadLegs(r, size).state = r.state
    BY <1>1, <1>2, <1>3, <1>4, <1>5, Bounds DEF GoodRecords, Records, Placed
  <1> QED
    BY <1>6 DEF r

\* Comparing a record with the snapshot, and repairing its protection.
LEMMA CheckRecordManaged ==
    ASSUME TypeInv, NEW t \in Tasks, CheckRecord(t)
    PROVE  Managed
  <1> DEFINE s == frame[t].s
             size == survey.pos[s]
             next == [IdleFrame EXCEPT !.pc = "recNext"]
             f == [IdleFrame EXCEPT !.s = s, !.then = "recDone"]
             r == ForgetDeadLegs(rec[s], size)
  <1>1. s \in Setups /\ rec[s] \in GoodRecords
    BY AtSetup DEF SetupPcs, CheckRecord, Continue
  <1>2. size \in Amounts
    BY <1>1 DEF TypeInv, Surveys
  <1>3. next \in GoodFrames /\ next.pc # "post"
    BY IdleLoop
  <1>4. f \in Frames /\ f.s = s
    BY <1>1, IdleIsGood DEF IdleFrame, GoodFrames, Frames
  <1>5. r \in GoodRecords /\ r.state = rec[s].state
    BY <1>1, <1>2, ForgetDeadLegsGood
  <1>6. \/ Step(t, next) /\ UNCHANGED <<rec, alerts, survey>>
        \/ /\ SetRec(s, [rec[s] EXCEPT !.state = "RECONCILIATION_REQUIRED"])
           /\ Step(t, next)
           /\ alerts' = TRUE
           /\ survey' = [survey EXCEPT !.dirty = TRUE]
        \/ BeginProtection(t, f, r, size) /\ UNCHANGED <<alerts, survey>>
    BY DEF CheckRecord
  <1> HIDE DEF s, size, next, f, r
  <1>7. RecEffect /\ FrameEffect /\ alerts' \in BOOLEAN /\ survey' \in Surveys
    <2>1. CASE Step(t, next) /\ UNCHANGED <<rec, alerts, survey>>
      BY <1>3, <2>1, StepGood, SameRec DEF TypeInv
    <2>2. CASE /\ SetRec(s, [rec[s] EXCEPT !.state = "RECONCILIATION_REQUIRED"])
               /\ Step(t, next)
               /\ alerts' = TRUE
               /\ survey' = [survey EXCEPT !.dirty = TRUE]
      <3>1. survey' \in Surveys
        BY <2>2 DEF TypeInv, Surveys
      <3> QED
        BY <1>1, <1>3, <2>2, <3>1, SetStateGood, StepGood DEF States
    <2>3. CASE BeginProtection(t, f, r, size) /\ UNCHANGED <<alerts, survey>>
      BY <1>1, <1>2, <1>4, <1>5, <2>3, BeginProtectionGood DEF TypeInv
    <2> QED
      BY <1>6, <2>1, <2>2, <2>3
  <1> QED
    BY <1>7, SameSlot DEF CheckRecord, Managed, TypeInv

\* The verdict on a repaired record.
LEMMA RecordDoneManaged ==
    ASSUME TypeInv, NEW t \in Tasks, RecordDone(t)
    PROVE  Managed
  <1>1. FrameEffect
    BY IdleLoop, StepGood DEF RecordDone
  <1>2. survey' \in Surveys /\ alerts' \in BOOLEAN
    BY DEF RecordDone, TypeInv, Surveys
  <1> QED
    BY <1>1, <1>2, SameRec, SameSlot DEF RecordDone, Managed, TypeInv

-----------------------------------------------------------------------------
(* Admission and rejection: the steps that are not Managed *)

\* A step that admits or rejects preserves the type invariant.
LEMMA AdmissionTyped ==
    ASSUME TypeInv, rec' \in [Setups -> GoodRecords],
           frame' \in [Tasks -> GoodFrames], active' \subseteq Setups,
           owner' \in Setups \cup {NoOne},
           UNCHANGED <<mutex, hung, alerts, killSwitch, survey, exchangeVars>>
    PROVE  TypeInv'
  <1>1. UNCHANGED <<ex, leg>> /\ Placed' = Placed
    BY DEF exchangeVars, Placed
  <1>2. GoodRecords' = GoodRecords /\ GoodFrames' = GoodFrames
    BY <1>1 DEF GoodRecords, GoodFrames
  <1> QED
    BY <1>1, <1>2 DEF TypeInv

\* A refusal by OrderValidationGateway does.
LEMMA RefuseAtGatewayTyped ==
    ASSUME TypeInv, NEW t \in Tasks, NEW s \in Setups, RefuseAtGateway(t, s)
    PROVE  TypeInv'
  <1>1. rec[s] \in GoodRecords
    BY DEF TypeInv
  <1>2. RecEffect
    BY <1>1, SetStateGood DEF RefuseAtGateway, States, TerminalStates
  <1> QED
    BY <1>2, AdmissionTyped DEF RefuseAtGateway, RecEffect, TypeInv

\* Submit suspends with this frame.
Submission(s) == [IdleFrame EXCEPT !.pc = "post", !.s = s,
                                   !.reply = "wait", !.amt = 0, !.seen = {}]

\* A submission's frame is well formed.
LEMMA SubmissionGood ==
    ASSUME NEW s \in Setups
    PROVE  /\ Submission(s) \in GoodFrames
           /\ Submission(s).pc = "post" /\ Submission(s).s = s
           /\ Submission(s).reply = "wait"
  BY IdleIsGood, Bounds
     DEF Submission, IdleFrame, GoodFrames, Frames, AwaitPcs, Replies, LegPcs

\* A submission does, and suspends with that frame.
LEMMA SubmitTyped ==
    ASSUME TypeInv, NEW t \in Tasks, NEW s \in Setups, Submit(t, s)
    PROVE  /\ TypeInv'
           /\ frame' = [frame EXCEPT ![t] = Submission(s)]
  <1>1. rec[s] \in GoodRecords
    BY DEF TypeInv
  <1>2. RecEffect
    BY <1>1, SetStateGood DEF Submit, States, RestingStates
  <1>3. frame' = [frame EXCEPT ![t] = Submission(s)]
    BY IdleIsGood DEF Submit, Await, Step, Submission, IdleFrame
  <1>4. frame' \in [Tasks -> GoodFrames]
    BY <1>3, SubmissionGood DEF TypeInv
  <1>5. TypeInv'
    BY <1>2, <1>4, AdmissionTyped DEF Submit, Acquire, RecEffect, TypeInv
  <1> QED
    BY <1>3, <1>5

\* A rejected submission does.
LEMMA SubmitRejectedTyped ==
    ASSUME TypeInv, NEW t \in Tasks, ResumePost(t), SubmitRejected(t, frame[t])
    PROVE  TypeInv' /\ RecEffect /\ FrameEffect
  <1> DEFINE s == frame[t].s
  <1>1. s \in Setups /\ rec[s] \in GoodRecords
    BY AtSetup DEF SetupPcs, ResumePost, Resume
  <1>2. RecEffect
    BY <1>1, SetStateGood DEF SubmitRejected, States, TerminalStates
  <1>3. FrameEffect
    BY StopGood DEF SubmitRejected
  <1>4. owner' \in Setups \cup {NoOne}
    BY DEF SubmitRejected, Release, TypeInv
  <1>5. TypeInv'
    BY <1>2, <1>3, <1>4, AdmissionTyped
       DEF RecEffect, FrameEffect, SubmitRejected, ResumePost, TypeInv
  <1> QED
    BY <1>2, <1>3, <1>5

-----------------------------------------------------------------------------
(* The exchange *)

\* Ids are never taken back, and an answer leaves the call where it was.
Answered ==
    /\ frame' \in [Tasks -> GoodFrames']
    /\ \A u \in Tasks :
         /\ frame'[u].pc = frame[u].pc
         /\ frame'[u].s = frame[u].s
         /\ frame'[u].reply \in {"wait", "rejected"} =>
                frame[u].reply \in {"wait", "rejected"}

Exchanged ==
    /\ UNCHANGED engineVars
    /\ Answered
    /\ survey' \in Surveys
    /\ ex' \in [Setups -> GoodOrders]
    /\ leg' \in [LegIds -> Legs]
    /\ Placed \subseteq Placed'

\* Nothing new becomes live.
OrderEffect ==
    \A s \in Setups :
        /\ Exposed(s)' => Exposed(s)
        /\ ex[s].entry = "none" => ex'[s].entry = "none"

\* Records and frames stay well formed while the exchange gives out ids.
LEMMA Grows ==
    ASSUME Placed \subseteq Placed'
    PROVE  GoodRecords \subseteq GoodRecords' /\ GoodFrames \subseteq GoodFrames'
  BY DEF GoodRecords, GoodFrames

\* A step of the exchange preserves the type invariant.
LEMMA ExchangedTyped ==
    ASSUME TypeInv, Exchanged
    PROVE  TypeInv'
  BY Grows DEF Exchanged, Answered, engineVars, TypeInv

\* Answering nothing is an Answered step.
LEMMA SameFrames ==
    ASSUME TypeInv, UNCHANGED frame, Placed \subseteq Placed'
    PROVE  Answered
  BY Grows DEF TypeInv, Answered

\* Leaving the legs alone takes no id back.
LEMMA SameLegs ==
    ASSUME TypeInv, UNCHANGED leg
    PROVE  leg' \in [LegIds -> Legs] /\ Placed \subseteq Placed'
  BY DEF TypeInv, Placed

\* Leaving the orders alone is an OrderEffect.
LEMMA SameOrders ==
    ASSUME TypeInv, UNCHANGED ex
    PROVE  ex' \in [Setups -> GoodOrders] /\ OrderEffect
  BY DEF TypeInv, OrderEffect, Exposed

\* An answer without data is an Answered step.
LEMMA AnswerGood ==
    ASSUME TypeInv, NEW t \in Tasks, frame[t].reply = "wait",
           NEW reply \in Replies, frame[t].pc = "place" => reply # "ok",
           Answer(t, reply), Placed \subseteq Placed'
    PROVE  Answered
  <1> DEFINE f == [frame[t] EXCEPT !.reply = reply]
  <1>1. frame[t] \in GoodFrames
    BY DEF TypeInv
  <1>2. f \in GoodFrames /\ f.pc = frame[t].pc /\ f.s = frame[t].s
    BY <1>1 DEF GoodFrames, Frames
  <1>3. frame' = [frame EXCEPT ![t] = f]
    BY DEF Answer
  <1> HIDE DEF f
  <1> QED
    BY <1>2, <1>3, Grows DEF TypeInv, Answered

\* Failed and refused requests change nothing on the exchange.
LEMMA AnswerErrorGood ==
    ASSUME TypeInv, NEW t \in Tasks,
           AnswerError(t) \/ AnswerRefused(t) \/ RefuseEntry(t)
    PROVE  Exchanged /\ OrderEffect
  <1>1. /\ frame[t].reply = "wait"
        /\ \E reply \in {"error", "rejected", "timeout"} : Answer(t, reply)
        /\ UNCHANGED <<engineVars, survey, exchangeVars>>
    BY DEF AnswerError, AnswerRefused, RefuseEntry, Awaiting
  <1>2. Answered
    BY <1>1, SameLegs, AnswerGood DEF exchangeVars, Replies
  <1> QED
    BY <1>1, <1>2, SameLegs, SameOrders DEF exchangeVars, Exchanged, TypeInv

\* Writing one order that is no more alive than before is an OrderEffect.
LEMMA SetOrderGood ==
    ASSUME TypeInv, NEW s \in Setups, NEW o \in GoodOrders, SetOrder(s, o)
    PROVE  /\ ex' \in [Setups -> GoodOrders]
           /\ /\ o.entry = "open" => ex[s].entry = "open"
              /\ o.pos > 0 => ex[s].pos > 0 \/ ex[s].entry = "open"
              /\ ex[s].entry = "none" => o.entry = "none"
              => OrderEffect
  BY DEF TypeInv, SetOrder, OrderEffect, Exposed

\* The acceptance of an entry concerns the order of the submitting call only.
LEMMA AcceptEntryGood ==
    ASSUME TypeInv, NEW t \in Tasks, AcceptEntry(t)
    PROVE  /\ Exchanged
           /\ frame[t].pc = "post" /\ frame[t].reply = "wait"
           /\ frame[t].s \in Setups
           /\ frame'[t].reply \notin {"wait", "rejected"}
           /\ \A s \in Setups \ {frame[t].s} : ex'[s] = ex[s]
           /\ UNCHANGED rec
  <1>1. /\ frame[t].pc = "post" /\ frame[t].reply = "wait"
        /\ frame[t] \in GoodFrames /\ frame[t].s \in Setups
    BY AtSetup DEF AcceptEntry, Awaiting, SetupPcs
  <1> DEFINE status(n) == IF n = Qty THEN "filled" ELSE "open"
             order(n, b) == [entry |-> status(n), got |-> n, pos |-> n,
                             bracket |-> b]
  <1>2. PICK n \in Amounts, bracket \in Brackets :
            /\ SetOrder(frame[t].s, order(n, bracket))
            /\ \/ frame' = [frame EXCEPT ![t].reply = status(n), ![t].amt = n]
               \/ \E reply \in {"timeout", "error"} : Answer(t, reply)
    BY DEF AcceptEntry
  <1>3. order(n, bracket) \in GoodOrders
    BY ConstantsAssumption DEF GoodOrders, Orders, Amounts
  <1>4. UNCHANGED <<engineVars, survey, leg>>
    BY DEF AcceptEntry
  <1>5. ex' \in [Setups -> GoodOrders]
    BY <1>1, <1>2, <1>3, SetOrderGood
  <1>6. \A s \in Setups \ {frame[t].s} : ex'[s] = ex[s]
    BY <1>2 DEF SetOrder, TypeInv
  <1>7. status(n) \in {"filled", "open"}
    OBVIOUS
  <1> HIDE DEF status, order
  <1>8. Answered /\ frame'[t].reply \notin {"wait", "rejected"}
    <2>1. CASE frame' = [frame EXCEPT ![t].reply = status(n), ![t].amt = n]
      <3> DEFINE f == [frame[t] EXCEPT !.reply = status(n), !.amt = n]
      <3>1. /\ f \in GoodFrames /\ f.pc = frame[t].pc /\ f.s = frame[t].s
            /\ f.reply = status(n)
        BY <1>1, <1>7 DEF GoodFrames, Frames, Replies
      <3>2. frame' = [frame EXCEPT ![t] = f]
        BY <2>1
      <3> HIDE DEF f
      <3> QED
        BY <1>4, <1>7, <3>1, <3>2, SameLegs, Grows DEF TypeInv, Answered
    <2>2. ASSUME NEW reply \in {"timeout", "error"}, Answer(t, reply)
          PROVE  Answered /\ frame'[t].reply \notin {"wait", "rejected"}
      <3>1. Answered
        BY <1>1, <1>4, <2>2, SameLegs, AnswerGood DEF Replies
      <3>2. frame'[t].reply = reply
        BY <1>1, <2>2 DEF Answer, TypeInv, GoodFrames, Frames
      <3> QED
        BY <3>1, <3>2
    <2> QED
      BY <1>2, <2>1, <2>2
  <1> QED
    BY <1>1, <1>4, <1>5, <1>6, <1>8, SameLegs DEF Exchanged, engineVars, TypeInv

\* The cancel of an entry.
LEMMA CancelEntryGood ==
    ASSUME TypeInv, NEW t \in Tasks, CancelEntry(t)
    PROVE  Exchanged /\ OrderEffect
  <1> DEFINE s == frame[t].s
             o == [ex[s] EXCEPT !.entry = "cancelled"]
  <1>1. frame[t].pc \in EntryCancelPcs /\ frame[t].reply = "wait" /\ s \in Setups
    BY AtSetup DEF CancelEntry, Awaiting, EntryCancelPcs, SetupPcs
  <1>2. /\ o \in GoodOrders /\ o.pos = ex[s].pos /\ o.entry = "cancelled"
        /\ ex[s].entry = "open" /\ SetOrder(s, o)
    BY <1>1 DEF CancelEntry, TypeInv, GoodOrders, Orders
  <1>3. \E reply \in {"ok", "error"} : Answer(t, reply)
    BY DEF CancelEntry, AnswerOrLose
  <1>4. UNCHANGED <<engineVars, survey, leg>>
    BY DEF CancelEntry
  <1> HIDE DEF s, o
  <1>5. ex' \in [Setups -> GoodOrders] /\ OrderEffect
    BY <1>1, <1>2, SetOrderGood DEF s
  <1>6. Answered
    BY <1>1, <1>3, <1>4, SameLegs, AnswerGood DEF EntryCancelPcs, Replies
  <1> QED
    BY <1>4, <1>5, <1>6, SameLegs DEF Exchanged, TypeInv

\* A read of an entry: its status and what it has filled.
LEMMA ReadEntryGood ==
    ASSUME TypeInv, NEW t \in Tasks, ReadEntry(t)
    PROVE  Exchanged /\ OrderEffect
  <1> DEFINE o == ex[frame[t].s]
             reply == IF o.entry # "none" THEN o.entry ELSE "missing"
             f == [frame[t] EXCEPT !.reply = reply, !.amt = o.got]
  <1>1. /\ frame[t].pc \in {"expGet", "recGet", "killVerify"}
        /\ frame[t].reply = "wait" /\ frame[t].s \in Setups
        /\ frame[t] \in GoodFrames
    BY AtSetup DEF ReadEntry, Awaiting, SetupPcs
  <1>2. reply \in Replies /\ reply # "wait" /\ o.got \in Amounts
    BY <1>1 DEF TypeInv, GoodOrders, Orders, Replies
  <1>3. frame' = [frame EXCEPT ![t] = f]
    BY DEF ReadEntry
  <1>4. f \in GoodFrames /\ f.pc = frame[t].pc /\ f.s = frame[t].s
    <2> HIDE DEF reply, o
    <2> QED
      BY <1>1, <1>2 DEF GoodFrames, Frames
  <1>5. UNCHANGED <<engineVars, survey, exchangeVars>>
    BY DEF ReadEntry
  <1> HIDE DEF f
  <1>6. Answered
    BY <1>1, <1>3, <1>4, <1>5, SameLegs, Grows DEF exchangeVars, TypeInv, Answered
  <1> QED
    BY <1>5, <1>6, SameLegs, SameOrders DEF exchangeVars, Exchanged, TypeInv

\* The answers that only report something.
LEMMA ReadGood ==
    ASSUME TypeInv, NEW t \in Tasks,
           ReadEcho(t) \/ ReadLeg(t) \/ ReadBalance(t)
    PROVE  Exchanged /\ OrderEffect
  <1>1. \E reply \in Replies : Answer(t, reply)
    <2>1. CASE ReadEcho(t)
      <3>1. frame[t].s \in Setups
        BY <2>1, AtSetup DEF ReadEcho, Awaiting, SetupPcs
      <3> QED
        BY <2>1, <3>1 DEF ReadEcho, TypeInv, GoodOrders, Orders, Replies
    <2>2. CASE ReadLeg(t)
      <3>1. frame[t].oid \in Placed
        BY <2>2, AtSetup DEF ReadLeg, Awaiting, SetupPcs, LegPcs
      <3> QED
        BY <2>2, <3>1 DEF ReadLeg, TypeInv, Placed, Legs, Replies
    <2>3. CASE ReadBalance(t)
      BY <2>3 DEF ReadBalance, Replies
    <2> QED
      BY <2>1, <2>2, <2>3
  <1>2. /\ frame[t].pc # "place" /\ frame[t].reply = "wait"
        /\ UNCHANGED <<engineVars, survey, exchangeVars>>
    BY DEF ReadEcho, ReadLeg, ReadBalance, Awaiting
  <1>3. Answered
    BY <1>1, <1>2, SameLegs, AnswerGood DEF exchangeVars
  <1> QED
    BY <1>2, <1>3, SameLegs, SameOrders DEF exchangeVars, Exchanged, TypeInv

\* The reads of a reconciliation pass.
LEMMA SurveyGood ==
    ASSUME TypeInv, NEW t \in Tasks, ReadPositions(t) \/ ReadAllOrders(t)
    PROVE  Exchanged /\ OrderEffect
  <1>1. /\ frame[t].pc # "place" /\ frame[t].reply = "wait" /\ Answer(t, "ok")
        /\ UNCHANGED <<engineVars, exchangeVars>>
    BY DEF ReadPositions, ReadAllOrders, Awaiting
  <1>2. survey' \in Surveys
    <2>1. CASE ReadPositions(t)
      <3>1. [s \in Setups |-> ex[s].pos] \in [Setups -> Amounts]
        BY DEF TypeInv, GoodOrders, Orders
      <3> QED
        BY <2>1, <3>1 DEF ReadPositions, TypeInv, Surveys
    <2>2. CASE ReadAllOrders(t)
      <3> DEFINE resting == {i \in LegIds : leg[i].st = "open"}
                 entries == {s \in Setups : ex[s].entry = "open"}
      <3>1. resting \in SUBSET LegIds /\ entries \in SUBSET Setups
        OBVIOUS
      <3>2. survey' = [survey EXCEPT !.legs = resting, !.entries = entries]
        BY <2>2 DEF ReadAllOrders
      <3> HIDE DEF resting, entries
      <3> QED
        BY <3>1, <3>2 DEF TypeInv, Surveys
    <2> QED
      BY <2>1, <2>2
  <1>3. Answered
    BY <1>1, SameLegs, AnswerGood DEF exchangeVars, Replies
  <1> QED
    BY <1>1, <1>2, <1>3, SameLegs, SameOrders DEF exchangeVars, Exchanged

\* The read of the open orders shows only legs that exist.
LEMMA ReadOpenOrdersGood ==
    ASSUME TypeInv, NEW t \in Tasks, ReadOpenOrders(t)
    PROVE  Exchanged /\ OrderEffect
  <1> DEFINE seen == {i \in LegIds : AdoptableLeg(i, frame[t].s, frame[t].goal)}
             f == [frame[t] EXCEPT !.reply = "ok", !.seen = seen]
  <1>1. seen \subseteq Placed /\ seen \subseteq LegIds
    BY DEF AdoptableLeg, Placed
  <1>2. /\ frame[t] \in GoodFrames
        /\ frame[t].pc = "openOrders" /\ frame[t].reply = "wait"
    BY DEF ReadOpenOrders, Awaiting, TypeInv
  <1>3. frame' = [frame EXCEPT ![t] = f]
    BY DEF ReadOpenOrders
  <1>4. UNCHANGED <<engineVars, survey, exchangeVars>>
    BY DEF ReadOpenOrders
  <1>5. f \in GoodFrames /\ f.pc = frame[t].pc /\ f.s = frame[t].s
    <2> HIDE DEF seen
    <2> QED
      BY <1>1, <1>2 DEF GoodFrames, Frames, Replies
  <1> HIDE DEF f
  <1>6. Answered
    BY <1>2, <1>3, <1>4, <1>5, SameLegs, Grows DEF exchangeVars, TypeInv, Answered
  <1> QED
    BY <1>4, <1>6, SameLegs, SameOrders DEF exchangeVars, Exchanged, TypeInv

\* Legs are set, never freed.
LEMMA SetLegsGood ==
    ASSUME TypeInv, leg' \in [LegIds -> Legs],
           \A i \in LegIds : leg'[i] = leg[i] \/ leg'[i].st # "free"
    PROVE  Placed \subseteq Placed'
  BY DEF TypeInv, Placed

\* The cancel of a leg.
LEMMA CancelLegGood ==
    ASSUME TypeInv, NEW t \in Tasks, CancelLeg(t)
    PROVE  Exchanged /\ OrderEffect
  <1> DEFINE i == frame[t].oid
             l == [leg[i] EXCEPT !.st = "cancelled"]
  <1>1. frame[t].pc \in LegCancelPcs /\ frame[t].reply = "wait" /\ i \in LegIds
    BY AtSetup DEF CancelLeg, Awaiting, LegCancelPcs, SetupPcs, LegPcs, Placed
  <1>2. l \in Legs /\ l.st = "cancelled"
    BY <1>1 DEF TypeInv, Legs
  <1>3. leg' = [leg EXCEPT ![i] = l]
    BY DEF CancelLeg
  <1>4. UNCHANGED <<engineVars, survey, ex>>
    BY DEF CancelLeg
  <1>5. \E reply \in {"ok", "error"} : Answer(t, reply)
    BY DEF CancelLeg, AnswerOrLose
  <1> HIDE DEF i, l
  <1>6. leg' \in [LegIds -> Legs] /\ Placed \subseteq Placed'
    BY <1>2, <1>3, SetLegsGood DEF TypeInv
  <1>7. Answered
    BY <1>1, <1>5, <1>6, AnswerGood DEF LegCancelPcs, Replies
  <1> QED
    BY <1>4, <1>6, <1>7, SameOrders DEF Exchanged, TypeInv

\* A new leg is well typed and open.
LEMMA NewLegGood ==
    ASSUME NEW s \in Setups, NEW role \in Roles, NEW size \in Amounts,
           NEW maker \in {"engine", "exchange"}
    PROVE  NewLeg(s, role, size, maker) \in Legs
           /\ NewLeg(s, role, size, maker).st = "open"
  BY DEF NewLeg, Legs

\* The placement of a leg gives out its id.
LEMMA PlaceLegGood ==
    ASSUME TypeInv, NEW t \in Tasks, PlaceLeg(t)
    PROVE  Exchanged /\ OrderEffect
  <1> DEFINE f == frame[t]
             l == NewLeg(f.s, f.role, f.goal, "engine")
  <1>1. /\ f \in GoodFrames /\ f \in Frames /\ f.s \in Setups
        /\ f.pc = "place" /\ f.reply = "wait"
    BY AtSetup DEF PlaceLeg, Awaiting, SetupPcs
  <1>2. l \in Legs /\ l.st = "open"
    BY <1>1, NewLegGood DEF Frames
  <1>3. PICK i \in LegIds :
            /\ leg' = [leg EXCEPT ![i] = l]
            /\ \/ frame' = [frame EXCEPT ![t].reply = "ok", ![t].oid = i]
               \/ Answer(t, "error")
    BY DEF PlaceLeg
  <1>4. UNCHANGED <<engineVars, survey, ex>>
    BY DEF PlaceLeg
  <1> HIDE DEF l
  <1>5. /\ leg' \in [LegIds -> Legs] /\ Placed \subseteq Placed'
        /\ i \in Placed'
    BY <1>2, <1>3, SetLegsGood DEF TypeInv, Placed
  <1>6. Answered
    <2>1. CASE frame' = [frame EXCEPT ![t].reply = "ok", ![t].oid = i]
      <3> DEFINE g == [f EXCEPT !.reply = "ok", !.oid = i]
      <3>1. /\ g \in Frames /\ g.pc = f.pc /\ g.s = f.s /\ g.reply = "ok"
            /\ g.oid = i /\ g.seen = f.seen /\ g.then = f.then
        BY <1>1, Bounds DEF Frames, Replies
      <3>2. g \in GoodFrames'
        BY <1>1, <1>5, <3>1 DEF GoodFrames
      <3>3. frame' = [frame EXCEPT ![t] = g]
        BY <2>1
      <3> HIDE DEF g
      <3> QED
        BY <1>5, <3>1, <3>2, <3>3, Grows DEF TypeInv, Answered
    <2>2. CASE Answer(t, "error")
      BY <1>1, <1>5, <2>2, AnswerGood DEF Replies
    <2> QED
      BY <1>3, <2>1, <2>2
  <1> QED
    BY <1>4, <1>5, <1>6, SameOrders DEF Exchanged, TypeInv

-----------------------------------------------------------------------------
(* The exchange moves by itself *)

\* An order changes and nothing else does.
LEMMA OrderMoves ==
    ASSUME TypeInv, NEW s \in Setups,
           FillEntry(s) \/ EntryDies(s) \/ Flatten(s)
    PROVE  Exchanged /\ OrderEffect
  <1>1. UNCHANGED <<engineVars, frame, survey, leg>>
    BY DEF FillEntry, EntryDies, Flatten
  <1> DEFINE o == ex[s]
  <1>2. /\ o \in GoodOrders /\ o.got \in Nat /\ o.pos \in Nat
        /\ o.got <= Qty /\ o.pos <= o.got
    BY ConstantsAssumption DEF TypeInv, GoodOrders, Orders, Amounts
  <1>3. PICK p \in GoodOrders :
            /\ SetOrder(s, p)
            /\ p.entry = "open" => o.entry = "open"
            /\ p.pos > 0 => o.pos > 0 \/ o.entry = "open"
            /\ o.entry = "none" => p.entry = "none"
    <2>1. CASE FillEntry(s)
      <3> DEFINE got == o.got + 1
                 pos == o.pos + 1
                 entry == IF got = Qty THEN "filled" ELSE "open"
                 p == [o EXCEPT !.got = got, !.pos = pos, !.entry = entry]
      <3>1. o.entry = "open" /\ o.got < Qty /\ SetOrder(s, p)
        BY <1>2, <2>1 DEF FillEntry, GoodOrders
      <3>2. /\ got \in Amounts /\ pos \in Amounts /\ pos <= got
            /\ entry \in {"filled", "open"} /\ (entry = "open" => got < Qty)
        BY <1>2, <3>1, ConstantsAssumption DEF Amounts
      <3> HIDE DEF o, got, pos, entry
      <3>3. p \in GoodOrders
        BY <1>2, <3>2 DEF GoodOrders, Orders
      <3> HIDE DEF p
      <3> QED
        BY <3>1, <3>3
    <2>2. CASE EntryDies(s)
      <3> DEFINE p == [o EXCEPT !.entry = "cancelled"]
      <3>1. /\ o.entry = "open" /\ SetOrder(s, p) /\ p.entry = "cancelled"
            /\ p \in GoodOrders
        BY <1>2, <2>2 DEF EntryDies, GoodOrders, Orders
      <3> HIDE DEF p
      <3> QED
        BY <3>1
    <2>3. CASE Flatten(s)
      <3> DEFINE p == [o EXCEPT !.pos = 0]
      <3>1. SetOrder(s, p) /\ p.pos = 0 /\ p.entry = o.entry
        BY <1>2, <2>3 DEF Flatten, GoodOrders, Orders
      <3>2. p \in GoodOrders
        BY <1>2, Bounds DEF GoodOrders, Orders
      <3> HIDE DEF p
      <3> QED
        BY <3>1, <3>2
    <2> QED
      BY <2>1, <2>2, <2>3
  <1> HIDE DEF o
  <1>4. ex' \in [Setups -> GoodOrders] /\ OrderEffect
    BY <1>3, SetOrderGood DEF o
  <1> QED
    BY <1>1, <1>4, SameLegs, SameFrames DEF Exchanged, TypeInv

\* The exchange builds an attached bracket.
LEMMA BuildBracketGood ==
    ASSUME TypeInv, NEW s \in Setups, BuildBracket(s)
    PROVE  Exchanged /\ OrderEffect
  <1>1. UNCHANGED <<engineVars, frame, survey, ex>>
    BY DEF BuildBracket
  <1>2. PICK i, j \in LegIds :
            leg' = [leg EXCEPT ![i] = NewLeg(s, "sl", ex[s].pos, "exchange"),
                               ![j] = NewLeg(s, "tp", ex[s].pos, "exchange")]
    BY DEF BuildBracket
  <1>3. ex[s].pos \in Amounts
    BY DEF TypeInv, GoodOrders, Orders
  <1>4. \A role \in Roles :
            /\ NewLeg(s, role, ex[s].pos, "exchange") \in Legs
            /\ NewLeg(s, role, ex[s].pos, "exchange").st = "open"
    BY <1>3, NewLegGood
  <1>5. leg' \in [LegIds -> Legs] /\ Placed \subseteq Placed'
    BY <1>2, <1>4, SetLegsGood DEF TypeInv, Roles
  <1> QED
    BY <1>1, <1>5, SameOrders, SameFrames DEF Exchanged, TypeInv

\* A leg executes against the position or is dropped.
LEMMA LegMoves ==
    ASSUME TypeInv, NEW i \in LegIds, LegFills(i) \/ LegDropped(i)
    PROVE  Exchanged /\ OrderEffect
  <1>1. UNCHANGED <<engineVars, frame, survey>>
    BY DEF LegFills, LegDropped
  <1>2. PICK st \in {"filled", "cancelled"} : leg' = [leg EXCEPT ![i].st = st]
    BY DEF LegFills, LegDropped
  <1>3. leg' \in [LegIds -> Legs] /\ Placed \subseteq Placed'
    BY <1>2, SetLegsGood DEF TypeInv, Legs
  <1>4. ex' \in [Setups -> GoodOrders] /\ OrderEffect
    <2>1. CASE LegDropped(i)
      BY <2>1, SameOrders DEF LegDropped
    <2>2. CASE LegFills(i)
      <3> DEFINE s == leg[i].s
                 n == IF ex[s].pos > leg[i].size THEN ex[s].pos - leg[i].size ELSE 0
                 p == [ex[s] EXCEPT !.pos = n]
      <3>1. SetOrder(s, p) /\ leg[i].size \in Nat /\ ex[s].pos > 0
        BY <2>2, Bounds DEF LegFills, TypeInv, Legs
      <3>2. CASE s \in Setups
        <4>1. /\ ex[s] \in GoodOrders /\ ex[s].pos \in Nat /\ ex[s].got \in Nat
              /\ ex[s].got <= Qty /\ ex[s].pos <= ex[s].got
          BY <3>2, ConstantsAssumption DEF TypeInv, GoodOrders, Orders, Amounts
        <4>2. n \in Amounts /\ n <= ex[s].got
          BY <3>1, <4>1, ConstantsAssumption DEF Amounts
        <4> HIDE DEF n
        <4>3. p \in GoodOrders /\ p.entry = ex[s].entry
          BY <4>1, <4>2 DEF GoodOrders, Orders
        <4> HIDE DEF s, p
        <4> QED
          BY <3>1, <3>2, <4>3, SetOrderGood
      <3>3. CASE s \notin Setups
        <4>1. UNCHANGED ex
          BY <3>1, <3>3 DEF SetOrder, TypeInv
        <4> QED
          BY <4>1, SameOrders
      <3> QED
        BY <3>2, <3>3
    <2> QED
      BY <2>1, <2>2
  <1> QED
    BY <1>1, <1>3, <1>4, SameFrames DEF Exchanged, TypeInv

-----------------------------------------------------------------------------
(* Every step is one of these *)

\* The calls: all Managed but admission.
LEMMA CallsCases ==
    ASSUME TypeInv, NEW t \in Tasks, Calls(t)
    PROVE  \/ Managed
           \/ \E s \in Setups : RefuseAtGateway(t, s) \/ Submit(t, s)
  BY RefuseSetupManaged, OrderEventManaged, FillEventManaged, ClosureEventManaged,
     ExpireManaged, FlagsManaged, ReconcileManaged, KillSwitchManaged
     DEF Calls

\* The resumptions: all Managed but the rejected submission.
LEMMA ProceedsCases ==
    ASSUME TypeInv, NEW t \in Tasks, Proceeds(t)
    PROVE  \/ Managed
           \/ ResumePost(t) /\ SubmitRejected(t, frame[t])
  <1>1. CASE ResumePost(t)
    BY <1>1, SubmitAcceptedManaged, SubmitUnknownManaged DEF ResumePost
  <1>2. CASE \/ ResumeCancel(t) \/ ResumeVerify(t) \/ ResumeEcho(t)
             \/ ResumeOpenOrders(t) \/ ResumePlace(t)
    BY <1>2, ResumeCancelManaged, ResumeVerifyManaged, ResumeEchoManaged,
       ResumeOpenOrdersManaged, ResumePlaceManaged
  <1>3. CASE \/ ResumeBalance(t) \/ StartClose(t) \/ ResumeCloseCancel(t)
             \/ ResumeCloseVerify(t) \/ ResumeExpireCancel(t) \/ ResumeExpireGet(t)
    BY <1>3, ResumeBalanceManaged, StartCloseManaged, ResumeCloseManaged,
       ResumeExpireCancelManaged, ResumeExpireGetManaged
  <1>4. CASE KillNext(t) \/ ResumeKillCancel(t) \/ ResumeKillVerify(t)
    BY <1>4, KillNextManaged, ResumeKillManaged
  <1>5. CASE \/ ResumeSnapshot(t) \/ FinishReconcile(t) \/ VisitRecord(t)
             \/ ResumeRefresh(t) \/ CheckRecord(t) \/ RecordDone(t)
    BY <1>5, ResumeSnapshotManaged, FinishReconcileManaged, VisitRecordManaged,
       ResumeRefreshManaged, CheckRecordManaged, RecordDoneManaged
  <1> QED
    BY <1>1, <1>2, <1>3, <1>4, <1>5 DEF Proceeds

\* The answers: none makes anything live but the acceptance.
LEMMA AnswersCases ==
    ASSUME TypeInv, NEW t \in Tasks, Answers(t)
    PROVE  (Exchanged /\ OrderEffect) \/ AcceptEntry(t)
  BY AnswerErrorGood, CancelEntryGood, ReadEntryGood, ReadGood, SurveyGood,
     ReadOpenOrdersGood, CancelLegGood, PlaceLegGood
     DEF Answers

\* The exchange's own moves make nothing live.
LEMMA ExchangeMovesCases ==
    ASSUME TypeInv, ExchangeMoves
    PROVE  Exchanged /\ OrderEffect
  BY OrderMoves, BuildBracketGood, LegMoves DEF ExchangeMoves

\* Every step is of one of six kinds.
LEMMA NextCases ==
    ASSUME TypeInv, Next
    PROVE  \/ Managed
           \/ Exchanged /\ OrderEffect
           \/ \E t \in Tasks :
                \/ \E s \in Setups : RefuseAtGateway(t, s) \/ Submit(t, s)
                \/ ResumePost(t) /\ SubmitRejected(t, frame[t])
                \/ AcceptEntry(t)
  BY CallsCases, ProceedsCases, AnswersCases, ExchangeMovesCases DEF Next

\* A stuttering step is Managed.
LEMMA StutterManaged ==
    ASSUME TypeInv, UNCHANGED vars
    PROVE  Managed
  BY SameRec, SameFrame, SameSlot
     DEF vars, engineVars, exchangeVars, Managed, TypeInv

\* The strengthened type invariant is inductive.
LEMMA TypeInvInductive ==
    ASSUME TypeInv, [Next]_vars
    PROVE  TypeInv'
  <1>1. CASE Managed
    BY <1>1, ManagedTyped
  <1>2. CASE Exchanged
    BY <1>2, ExchangedTyped
  <1>3. ASSUME NEW t \in Tasks, NEW s \in Setups,
               RefuseAtGateway(t, s) \/ Submit(t, s)
        PROVE  TypeInv'
    BY <1>3, RefuseAtGatewayTyped, SubmitTyped
  <1>4. ASSUME NEW t \in Tasks, ResumePost(t), SubmitRejected(t, frame[t])
        PROVE  TypeInv'
    BY <1>4, SubmitRejectedTyped
  <1>5. ASSUME NEW t \in Tasks, AcceptEntry(t)
        PROVE  TypeInv'
    BY <1>5, AcceptEntryGood, ExchangedTyped
  <1> QED
    BY <1>1, <1>2, <1>3, <1>4, <1>5, NextCases, StutterManaged

\* Every value the manager and the exchange keep has its type, whatever calls
\* overlap and whatever the network does: no fill is counted beyond the
\* requested quantity, a suspended call names the setup it works for, and
\* every bracket id it reads or cancels is one the exchange gave out.
THEOREM TypeCorrect == Spec => []TypeOK
  <1>1. Init => TypeInv
    BY InitTyped
  <1>2. TypeInv /\ [Next]_vars => TypeInv'
    BY TypeInvInductive
  <1>3. TypeInv => TypeOK
    BY TypeInvSuffices
  <1> QED
    BY <1>1, <1>2, <1>3, PTL DEF Spec

-----------------------------------------------------------------------------
(* The single-trade lock *)

Submitting(t) == frame[t].pc = "post"
Untouched(s) == ex[s].entry = "none" /\ ex[s].pos = 0

\* A setup never executed has nothing on the exchange.
UnusedIsUntouched == \A s \in Setups : rec[s].state = "NONE" => Untouched(s)

\* A call that is submitting an entry has its record, holds the lock while
\* the trade is tracked, and is the only one to submit for its setup.
SubmitterHoldsLock ==
    \A t \in Tasks : Submitting(t) =>
        /\ rec[frame[t].s].state # "NONE"
        /\ frame[t].s \in active => owner = frame[t].s
        /\ \A u \in Tasks : Submitting(u) /\ frame[u].s = frame[t].s => u = t

\* Until the exchange accepts the entry there is nothing of it.
UnansweredIsUntouched ==
    \A t \in Tasks :
        Submitting(t) /\ frame[t].reply \in {"wait", "rejected"} =>
            Untouched(frame[t].s)

LockInv ==
    /\ TypeInv
    /\ UnusedIsUntouched
    /\ SubmitterHoldsLock
    /\ UnansweredIsUntouched
    /\ TrackedExposureHoldsLock

\* An untouched setup has nothing live.
LEMMA UntouchedIsNotExposed ==
    ASSUME NEW s \in Setups, Untouched(s)
    PROVE  ~Exposed(s)
  BY DEF Untouched, Exposed

\* A submitting call names a setup.
LEMMA PostNamesSetup ==
    ASSUME TypeInv, NEW t \in Tasks, Submitting(t)
    PROVE  frame[t].s \in Setups
  BY AtSetup DEF Submitting, SetupPcs

\* The initial state satisfies the lock invariant.
LEMMA InitLocked == Init => LockInv
  BY InitTyped DEF Init, LockInv, UnusedIsUntouched, SubmitterHoldsLock,
     UnansweredIsUntouched, TrackedExposureHoldsLock, Submitting, Untouched,
     IdleFrame

\* A Managed step preserves the lock invariant.
LEMMA ManagedLocked ==
    ASSUME LockInv, Managed
    PROVE  LockInv'
  <1>1. TypeInv /\ TypeInv'
    BY ManagedTyped DEF LockInv
  <1>2. UNCHANGED ex
    BY DEF Managed, exchangeVars
  <1>3. \A t \in Tasks : Submitting(t)' => Submitting(t) /\ frame'[t] = frame[t]
    BY DEF Managed, FrameEffect, Submitting
  <1>4. \A t \in Tasks : Submitting(t)' => frame[t].s \in Setups
    BY <1>1, <1>3, PostNamesSetup
  <1>5. UnusedIsUntouched'
    BY <1>2 DEF LockInv, UnusedIsUntouched, Untouched, Managed, RecEffect
  <1>6. SubmitterHoldsLock'
    BY <1>3, <1>4 DEF LockInv, SubmitterHoldsLock, Managed, RecEffect, SlotEffect
  <1>7. UnansweredIsUntouched'
    BY <1>2, <1>3 DEF LockInv, UnansweredIsUntouched, Untouched
  <1>8. TrackedExposureHoldsLock'
    BY <1>2 DEF LockInv, TrackedExposureHoldsLock, Exposed, Managed, SlotEffect
  <1> QED
    BY <1>1, <1>5, <1>6, <1>7, <1>8 DEF LockInv

\* So does a step of the exchange that makes nothing live.
LEMMA ExchangedLocked ==
    ASSUME LockInv, Exchanged, OrderEffect
    PROVE  LockInv'
  <1>1. TypeInv /\ TypeInv'
    BY ExchangedTyped DEF LockInv
  <1>2. UNCHANGED <<active, rec, owner>>
    BY DEF Exchanged, engineVars
  <1>3. \A s \in Setups : Untouched(s) => Untouched(s)'
    <2> SUFFICES ASSUME NEW s \in Setups, Untouched(s)
                 PROVE  Untouched(s)'
      OBVIOUS
    <2>1. ~Exposed(s)' /\ ex'[s].entry = "none"
      BY UntouchedIsNotExposed DEF OrderEffect, Untouched
    <2>2. ex'[s].pos \in Nat
      BY <1>1, Bounds DEF TypeInv, GoodOrders, Orders
    <2> QED
      BY <2>1, <2>2 DEF Exposed, Untouched
  <1>4. \A t \in Tasks :
            /\ Submitting(t)' <=> Submitting(t)
            /\ frame'[t].s = frame[t].s
            /\ frame'[t].reply \in {"wait", "rejected"} =>
                   frame[t].reply \in {"wait", "rejected"}
    BY DEF Exchanged, Answered, Submitting
  <1>5. UnusedIsUntouched'
    BY <1>2, <1>3 DEF LockInv, UnusedIsUntouched
  <1>6. SubmitterHoldsLock'
    BY <1>2, <1>4 DEF LockInv, SubmitterHoldsLock
  <1>7. UnansweredIsUntouched'
    <2> SUFFICES ASSUME NEW t \in Tasks, Submitting(t)',
                        frame'[t].reply \in {"wait", "rejected"}
                 PROVE  Untouched(frame[t].s)'
      BY DEF UnansweredIsUntouched
    <2> DEFINE s == frame[t].s
    <2>1. s \in Setups /\ Untouched(s)
      BY <1>1, <1>4, PostNamesSetup DEF LockInv, UnansweredIsUntouched
    <2>2. ex'[s].entry = "none" /\ ex'[s].pos = 0
      BY <1>3, <2>1 DEF Untouched
    <2> QED
      BY <1>4, <2>2 DEF Untouched
  <1>8. TrackedExposureHoldsLock'
    BY <1>1, <1>2 DEF LockInv, TrackedExposureHoldsLock, OrderEffect, TypeInv
  <1> QED
    BY <1>1, <1>5, <1>6, <1>7, <1>8 DEF LockInv

\* An entry is accepted: its setup holds the lock if the trade is tracked.
LEMMA AcceptLocked ==
    ASSUME LockInv, NEW t \in Tasks, AcceptEntry(t)
    PROVE  LockInv'
  <1> DEFINE s == frame[t].s
  <1>1. TypeInv /\ TypeInv'
    BY AcceptEntryGood, ExchangedTyped DEF LockInv
  <1>2. /\ Submitting(t) /\ s \in Setups
        /\ frame'[t].reply \notin {"wait", "rejected"}
        /\ \A r \in Setups \ {s} : ex'[r] = ex[r]
        /\ UNCHANGED <<active, rec, owner>>
    BY <1>1, AcceptEntryGood DEF Submitting, Exchanged, engineVars
  <1>3. \A u \in Tasks :
            /\ Submitting(u)' <=> Submitting(u)
            /\ frame'[u].s = frame[u].s
            /\ frame'[u].reply \in {"wait", "rejected"} =>
                   frame[u].reply \in {"wait", "rejected"}
    BY <1>1, AcceptEntryGood DEF Exchanged, Answered, Submitting
  <1>4. rec[s].state # "NONE" /\ (s \in active => owner = s)
    BY <1>2 DEF LockInv, SubmitterHoldsLock
  <1>5. UnusedIsUntouched'
    BY <1>2, <1>4 DEF LockInv, UnusedIsUntouched, Untouched
  <1>6. SubmitterHoldsLock'
    BY <1>2, <1>3 DEF LockInv, SubmitterHoldsLock
  <1>7. UnansweredIsUntouched'
    <2> SUFFICES ASSUME NEW u \in Tasks, Submitting(u)',
                        frame'[u].reply \in {"wait", "rejected"}
                 PROVE  Untouched(frame[u].s)'
      BY DEF UnansweredIsUntouched
    <2>1. u # t /\ Submitting(u) /\ frame[u].s \in Setups /\ Untouched(frame[u].s)
      BY <1>1, <1>2, <1>3, PostNamesSetup DEF LockInv, UnansweredIsUntouched
    <2>2. frame[u].s # s
      BY <1>2, <2>1 DEF LockInv, SubmitterHoldsLock
    <2>3. frame'[u].s = frame[u].s /\ ex'[frame[u].s] = ex[frame[u].s]
      BY <1>2, <1>3, <2>1, <2>2
    <2> QED
      BY <2>1, <2>3 DEF Untouched
  <1>8. TrackedExposureHoldsLock'
    BY <1>1, <1>2, <1>4 DEF LockInv, TrackedExposureHoldsLock, Exposed, TypeInv
  <1> QED
    BY <1>1, <1>5, <1>6, <1>7, <1>8 DEF LockInv

\* A setup is admitted only while no tracked trade of another setup is live,
\* since that trade would hold the lock.
LEMMA RefuseAtGatewayLocked ==
    ASSUME LockInv, NEW t \in Tasks, NEW s \in Setups, RefuseAtGateway(t, s)
    PROVE  LockInv'
  <1>1. TypeInv /\ TypeInv'
    BY RefuseAtGatewayTyped DEF LockInv
  <1>2. /\ UNCHANGED <<frame, ex>> /\ active' = active \cup {s} /\ owner' = NoOne
        /\ rec' = [rec EXCEPT ![s] = [rec[s] EXCEPT !.state = "ENTRY_REJECTED"]]
        /\ s \notin active /\ rec[s].state = "NONE" /\ owner \in {NoOne, s}
    BY DEF RefuseAtGateway, Admissible, CanAcquire, SetRec, exchangeVars
  <1>3. \A r \in Setups : r # s => rec'[r] = rec[r]
    BY <1>1, <1>2 DEF TypeInv
  <1>4. rec'[s].state = "ENTRY_REJECTED"
    BY <1>1, <1>2 DEF TypeInv, GoodRecords, Records
  <1>5. \A x \in active : owner # x
    BY <1>1, <1>2, ConstantsAssumption DEF TypeInv
  <1>6. ~Exposed(s)
    BY <1>2, UntouchedIsNotExposed DEF LockInv, UnusedIsUntouched
  <1>7. \A u \in Tasks : Submitting(u) => frame[u].s # s /\ frame[u].s \in Setups
    BY <1>1, <1>2, PostNamesSetup DEF LockInv, SubmitterHoldsLock
  <1>8. UnusedIsUntouched'
    BY <1>2, <1>3, <1>4 DEF LockInv, UnusedIsUntouched, Untouched
  <1>9. SubmitterHoldsLock'
    BY <1>2, <1>3, <1>5, <1>7 DEF LockInv, SubmitterHoldsLock, Submitting
  <1>10. UnansweredIsUntouched'
    BY <1>2 DEF LockInv, UnansweredIsUntouched, Submitting, Untouched
  <1>11. TrackedExposureHoldsLock'
    BY <1>2, <1>5, <1>6 DEF LockInv, TrackedExposureHoldsLock, Exposed
  <1> QED
    BY <1>1, <1>8, <1>9, <1>10, <1>11 DEF LockInv

\* The admitted setup takes a lock that no tracked trade holds.
LEMMA SubmitLocked ==
    ASSUME LockInv, NEW t \in Tasks, NEW s \in Setups, Submit(t, s)
    PROVE  LockInv'
  <1>1. TypeInv /\ TypeInv' /\ frame' = [frame EXCEPT ![t] = Submission(s)]
    BY SubmitTyped DEF LockInv
  <1>2. /\ UNCHANGED ex /\ active' = active \cup {s} /\ owner' = s
        /\ rec' = [rec EXCEPT ![s] = [rec[s] EXCEPT !.state = "ENTRY_SUBMITTED"]]
        /\ s \notin active /\ rec[s].state = "NONE" /\ owner \in {NoOne, s}
        /\ frame[t].pc = "idle"
    BY DEF Submit, Begin, Idle, Acquire, Admissible, CanAcquire, SetRec, exchangeVars
  <1>3. \A r \in Setups : r # s => rec'[r] = rec[r]
    BY <1>1, <1>2 DEF TypeInv
  <1>4. rec'[s].state = "ENTRY_SUBMITTED"
    BY <1>1, <1>2 DEF TypeInv, GoodRecords, Records
  <1>5. \A x \in active : owner # x
    BY <1>1, <1>2, ConstantsAssumption DEF TypeInv
  <1>6. Untouched(s) /\ ~Exposed(s)
    BY <1>2, UntouchedIsNotExposed DEF LockInv, UnusedIsUntouched
  <1>7. \A u \in Tasks : Submitting(u) =>
            u # t /\ frame[u].s # s /\ frame[u].s \in Setups
    BY <1>1, <1>2, PostNamesSetup DEF LockInv, SubmitterHoldsLock, Submitting
  <1>8. /\ frame'[t] = Submission(s) /\ Submitting(t)' /\ frame'[t].s = s
        /\ \A u \in Tasks \ {t} : frame'[u] = frame[u]
    BY <1>1, SubmissionGood DEF TypeInv, Submitting
  <1>9. UnusedIsUntouched'
    BY <1>2, <1>3, <1>4 DEF LockInv, UnusedIsUntouched, Untouched
  <1>10. SubmitterHoldsLock'
    <2>1. \A u \in Tasks \ {t} : Submitting(u)' =>
              /\ Submitting(u) /\ frame'[u].s = frame[u].s
              /\ frame'[u].s \in Setups \ {s} /\ frame'[u].s \notin active
      BY <1>5, <1>7, <1>8 DEF LockInv, SubmitterHoldsLock, Submitting
    <2> QED
      BY <1>2, <1>3, <1>4, <1>8, <2>1 DEF LockInv, SubmitterHoldsLock
  <1>11. UnansweredIsUntouched'
    BY <1>2, <1>6, <1>8 DEF LockInv, UnansweredIsUntouched, Submitting, Untouched
  <1>12. TrackedExposureHoldsLock'
    BY <1>2, <1>5, <1>6 DEF LockInv, TrackedExposureHoldsLock, Exposed
  <1> QED
    BY <1>1, <1>9, <1>10, <1>11, <1>12 DEF LockInv

\* The lock of a rejected entry is given back: there is nothing of it, and no
\* other call is submitting for its setup.
LEMMA SubmitRejectedLocked ==
    ASSUME LockInv, NEW t \in Tasks, ResumePost(t), SubmitRejected(t, frame[t])
    PROVE  LockInv'
  <1> DEFINE s == frame[t].s
  <1>1. TypeInv /\ TypeInv' /\ RecEffect /\ FrameEffect
    BY SubmitRejectedTyped DEF LockInv
  <1>2. /\ Submitting(t) /\ frame[t].reply = "rejected" /\ s \in Setups
        /\ UNCHANGED <<active, ex>>
        /\ owner' = IF owner = s THEN NoOne ELSE owner
        /\ frame' = [frame EXCEPT ![t] = IdleFrame]
    BY <1>1, PostNamesSetup
       DEF ResumePost, Resume, SubmitRejected, Release, Stop, Step, Submitting,
           exchangeVars
  <1>3. ~Exposed(s)
    BY <1>2, UntouchedIsNotExposed DEF LockInv, UnansweredIsUntouched
  <1>4. \A u \in Tasks : Submitting(u)' =>
            /\ u # t /\ Submitting(u) /\ frame'[u] = frame[u]
            /\ frame[u].s \in Setups
    BY <1>1, <1>2, PostNamesSetup DEF Submitting, TypeInv, IdleFrame
  <1>5. \A u \in Tasks : Submitting(u)' => frame[u].s # s
    BY <1>2, <1>4 DEF LockInv, SubmitterHoldsLock
  <1>6. UnusedIsUntouched'
    BY <1>1, <1>2 DEF LockInv, UnusedIsUntouched, Untouched, RecEffect
  <1>7. SubmitterHoldsLock'
    BY <1>1, <1>2, <1>4, <1>5 DEF LockInv, SubmitterHoldsLock, RecEffect
  <1>8. UnansweredIsUntouched'
    BY <1>2, <1>4 DEF LockInv, UnansweredIsUntouched, Untouched
  <1>9. TrackedExposureHoldsLock'
    BY <1>2, <1>3 DEF LockInv, TrackedExposureHoldsLock, Exposed
  <1> QED
    BY <1>1, <1>6, <1>7, <1>8, <1>9 DEF LockInv

\* The lock invariant is inductive.
LEMMA LockInvInductive ==
    ASSUME LockInv, [Next]_vars
    PROVE  LockInv'
  <1>1. TypeInv
    BY DEF LockInv
  <1>2. CASE Managed
    BY <1>2, ManagedLocked
  <1>3. CASE Exchanged /\ OrderEffect
    BY <1>3, ExchangedLocked
  <1>4. ASSUME NEW t \in Tasks, NEW s \in Setups,
               RefuseAtGateway(t, s) \/ Submit(t, s)
        PROVE  LockInv'
    BY <1>4, RefuseAtGatewayLocked, SubmitLocked
  <1>5. ASSUME NEW t \in Tasks, ResumePost(t), SubmitRejected(t, frame[t])
        PROVE  LockInv'
    BY <1>5, SubmitRejectedLocked
  <1>6. ASSUME NEW t \in Tasks, AcceptEntry(t)
        PROVE  LockInv'
    BY <1>6, AcceptLocked
  <1> QED
    BY <1>1, <1>2, <1>3, <1>4, <1>5, <1>6, NextCases, StutterManaged

\* An active trade with a live entry order or a position holds the single-trade
\* lock: late replies, refusals, kill switch, closures and reconciliation passes
\* that overlap in any order never take it away while the trade is tracked.
THEOREM TrackedExposureIsLocked == Spec => []TrackedExposureHoldsLock
  <1>1. Init => LockInv
    BY InitLocked
  <1>2. LockInv /\ [Next]_vars => LockInv'
    BY LockInvInductive
  <1>3. LockInv => TrackedExposureHoldsLock
    BY DEF LockInv
  <1> QED
    BY <1>1, <1>2, <1>3, PTL DEF Spec

=============================================================================
