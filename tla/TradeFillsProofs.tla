-------------------------- MODULE TradeFillsProofs --------------------------
(***************************************************************************)
(* What the manager believes of fills is true of the exchange, and what it *)
(* stops tracking is gone, for every value of the constants.               *)
(*                                                                         *)
(* Knowledge travels: the exchange tells a suspended call or a snapshot,   *)
(* which may be stale when it reaches the record.  The invariant says that *)
(* every such copy is still a lower bound of what the exchange has filled, *)
(* and that a death it reports is final.  Each step of the manager is then *)
(* shown to be Told, each step of the exchange to be Moved.                *)
(***************************************************************************)
EXTENDS TradeLifecycleProofs

-----------------------------------------------------------------------------
(* The invariant *)

Verdicts == {"ENTRY_CANCELLED", "ENTRY_TIMEOUT"}
EntryReads == {"expGet", "recGet"}
Closers == {"balance", "closing", "closeCancel", "closeVerify"}
KillPcs == {"killNext", "killCancel", "killVerify"}

Unfilled(s) == ex[s].entry = "cancelled" /\ ex[s].got = 0

\* A record r of setup s claims nothing the exchange has not done.
TrueRecord(s, r) ==
    /\ r.filled <= ex[s].got
    /\ r.protected <= r.filled
    /\ r.state \in Verdicts => Unfilled(s)

\* Neither does a suspended call: the size it protects has been recorded and
\* the amount it was told has filled; a cancelled entry fills no more.
TrueFrame(f, filled) ==
    /\ f.goal <= filled
    /\ f.amt <= ex[f.s].got
    /\ f.pc \in EntryReads /\ f.reply = "cancelled" =>
           ex[f.s].entry = "cancelled" /\ f.amt = ex[f.s].got

RecordsTrue == \A s \in Setups : TrueRecord(s, rec[s])
FramesTrue ==
    \A t \in Tasks :
        frame[t].s \in Setups => TrueFrame(frame[t], rec[frame[t].s].filled)
SurveyTrue == \A s \in Setups : survey.pos[s] <= ex[s].got
NothingFilled == \A s \in Setups : ex[s].entry = "none" => ex[s].got = 0
KillsOnDuty == \A t \in Tasks : frame[t].pc \in KillPcs => "kill" \in Duties[t]

TruthInv ==
    /\ LockInv
    /\ RecordsTrue
    /\ FramesTrue
    /\ SurveyTrue
    /\ NothingFilled
    /\ KillsOnDuty

\* The initial state satisfies it.
LEMMA InitTrue == Init => TruthInv
  <1> SUFFICES ASSUME Init PROVE TruthInv
    OBVIOUS
  <1>1. LockInv
    BY InitLocked
  <1>2. \A t \in Tasks : frame[t].s = NoOne /\ frame[t].pc = "idle"
    BY DEF Init, IdleFrame
  <1>3. \A s \in Setups :
            /\ rec[s].filled = 0 /\ rec[s].protected = 0 /\ rec[s].state = "NONE"
            /\ ex[s].got = 0 /\ survey.pos[s] = 0
    BY DEF Init, NewRecord, NoSurvey
  <1>4. RecordsTrue /\ SurveyTrue /\ NothingFilled
    BY <1>3 DEF RecordsTrue, TrueRecord, Verdicts, SurveyTrue, NothingFilled
  <1>5. FramesTrue /\ KillsOnDuty
    BY <1>2, ConstantsAssumption DEF FramesTrue, KillsOnDuty, KillPcs
  <1> QED
    BY <1>1, <1>4, <1>5 DEF TruthInv

\* The amounts that are compared are numbers.
LEMMA TruthTypes ==
    ASSUME TruthInv
    PROVE  /\ TypeInv
           /\ \A s \in Setups :
                /\ ex[s].got \in Amounts /\ ex[s].pos \in Amounts
                /\ rec[s].filled \in Amounts /\ rec[s].protected \in Amounts
                /\ survey.pos[s] \in Amounts
           /\ \A t \in Tasks : frame[t].goal \in Amounts /\ frame[t].amt \in Amounts
           /\ Amounts \subseteq Nat
  <1>1. TypeInv
    BY DEF TruthInv, LockInv
  <1> QED
    BY <1>1, Bounds
       DEF TypeInv, GoodOrders, Orders, GoodRecords, Records, Surveys, GoodFrames,
           Frames

-----------------------------------------------------------------------------
(* What a step of the manager passes on *)

\* Record r may replace that of s: it is true, and no fill is forgotten.
Better(s, r) == TrueRecord(s, r) /\ rec[s].filled <= r.filled

ToldRecords == \A s \in Setups : Better(s, rec'[s])

\* Frame g of task u says nothing untrue; a closure begins with a flat
\* position, a kill loop is run by a task whose duty it is.
TellsTrue(u, g) ==
    /\ g.s \in Setups => TrueFrame(g, rec'[g.s].filled)
    /\ g.pc \in Closers =>
           \/ frame[u].pc \in Closers /\ frame[u].s = g.s
           \/ ex[g.s].got > 0 /\ ex[g.s].pos = 0
    /\ g.pc \in KillPcs => "kill" \in Duties[u]

ToldFrames == \A u \in Tasks : TellsTrue(u, frame'[u])
ToldSurvey == \A s \in Setups : survey'.pos[s] <= ex[s].got

\* A trade is archived when its entry died unfilled, by a call that closes it,
\* or by the kill loop.
ToldSlot ==
    \A s \in active : s \notin active' =>
        \/ Unfilled(s)
        \/ \E u \in Tasks : frame[u].pc \in Closers /\ frame[u].s = s
        \/ \E u \in Tasks : frame[u].pc \in KillPcs

Told ==
    /\ ToldRecords
    /\ ToldFrames
    /\ ToldSurvey
    /\ ToldSlot
    /\ UNCHANGED ex

\* A record left alone is as good as it was;
LEMMA SameRecTold ==
    ASSUME TruthInv, UNCHANGED rec
    PROVE  ToldRecords
  BY TruthTypes DEF TruthInv, RecordsTrue, ToldRecords, Better

\* one that is replaced must be.
LEMMA SetRecTold ==
    ASSUME TruthInv, NEW s \in Setups, NEW r, Better(s, r), SetRec(s, r)
    PROVE  ToldRecords /\ rec'[s] = r
  <1>1. \A x \in Setups : Better(x, rec[x])
    BY TruthTypes DEF TruthInv, RecordsTrue, Better
  <1>2. rec \in [Setups -> GoodRecords]
    BY TruthTypes DEF TypeInv
  <1> QED
    BY <1>1, <1>2 DEF SetRec, ToldRecords

\* The record itself, or one that differs in a state that is no verdict.
LEMMA SameIsBetter ==
    ASSUME TruthInv, NEW s \in Setups
    PROVE  Better(s, rec[s]) /\ rec[s] \in GoodRecords
  BY TruthTypes DEF TruthInv, RecordsTrue, Better, TypeInv

\* So is one whose state alone changes, unless to a verdict.
LEMMA StateIsBetter ==
    ASSUME TruthInv, NEW s \in Setups, NEW r \in Records, Better(s, r),
           NEW state \in States, state \in Verdicts => Unfilled(s)
    PROVE  Better(s, [r EXCEPT !.state = state])
  BY DEF Better, TrueRecord, Records

\* Frames left alone still tell the truth,
LEMMA SameFrameTold ==
    ASSUME TruthInv, ToldRecords, TypeInv', NEW u \in Tasks
    PROVE  TellsTrue(u, frame[u])
  <1>1. frame[u].s \in Setups =>
            frame[u].goal <= rec[frame[u].s].filled
    BY DEF TruthInv, FramesTrue, TrueFrame
  <1>2. frame[u].s \in Setups =>
            rec[frame[u].s].filled <= rec'[frame[u].s].filled
    BY DEF ToldRecords, Better
  <1>3. frame[u].s \in Setups =>
            rec[frame[u].s].filled \in Nat /\ rec'[frame[u].s].filled \in Nat
    BY TruthTypes, Bounds DEF TypeInv, GoodRecords, Records
  <1>4. frame[u].goal \in Nat
    BY TruthTypes
  <1>5. frame[u].s \in Setups => frame[u].goal <= rec'[frame[u].s].filled
    BY <1>1, <1>2, <1>3, <1>4
  <1> QED
    BY <1>5 DEF TruthInv, FramesTrue, TrueFrame, TellsTrue, KillsOnDuty

\* and so does a step that moves one task to a frame that does.
LEMMA StepTold ==
    ASSUME TruthInv, ToldRecords, TypeInv', NEW t \in Tasks, NEW g, Step(t, g),
           TellsTrue(t, g)
    PROVE  ToldFrames
  <1>1. \A u \in Tasks : TellsTrue(u, frame[u])
    BY SameFrameTold
  <1>2. frame'[t] = g /\ \A u \in Tasks \ {t} : frame'[u] = frame[u]
    BY TruthTypes DEF Step, TypeInv
  <1> QED
    BY <1>1, <1>2 DEF ToldFrames

\* No frame changes.
LEMMA NoStepTold ==
    ASSUME TruthInv, ToldRecords, TypeInv', UNCHANGED frame
    PROVE  ToldFrames
  BY SameFrameTold DEF ToldFrames

\* A call that ends says nothing, nor does one between two records.
LEMMA StopTold ==
    ASSUME TruthInv, ToldRecords, TypeInv', NEW t \in Tasks,
           \/ Stop(t)
           \/ Step(t, [IdleFrame EXCEPT !.pc = "recNext"])
    PROVE  ToldFrames
  <1>1. TellsTrue(t, IdleFrame) /\ TellsTrue(t, [IdleFrame EXCEPT !.pc = "recNext"])
    BY ConstantsAssumption DEF TellsTrue, IdleFrame, Closers, KillPcs
  <1> QED
    BY <1>1, StepTold DEF Stop

\* A request is sent with a size that has been recorded.
LEMMA AwaitTold ==
    ASSUME TruthInv, ToldRecords, TypeInv', NEW t \in Tasks, NEW f \in Frames,
           Await(t, f),
           f.s \in Setups => f.goal <= rec'[f.s].filled,
           f.pc \in Closers =>
               \/ frame[t].pc \in Closers /\ frame[t].s = f.s
               \/ ex[f.s].got > 0 /\ ex[f.s].pos = 0,
           f.pc \in KillPcs => "kill" \in Duties[t]
    PROVE  ToldFrames
  <1> DEFINE g == [f EXCEPT !.reply = "wait", !.amt = 0, !.seen = {}]
  <1>1. g.s = f.s /\ g.pc = f.pc /\ g.goal = f.goal /\ g.amt = 0 /\ g.reply = "wait"
    BY DEF Frames
  <1>2. Step(t, g)
    BY DEF Await
  <1> HIDE DEF g
  <1>3. f.s \in Setups => 0 <= ex[f.s].got
    BY TruthTypes
  <1>4. TellsTrue(t, g)
    BY <1>1, <1>3 DEF TellsTrue, TrueFrame
  <1> QED
    BY <1>2, <1>4, StepTold

\* What a record has filled stays a number.
LEMMA FilledIsNat ==
    ASSUME TypeInv', NEW s \in Setups
    PROVE  rec'[s].filled \in Nat /\ 0 <= rec'[s].filled
  <1>1. rec'[s].filled \in Nat
    BY Bounds DEF TypeInv, GoodRecords, Records
  <1> QED
    BY <1>1

\* Where a fill observation returns to carries no size.
LEMMA BackTold ==
    ASSUME TruthInv, ToldRecords, TypeInv', NEW t \in Tasks, NEW f \in Frames,
           f.s \in Setups, Step(t, Back(f))
    PROVE  ToldFrames
  <1>1. /\ Back(f).goal = 0 /\ Back(f).amt = 0 /\ Back(f).reply = "none"
        /\ Back(f).pc \in {"idle", "recCheck", "recDone"}
        /\ Back(f).s \in {f.s, NoOne}
    BY DEF Back, IdleFrame, Frames
  <1>2. 0 <= ex[f.s].got
    BY TruthTypes
  <1>4. 0 <= rec'[f.s].filled
    BY FilledIsNat
  <1>5. TellsTrue(t, Back(f))
    BY <1>1, <1>2, <1>4, ConstantsAssumption
       DEF TellsTrue, TrueFrame, Closers, KillPcs
  <1> QED
    BY <1>5, StepTold

\* Whatever is not archived stays.
LEMMA SameSlotTold ==
    ASSUME UNCHANGED active
    PROVE  ToldSlot
  BY DEF ToldSlot

\* A survey that is kept or forgotten stays true.
LEMMA SurveyTold ==
    ASSUME TruthInv, survey' = NoSurvey \/ survey'.pos = survey.pos
    PROVE  ToldSurvey
  BY TruthTypes DEF TruthInv, SurveyTrue, ToldSurvey, NoSurvey

-----------------------------------------------------------------------------
(* The handlers the actions share *)

\* _ensure_bracket_protection begins, for a size that has been recorded.
LEMMA BeginProtectionTold ==
    ASSUME TruthInv, TypeInv', NEW t \in Tasks, NEW f \in Frames, f.s \in Setups,
           NEW r \in Records, NEW goal \in Amounts, Better(f.s, r),
           goal <= r.filled, BeginProtection(t, f, r, goal)
    PROVE  ToldRecords /\ ToldFrames
  <1> DEFINE p == [r EXCEPT !.state = "PROTECTION_PENDING"]
             g == [f EXCEPT !.goal = goal, !.stale = FALSE]
             role == IF r.sl # 0 THEN "sl" ELSE "tp"
  <1>1. Better(f.s, p) /\ p.filled = r.filled
    BY StateIsBetter DEF States, Verdicts, Records
  <1>2. SetRec(f.s, p)
    BY DEF BeginProtection
  <1> HIDE DEF p
  <1>3. ToldRecords /\ rec'[f.s] = p
    BY <1>1, <1>2, SetRecTold
  <1>4. goal <= rec'[f.s].filled
    BY <1>1, <1>3
  <1>5. g \in Frames /\ g.s = f.s /\ g.goal = goal
    BY DEF Frames
  <1>6. role \in Roles /\ (r.sl # 0 \/ r.tp # 0 => r[role] # 0)
    BY DEF Roles
  <1>7. r[role] \in 0..MaxLegs
    BY <1>6 DEF Roles, Records
  <1> DEFINE Request(h) == /\ h \in Frames /\ h.s = f.s /\ h.goal = goal
                           /\ h.pc \in {"echo", "place", "cancel"}
  <1>8. /\ Request([g EXCEPT !.pc = "echo", !.role = "sl"])
        /\ Request([g EXCEPT !.pc = "place", !.role = "sl"])
        /\ Request([g EXCEPT !.pc = "cancel", !.role = role, !.oid = r[role]])
    <2> HIDE DEF g, role
    <2> QED
      BY <1>5, <1>6, <1>7 DEF Frames, AwaitPcs, Roles
  <1>9. \E h \in Frames : Await(t, h) /\ Request(h)
    <2>1. \/ Await(t, [g EXCEPT !.pc = "echo", !.role = "sl"])
          \/ Await(t, [g EXCEPT !.pc = "place", !.role = "sl"])
          \/ Await(t, [g EXCEPT !.pc = "cancel", !.role = role, !.oid = r[role]])
      <3>1. Await(t, IF r.protected = goal \/ (r.sl = 0 /\ r.tp = 0)
                     THEN AdoptOrPlace(g, r) ELSE CancelLegOf(g, r, role))
        BY DEF BeginProtection
      <3> HIDE DEF g, role
      <3> QED
        BY <3>1 DEF AdoptOrPlace, CancelLegOf
    <2>2. \A h : Request(h) => h \in Frames
      OBVIOUS
    <2> HIDE DEF g, role, Request
    <2> QED
      BY <1>8, <2>1, <2>2
  <1>10. ToldFrames
    BY <1>3, <1>4, <1>9, AwaitTold DEF Closers, KillPcs
  <1> QED
    BY <1>3, <1>10

\* A fill handler returns with a better record.
LEMMA ReturnTold ==
    ASSUME TruthInv, TypeInv', NEW t \in Tasks, NEW f \in Frames, f.s \in Setups,
           NEW r, Better(f.s, r), Return(t, f, r)
    PROVE  ToldRecords /\ ToldFrames
  BY SetRecTold, BackTold DEF Return

\* on_entry_fill and on_entry_partial_fill: an observed fill has been made.
LEMMA OnFillTold ==
    ASSUME TruthInv, TypeInv', NEW t \in Tasks, NEW f \in Frames, f.s \in Setups,
           NEW r \in Records, Better(f.s, r),
           NEW size \in Amounts, size <= ex[f.s].got, NEW full \in BOOLEAN,
           OnFill(t, f, r, size, full)
    PROVE  ToldRecords /\ ToldFrames
  <1> DEFINE known == Larger(r.filled, size)
             now == [r EXCEPT !.filled = known,
                              !.state = IF full THEN "ENTRY_FILLED"
                                        ELSE "ENTRY_PARTIALLY_FILLED"]
  <1>0. /\ r.filled \in Amounts /\ r.protected \in Nat /\ rec[f.s].filled \in Nat
        /\ r.filled \in Nat /\ size \in Nat /\ r.filled <= ex[f.s].got
    BY Bounds, TruthTypes DEF Records, Better, TrueRecord
  <1>1. /\ known \in Amounts /\ r.filled <= known /\ known <= ex[f.s].got
        /\ r.filled \in Nat /\ known \in Nat /\ r.protected \in Nat
        /\ rec[f.s].filled \in Nat
    BY <1>0, Bounds, LargerBound DEF Larger
  <1> HIDE DEF known
  <1>2. /\ now \in Records /\ now.filled = known /\ now.protected = r.protected
        /\ now.state \notin Verdicts
    BY <1>1 DEF Records, States, RestingStates, Verdicts
  <1>3. \/ Return(t, f, r)
        \/ Return(t, f, now)
        \/ BeginProtection(t, f, now, known)
    BY DEF OnFill, known
  <1> HIDE DEF now
  <1>4. Better(f.s, now)
    <2>1. r.protected <= r.filled /\ rec[f.s].filled <= r.filled
      BY DEF Better, TrueRecord
    <2>2. r.protected <= known /\ rec[f.s].filled <= known
      BY <1>1, <2>1
    <2> QED
      BY <1>1, <1>2, <2>2 DEF Better, TrueRecord
  <1>5. CASE Return(t, f, r) \/ Return(t, f, now)
    BY <1>4, <1>5, ReturnTold
  <1>6. CASE BeginProtection(t, f, now, known)
    BY <1>1, <1>2, <1>4, <1>6, BeginProtectionTold
  <1> QED
    BY <1>3, <1>5, <1>6

\* What an observation says of the entry of s.
ReportTrue(s, status, size) ==
    /\ size \in Amounts
    /\ size <= ex[s].got
    /\ status = "cancelled" => ex[s].entry = "cancelled" /\ size = ex[s].got

\* _finalize_unfilled_entry, for an entry that died unfilled.
LEMMA FinalizeTold ==
    ASSUME TruthInv, TypeInv', NEW s \in Setups, NEW r \in Records, Better(s, r),
           Unfilled(s), NEW state \in Verdicts, Finalize(s, r, state)
    PROVE  ToldRecords /\ ToldSlot
  <1>1. Better(s, [r EXCEPT !.state = state])
    BY StateIsBetter DEF States, TerminalStates, Verdicts
  <1> QED
    BY <1>1, SetRecTold DEF Finalize, ToldSlot

\* _apply_entry_order_state, for a true report.
LEMMA ApplyEntryTold ==
    ASSUME TruthInv, TypeInv', NEW t \in Tasks, NEW f \in Frames, f.s \in Setups,
           NEW r \in Records, Better(f.s, r), NEW status, NEW size,
           ReportTrue(f.s, status, size), ApplyEntry(t, f, r, status, size)
    PROVE  ToldRecords /\ ToldFrames /\ ToldSlot
  <1> DEFINE known == Larger(size, r.filled)
             full == status = "filled" \/ known >= Qty
  <1>1. /\ known \in Amounts /\ size <= known /\ known <= ex[f.s].got
        /\ size \in Nat /\ ex[f.s].got \in Nat /\ full \in BOOLEAN
    BY Bounds, TruthTypes DEF Larger, Records, Better, TrueRecord, ReportTrue
  <1>2. \/ SetRec(f.s, r) /\ Step(t, Back(f)) /\ UNCHANGED active
        \/ /\ known = 0 /\ status = "cancelled"
           /\ Finalize(f.s, r, "ENTRY_CANCELLED")
           /\ Step(t, Back(f))
        \/ OnFill(t, f, r, known, full) /\ UNCHANGED active
    BY DEF ApplyEntry, Ignorable
  <1> HIDE DEF known, full
  <1>3. CASE SetRec(f.s, r) /\ Step(t, Back(f)) /\ UNCHANGED active
    BY <1>3, SetRecTold, BackTold, SameSlotTold
  <1>4. CASE /\ known = 0 /\ status = "cancelled"
             /\ Finalize(f.s, r, "ENTRY_CANCELLED")
             /\ Step(t, Back(f))
    <2>1. size = 0
      BY <1>1, <1>4
    <2>2. Unfilled(f.s)
      BY <1>4, <2>1 DEF ReportTrue, Unfilled
    <2>3. ToldRecords /\ ToldSlot
      BY <1>4, <2>2, FinalizeTold DEF Verdicts
    <2> QED
      BY <1>4, <2>3, BackTold
  <1>5. CASE OnFill(t, f, r, known, full) /\ UNCHANGED active
    BY <1>1, <1>5, OnFillTold, SameSlotTold
  <1> QED
    BY <1>2, <1>3, <1>4, <1>5

\* The record of a call, and the size the call works for.
LEMMA CallTruth ==
    ASSUME TruthInv, NEW t \in Tasks, frame[t].pc \in SetupPcs
    PROVE  /\ frame[t] \in Frames /\ frame[t].s \in Setups
           /\ rec[frame[t].s] \in Records /\ Better(frame[t].s, rec[frame[t].s])
           /\ TrueFrame(frame[t], rec[frame[t].s].filled)
           /\ rec[frame[t].s].filled \in Nat /\ frame[t].goal \in Nat
  <1>1. TypeInv
    BY TruthTypes
  <1>2. /\ frame[t] \in Frames /\ frame[t].s \in Setups
        /\ rec[frame[t].s] \in GoodRecords
    BY <1>1, AtSetup
  <1> QED
    BY <1>2, SameIsBetter, TruthTypes, Bounds DEF GoodRecords, TruthInv, FramesTrue

\* Learning the order id or a leg id leaves a record as good.
LEMMA IdIsBetter ==
    ASSUME TruthInv, NEW s \in Setups, NEW r \in Records, Better(s, r)
    PROVE  /\ \A b \in BOOLEAN : /\ [r EXCEPT !.entryId = b] \in Records
                                 /\ Better(s, [r EXCEPT !.entryId = b])
           /\ \A role \in Roles, i \in 0..MaxLegs :
                /\ [r EXCEPT ![role] = i] \in Records
                /\ Better(s, [r EXCEPT ![role] = i])
                /\ [r EXCEPT ![role] = i].filled = r.filled
                /\ [r EXCEPT ![role] = i].state = r.state
  BY DEF Better, TrueRecord, Records, Roles

\* Protecting a recorded size, or nothing, is a true claim.
LEMMA ProtectIsBetter ==
    ASSUME TruthInv, NEW s \in Setups, NEW r \in Records, Better(s, r),
           NEW n \in Amounts, n <= r.filled
    PROVE  /\ [r EXCEPT !.protected = n] \in Records
           /\ Better(s, [r EXCEPT !.protected = n])
           /\ [r EXCEPT !.protected = n].filled = r.filled
  BY DEF Better, TrueRecord, Records

-----------------------------------------------------------------------------
(* The actions: protection *)

\* Nothing the exchange or the books depend on changes.
LEMMA QuietTold ==
    ASSUME TruthInv, TypeInv', UNCHANGED <<rec, active, frame, survey, ex>>
    PROVE  Told
  BY SameRecTold, NoStepTold, SameSlotTold, SurveyTold DEF Told

\* _cancel_existing_brackets after a leg is gone.
LEMMA LegGoneTold ==
    ASSUME TruthInv, TypeInv', NEW t \in Tasks,
           frame[t].pc \in {"cancel", "verify"}, LegGone(t, frame[t])
    PROVE  ToldRecords /\ ToldFrames
  <1> DEFINE f == frame[t]
             r == [rec[f.s] EXCEPT ![f.role] = 0]
             none == [r EXCEPT !.protected = 0]
             g == [f EXCEPT !.stale = TRUE]
  <1>1. /\ f \in Frames /\ f.s \in Setups /\ f.goal <= rec[f.s].filled
        /\ rec[f.s] \in Records /\ Better(f.s, rec[f.s]) /\ f.role \in Roles
    BY CallTruth DEF SetupPcs, TrueFrame, Frames
  <1>2. /\ r \in Records /\ Better(f.s, r) /\ r.filled = rec[f.s].filled
        /\ 0 <= r.filled
    BY <1>1, IdIsBetter, TruthTypes, Bounds
  <1>3. none \in Records /\ Better(f.s, none) /\ none.filled = rec[f.s].filled
    <2> HIDE DEF r
    <2> QED
      BY <1>1, <1>2, ProtectIsBetter, Bounds
  <1>4. \/ r.tp # 0 /\ SetRec(f.s, r) /\ Await(t, CancelLegOf(f, r, "tp"))
        \/ SetRec(f.s, none) /\ Await(t, AdoptOrPlace(g, none))
    BY DEF LegGone
  <1>5. /\ g \in Frames /\ g.s = f.s /\ g.goal = f.goal
    BY <1>1 DEF Frames
  <1>6. r.tp \in 0..MaxLegs
    BY <1>2 DEF Records
  <1> HIDE DEF f, r, none, g
  <1>7. CASE r.tp # 0 /\ SetRec(f.s, r) /\ Await(t, CancelLegOf(f, r, "tp"))
    <2> DEFINE h == [f EXCEPT !.pc = "cancel", !.role = "tp", !.oid = r.tp]
    <2>1. h \in Frames /\ h.s = f.s /\ h.goal = f.goal /\ h.pc = "cancel"
      BY <1>1, <1>6 DEF Frames, AwaitPcs, Roles
    <2>2. Await(t, h)
      BY <1>7 DEF CancelLegOf
    <2> HIDE DEF h
    <2>3. ToldRecords /\ rec'[f.s] = r
      BY <1>1, <1>2, <1>7, SetRecTold
    <2> QED
      BY <1>1, <1>2, <2>1, <2>2, <2>3, AwaitTold DEF Closers, KillPcs
  <1>8. CASE SetRec(f.s, none) /\ Await(t, AdoptOrPlace(g, none))
    <2>1. \A pc \in {"echo", "place"} :
              LET h == [g EXCEPT !.pc = pc, !.role = "sl"]
              IN  h \in Frames /\ h.s = f.s /\ h.goal = f.goal /\ h.pc = pc
      BY <1>5 DEF Frames, AwaitPcs, Roles
    <2>2. PICK pc \in {"echo", "place"} : Await(t, [g EXCEPT !.pc = pc, !.role = "sl"])
      BY <1>8 DEF AdoptOrPlace
    <2>3. ToldRecords /\ rec'[f.s] = none
      BY <1>1, <1>3, <1>8, SetRecTold
    <2> QED
      BY <1>1, <1>3, <2>1, <2>2, <2>3, AwaitTold DEF Closers, KillPcs
  <1> QED
    BY <1>4, <1>7, <1>8

\* A request that goes on to another of the same setup, records unchanged.
LEMMA MoveOnTold ==
    ASSUME TruthInv, TypeInv', UNCHANGED rec, NEW t \in Tasks,
           frame[t].pc \in SetupPcs, NEW f \in Frames,
           f.s = frame[t].s, f.goal = frame[t].goal, Await(t, f),
           f.pc \in Closers => frame[t].pc \in Closers,
           f.pc \in KillPcs => frame[t].pc \in KillPcs
    PROVE  ToldRecords /\ ToldFrames
  <1>1. ToldRecords
    BY SameRecTold
  <1>2. f.goal <= rec'[f.s].filled
    BY CallTruth DEF TrueFrame
  <1>3. f.pc \in KillPcs => "kill" \in Duties[t]
    BY DEF TruthInv, KillsOnDuty
  <1> QED
    BY <1>1, <1>2, <1>3, AwaitTold

\* The cancel of a leg is answered.
LEMMA ResumeCancelTold ==
    ASSUME TruthInv, TypeInv', NEW t \in Tasks, ResumeCancel(t)
    PROVE  Told
  <1> DEFINE f == frame[t]
             g == [f EXCEPT !.pc = "verify"]
  <1>1. frame[t].pc = "cancel" /\ UNCHANGED <<active, survey, ex>>
    BY DEF ResumeCancel, Resume, exchangeVars
  <1>2. LegGone(t, f) \/ (Await(t, g) /\ UNCHANGED rec)
    BY DEF ResumeCancel
  <1>3. g \in Frames /\ g.s = f.s /\ g.goal = f.goal /\ g.pc = "verify"
    BY <1>1, CallTruth DEF Frames, AwaitPcs, SetupPcs
  <1> HIDE DEF g
  <1>4. ToldRecords /\ ToldFrames
    BY <1>1, <1>2, <1>3, LegGoneTold, MoveOnTold DEF Closers, KillPcs, SetupPcs
  <1> QED
    BY <1>1, <1>4, SameSlotTold, SurveyTold DEF Told

\* So is the question whether a leg whose cancel was refused is gone.
LEMMA ResumeVerifyTold ==
    ASSUME TruthInv, TypeInv', NEW t \in Tasks, ResumeVerify(t)
    PROVE  Told
  <1> DEFINE f == frame[t]
             r == [rec[f.s] EXCEPT !.state = "PROTECTION_FAILED"]
  <1>1. frame[t].pc = "verify" /\ UNCHANGED <<active, survey, ex>>
    BY DEF ResumeVerify, Resume, exchangeVars
  <1>2. LegGone(t, f) \/ (SetRec(f.s, r) /\ Step(t, Back(f)))
    BY DEF ResumeVerify
  <1>3. f \in Frames /\ f.s \in Setups /\ Better(f.s, r)
    BY <1>1, CallTruth, StateIsBetter DEF SetupPcs, States, Verdicts
  <1> HIDE DEF r
  <1>4. ToldRecords /\ ToldFrames
    BY <1>1, <1>2, <1>3, LegGoneTold, SetRecTold, BackTold
  <1> QED
    BY <1>1, <1>4, SameSlotTold, SurveyTold DEF Told

\* The turn to the placement of a stop loss keeps the size.
LEMMA PlaceStopLossTold ==
    ASSUME TruthInv, TypeInv', UNCHANGED rec, NEW t \in Tasks,
           frame[t].pc \in SetupPcs, PlaceStopLoss(t, frame[t])
    PROVE  ToldRecords /\ ToldFrames
  <1> DEFINE g == [frame[t] EXCEPT !.pc = "place", !.role = "sl"]
  <1>1. /\ g \in Frames /\ g.s = frame[t].s /\ g.goal = frame[t].goal
        /\ g.pc = "place"
    BY CallTruth DEF Frames, AwaitPcs, Roles
  <1>2. Await(t, g)
    BY DEF PlaceStopLoss
  <1> HIDE DEF g
  <1> QED
    BY <1>1, <1>2, MoveOnTold DEF Closers, KillPcs

\* The entry order's echo is read.
LEMMA ResumeEchoTold ==
    ASSUME TruthInv, TypeInv', NEW t \in Tasks, ResumeEcho(t)
    PROVE  Told
  <1> DEFINE f == frame[t]
             g == [f EXCEPT !.pc = "openOrders"]
  <1>1. frame[t].pc = "echo" /\ UNCHANGED <<rec, active, survey, ex>>
    BY DEF ResumeEcho, Resume, exchangeVars
  <1>2. Await(t, g) \/ PlaceStopLoss(t, f)
    BY DEF ResumeEcho
  <1>3. g \in Frames /\ g.s = f.s /\ g.goal = f.goal /\ g.pc = "openOrders"
    BY <1>1, CallTruth DEF Frames, AwaitPcs, SetupPcs
  <1> HIDE DEF g
  <1>4. ToldRecords /\ ToldFrames
    BY <1>1, <1>2, <1>3, PlaceStopLossTold, MoveOnTold DEF Closers, KillPcs, SetupPcs
  <1> QED
    BY <1>1, <1>4, SameSlotTold, SurveyTold DEF Told

\* The open orders are searched for an attached bracket.
LEMMA ResumeOpenOrdersTold ==
    ASSUME TruthInv, TypeInv', NEW t \in Tasks, ResumeOpenOrders(t)
    PROVE  Told
  <1> DEFINE f == frame[t]
             q(i, j) == [rec[f.s] EXCEPT !.sl = i, !.tp = j, !.protected = f.goal,
                                         !.state = "PROTECTED_POSITION"]
  <1>1. frame[t].pc = "openOrders" /\ UNCHANGED <<active, survey, ex>>
    BY DEF ResumeOpenOrders, Resume, exchangeVars
  <1>2. /\ f \in Frames /\ f.s \in Setups /\ rec[f.s] \in Records
        /\ Better(f.s, rec[f.s]) /\ f.goal <= rec[f.s].filled
        /\ f.seen \subseteq LegIds
    BY <1>1, CallTruth DEF SetupPcs, TrueFrame, Frames
  <1>3. \/ \E i, j \in LegIds : Return(t, f, q(i, j))
        \/ PlaceStopLoss(t, f) /\ UNCHANGED rec
    BY <1>2 DEF ResumeOpenOrders, Adoptable
  <1>4. \A i, j \in LegIds : Better(f.s, q(i, j))
    <2> TAKE i, j \in LegIds
    <2>1. /\ q(i, j).filled = rec[f.s].filled /\ q(i, j).protected = f.goal
          /\ q(i, j).state = "PROTECTED_POSITION"
      BY <1>2 DEF Records
    <2> HIDE DEF q
    <2> QED
      BY <1>2, <2>1 DEF Better, TrueRecord, Verdicts
  <1> HIDE DEF q
  <1>5. ToldRecords /\ ToldFrames
    BY <1>1, <1>2, <1>3, <1>4, ReturnTold, PlaceStopLossTold DEF SetupPcs
  <1> QED
    BY <1>1, <1>5, SameSlotTold, SurveyTold DEF Told

\* The placement of a leg is answered.
LEMMA ResumePlaceTold ==
    ASSUME TruthInv, TypeInv', NEW t \in Tasks, ResumePlace(t)
    PROVE  Told
  <1> DEFINE f == frame[t]
             r == [rec[f.s] EXCEPT ![f.role] = f.oid]
             failed == [rec[f.s] EXCEPT !.state = "PROTECTION_FAILED"]
             done == [r EXCEPT !.protected = f.goal, !.state = "PROTECTED_POSITION"]
             g == [f EXCEPT !.role = "tp"]
  <1>1. frame[t].pc = "place" /\ UNCHANGED <<active, survey, ex>>
    BY DEF ResumePlace, Resume, exchangeVars
  <1>2. /\ f \in Frames /\ f.s \in Setups /\ rec[f.s] \in Records
        /\ Better(f.s, rec[f.s]) /\ f.goal <= rec[f.s].filled
        /\ f.role \in Roles /\ f.oid \in 0..MaxLegs /\ f.goal \in Amounts
    BY <1>1, CallTruth DEF SetupPcs, TrueFrame, Frames
  <1>3. r \in Records /\ Better(f.s, r) /\ r.filled = rec[f.s].filled
    BY <1>2, IdIsBetter
  <1>4. Better(f.s, failed)
    BY <1>2, StateIsBetter DEF States, Verdicts
  <1>5. Better(f.s, done)
    <2> HIDE DEF r
    <2>1. /\ done.filled = rec[f.s].filled /\ done.protected = f.goal
          /\ done.state = "PROTECTED_POSITION"
      BY <1>2, <1>3 DEF Records
    <2> HIDE DEF done
    <2> QED
      BY <1>2, <2>1 DEF Better, TrueRecord, Verdicts
  <1>6. /\ g \in Frames /\ g.s = f.s /\ g.goal = f.goal /\ g.pc = "place"
    BY <1>1, <1>2 DEF Frames, Roles
  <1>7. \/ Return(t, f, failed)
        \/ Return(t, f, done)
        \/ SetRec(f.s, r) /\ Await(t, g)
    BY DEF ResumePlace
  <1> HIDE DEF r, failed, done, g
  <1>8. CASE Return(t, f, failed) \/ Return(t, f, done)
    BY <1>1, <1>2, <1>4, <1>5, <1>8, ReturnTold, SameSlotTold, SurveyTold DEF Told
  <1>9. CASE SetRec(f.s, r) /\ Await(t, g)
    <2>1. ToldRecords /\ rec'[f.s] = r
      BY <1>2, <1>3, <1>9, SetRecTold
    <2>2. ToldFrames
      BY <1>2, <1>3, <1>6, <1>9, <2>1, AwaitTold DEF Closers, KillPcs
    <2> QED
      BY <1>1, <2>1, <2>2, SameSlotTold, SurveyTold DEF Told
  <1> QED
    BY <1>7, <1>8, <1>9

-----------------------------------------------------------------------------
(* The actions: submission and the private stream *)

\* A refusal keeps the record; an admitted setup suspends at its submission.
LEMMA AdmissionTold ==
    ASSUME TruthInv, TypeInv', NEW t \in Tasks, NEW s \in Setups,
           RefuseAtGateway(t, s) \/ Submit(t, s)
    PROVE  Told
  <1>1. PICK state \in {"ENTRY_REJECTED", "ENTRY_SUBMITTED"} :
            SetRec(s, [rec[s] EXCEPT !.state = state])
    BY DEF RefuseAtGateway, Submit
  <1>2. rec[s] \in Records /\ Better(s, rec[s])
    BY SameIsBetter DEF GoodRecords
  <1>3. Better(s, [rec[s] EXCEPT !.state = state])
    BY <1>2, StateIsBetter DEF States, RestingStates, TerminalStates, Verdicts
  <1>4. ToldRecords
    BY <1>1, <1>3, SetRecTold
  <1>5. UNCHANGED <<survey, ex>> /\ active \subseteq active'
    BY DEF RefuseAtGateway, Submit, exchangeVars
  <1>6. ToldFrames
    <2>1. CASE RefuseAtGateway(t, s)
      BY <1>4, <2>1, NoStepTold DEF RefuseAtGateway
    <2>2. CASE Submit(t, s)
      <3> DEFINE f == [IdleFrame EXCEPT !.pc = "post", !.s = s]
      <3>1. f \in Frames /\ f.s = s /\ f.goal = 0 /\ f.pc = "post"
        BY IdleIsGood DEF IdleFrame, GoodFrames, Frames, AwaitPcs
      <3>2. 0 <= rec'[s].filled
        BY FilledIsNat
      <3>3. Await(t, f)
        BY <2>2 DEF Submit
      <3> HIDE DEF f
      <3> QED
        BY <1>4, <3>1, <3>2, <3>3, AwaitTold DEF Closers, KillPcs
    <2> QED
      BY <2>1, <2>2
  <1>7. ToldSlot
    BY <1>5 DEF ToldSlot
  <1> QED
    BY <1>4, <1>5, <1>6, <1>7, SurveyTold DEF Told

\* The entry is accepted, rejected, or nobody knows.
LEMMA ResumePostTold ==
    ASSUME TruthInv, TypeInv', NEW t \in Tasks, ResumePost(t)
    PROVE  Told
  <1> DEFINE f == frame[t]
             r == [rec[f.s] EXCEPT !.entryId = TRUE]
             q(state) == [rec[f.s] EXCEPT !.state = state]
             States3 == {"ENTRY_REJECTED", "RECONCILIATION_REQUIRED"}
  <1>1. frame[t].pc = "post" /\ UNCHANGED <<active, survey, ex>>
    BY DEF ResumePost, Resume, exchangeVars
  <1>2. /\ f \in Frames /\ f.s \in Setups /\ rec[f.s] \in Records
        /\ Better(f.s, rec[f.s]) /\ f.amt \in Amounts /\ f.amt <= ex[f.s].got
    BY <1>1, CallTruth DEF SetupPcs, TrueFrame, Frames
  <1>3. r \in Records /\ Better(f.s, r)
    BY <1>2, IdIsBetter
  <1>4. \A state \in States3 : Better(f.s, q(state))
    BY <1>2, StateIsBetter DEF States, TerminalStates, Verdicts
  <1>5. \/ SetRec(f.s, r) /\ Stop(t)
        \/ OnFill(t, f, r, f.amt, f.reply = "filled")
        \/ \E state \in States3 : SetRec(f.s, q(state)) /\ Stop(t)
    BY DEF ResumePost, SubmitAccepted, SubmitRejected, SubmitUnknown
  <1> HIDE DEF r, q, States3
  <1>6. CASE OnFill(t, f, r, f.amt, f.reply = "filled")
    BY <1>1, <1>2, <1>3, <1>6, OnFillTold, SameSlotTold, SurveyTold DEF Told
  <1>7. CASE \/ SetRec(f.s, r) /\ Stop(t)
             \/ \E state \in States3 : SetRec(f.s, q(state)) /\ Stop(t)
    BY <1>1, <1>2, <1>3, <1>4, <1>7, SetRecTold, StopTold, SameSlotTold, SurveyTold
       DEF Told
  <1> QED
    BY <1>5, <1>6, <1>7

\* What the private stream reports of an entry is true.
LEMMA ReportsAreTrue ==
    ASSUME TruthInv, NEW s \in Setups
    PROVE  /\ \A e \in Reports(s) : ReportTrue(s, e.status, e.size)
           /\ \A n \in 1..ex[s].got : ReportTrue(s, "unstated", n)
  <1>1. ex[s].got \in 0..Qty /\ ex[s].got \in Nat
    BY TruthTypes DEF Amounts
  <1>2. \A e \in Reports(s) :
            \/ e.status = ex[s].entry /\ e.size = ex[s].got
            \/ e.status = "open" /\ e.size \in 0..ex[s].got
    BY DEF Reports
  <1> QED
    BY <1>1, <1>2, ConstantsAssumption DEF ReportTrue, Amounts

\* The frame of an event handler.
LEMMA StreamFrameGood ==
    ASSUME NEW s \in Setups
    PROVE  StreamFrame(s) \in Frames /\ StreamFrame(s).s = s
  BY IdleIsGood DEF StreamFrame, IdleFrame, GoodFrames, Frames

\* Order and fill events are observed.
LEMMA StreamTold ==
    ASSUME TruthInv, TypeInv', NEW t \in Tasks, NEW s \in Setups,
           OrderEvent(t, s) \/ FillEvent(t, s)
    PROVE  Told
  <1> DEFINE f == StreamFrame(s)
             r == [rec[s] EXCEPT !.entryId = TRUE]
  <1>1. f \in Frames /\ f.s = s
    BY StreamFrameGood
  <1>2. rec[s] \in Records /\ Better(s, rec[s])
    BY SameIsBetter DEF GoodRecords
  <1>3. r \in Records /\ Better(s, r)
    BY <1>2, IdIsBetter
  <1>4. \E status, size :
            /\ ReportTrue(s, status, size)
            /\ \/ ApplyEntry(t, f, r, status, size)
               \/ ApplyEntry(t, f, rec[s], status, size)
    BY ReportsAreTrue DEF OrderEvent, FillEvent
  <1> HIDE DEF f, r
  <1>5. ToldRecords /\ ToldFrames /\ ToldSlot
    BY <1>1, <1>2, <1>3, <1>4, ApplyEntryTold
  <1>6. UNCHANGED <<survey, ex>>
    BY DEF OrderEvent, FillEvent, exchangeVars
  <1> QED
    BY <1>5, <1>6, SurveyTold DEF Told

\* A closure begins, with the position flat, or is not believed.
LEMMA ClosureEventTold ==
    ASSUME TruthInv, TypeInv', NEW t \in Tasks, NEW s \in Setups, ClosureEvent(t, s)
    PROVE  Told
  <1> DEFINE f == [IdleFrame EXCEPT !.pc = "balance", !.s = s]
             r == [rec[s] EXCEPT !.state = "RECONCILIATION_REQUIRED"]
  <1>1. f \in Frames /\ f.s = s /\ f.goal = 0 /\ f.pc = "balance"
    BY IdleIsGood DEF IdleFrame, GoodFrames, Frames, AwaitPcs
  <1>2. /\ UNCHANGED <<active, survey, ex>>
        /\ ex[s].got > 0 /\ ex[s].pos = 0
        /\ \/ Await(t, f) /\ UNCHANGED rec
           \/ SetRec(s, r) /\ UNCHANGED frame
    BY DEF ClosureEvent, exchangeVars
  <1>3. rec[s] \in Records /\ Better(s, rec[s])
    BY SameIsBetter DEF GoodRecords
  <1>4. Better(s, r)
    BY <1>3, StateIsBetter DEF States, Verdicts
  <1> HIDE DEF f, r
  <1>5. ToldRecords
    BY <1>2, <1>4, SameRecTold, SetRecTold
  <1>6. 0 <= rec'[s].filled
    BY FilledIsNat
  <1>7. ToldFrames
    BY <1>1, <1>2, <1>5, <1>6, AwaitTold, NoStepTold DEF KillPcs
  <1> QED
    BY <1>2, <1>5, <1>7, SameSlotTold, SurveyTold DEF Told

\* A request from a fresh frame carries no size and is no closure.
LEMMA FreshAwaitTold ==
    ASSUME TruthInv, TypeInv', ToldRecords, NEW t \in Tasks, NEW f \in Frames,
           Await(t, f), f.goal = 0, f.pc \notin Closers,
           f.pc \in KillPcs => "kill" \in Duties[t]
    PROVE  ToldFrames
  <1>1. f.s \in Setups => 0 <= rec'[f.s].filled
    BY FilledIsNat
  <1> QED
    BY <1>1, AwaitTold

\* A resting entry is expired.
LEMMA ExpireTold ==
    ASSUME TruthInv, TypeInv', NEW t \in Tasks, NEW s \in Setups, Expire(t, s)
    PROVE  Told
  <1> DEFINE f == [IdleFrame EXCEPT !.s = s, !.then = "apply",
                       !.pc = IF rec[s].entryId THEN "expCancel" ELSE "expGet"]
  <1>1. f \in Frames /\ f.goal = 0 /\ f.pc \in {"expCancel", "expGet"}
    BY IdleIsGood DEF IdleFrame, GoodFrames, Frames, AwaitPcs
  <1>2. Await(t, f) /\ UNCHANGED <<rec, active, survey, ex>>
    BY DEF Expire, engineVars, exchangeVars
  <1> HIDE DEF f
  <1>3. ToldRecords
    BY <1>2, SameRecTold
  <1>4. ToldFrames
    BY <1>1, <1>2, <1>3, FreshAwaitTold DEF Closers, KillPcs
  <1> QED
    BY <1>2, <1>3, <1>4, SameSlotTold, SurveyTold DEF Told

\* The cancel of the expiry is answered.
LEMMA ResumeExpireCancelTold ==
    ASSUME TruthInv, TypeInv', NEW t \in Tasks, ResumeExpireCancel(t)
    PROVE  Told
  <1> DEFINE g == [frame[t] EXCEPT !.pc = "expGet"]
  <1>1. /\ frame[t].pc = "expCancel" /\ UNCHANGED <<rec, active, survey, ex>>
        /\ Await(t, g)
    BY DEF ResumeExpireCancel, Resume, engineVars, exchangeVars
  <1>2. g \in Frames /\ g.s = frame[t].s /\ g.goal = frame[t].goal /\ g.pc = "expGet"
    BY <1>1, CallTruth DEF Frames, AwaitPcs, SetupPcs
  <1> HIDE DEF g
  <1> QED
    BY <1>1, <1>2, MoveOnTold, SameSlotTold, SurveyTold
       DEF Told, Closers, KillPcs, SetupPcs

\* The verdict of the expiry: unfilled only if the exchange said it is dead.
LEMMA ResumeExpireGetTold ==
    ASSUME TruthInv, TypeInv', NEW t \in Tasks, ResumeExpireGet(t)
    PROVE  Told
  <1> DEFINE f == frame[t]
             b == rec[f.s].entryId \/ f.reply \notin {"error", "missing"}
             r == [rec[f.s] EXCEPT !.entryId = b]
             u == [r EXCEPT !.state = "RECONCILIATION_REQUIRED"]
  <1>1. frame[t].pc = "expGet" /\ UNCHANGED <<survey, ex>>
    BY DEF ResumeExpireGet, Resume, exchangeVars
  <1>2. /\ f \in Frames /\ f.s \in Setups /\ rec[f.s] \in Records
        /\ Better(f.s, rec[f.s]) /\ ReportTrue(f.s, f.reply, f.amt)
        /\ f.amt \in Nat
    BY <1>1, CallTruth, Bounds DEF SetupPcs, TrueFrame, Frames, ReportTrue, EntryReads
  <1>3. r \in Records /\ Better(f.s, r)
    <2>1. b \in BOOLEAN
      BY <1>2 DEF Records
    <2> HIDE DEF b
    <2> QED
      BY <1>2, <2>1, IdIsBetter
  <1>4. \/ ApplyEntry(t, f, r, f.reply, f.amt)
        \/ /\ ~(f.amt > 0) /\ f.reply = "cancelled"
           /\ Finalize(f.s, r, "ENTRY_TIMEOUT")
           /\ Stop(t)
        \/ SetRec(f.s, u) /\ Stop(t) /\ UNCHANGED active
    BY DEF ResumeExpireGet, DeadUnfilled, Unverified
  <1>5. Better(f.s, u)
    <2> HIDE DEF r
    <2> QED
      BY <1>2, <1>3, StateIsBetter DEF States, Verdicts
  <1> HIDE DEF r, u
  <1>6. CASE ApplyEntry(t, f, r, f.reply, f.amt)
    BY <1>1, <1>2, <1>3, <1>6, ApplyEntryTold, SurveyTold DEF Told
  <1>7. CASE /\ ~(f.amt > 0) /\ f.reply = "cancelled"
             /\ Finalize(f.s, r, "ENTRY_TIMEOUT")
             /\ Stop(t)
    <2>1. f.amt = 0
      BY <1>2, <1>7
    <2>2. Unfilled(f.s)
      BY <1>2, <1>7, <2>1 DEF ReportTrue, Unfilled
    <2>3. ToldRecords /\ ToldSlot
      BY <1>2, <1>3, <1>7, <2>2, FinalizeTold DEF Verdicts
    <2> QED
      BY <1>1, <1>7, <2>3, StopTold, SurveyTold DEF Told
  <1>8. CASE SetRec(f.s, u) /\ Stop(t) /\ UNCHANGED active
    BY <1>1, <1>2, <1>5, <1>8, SetRecTold, StopTold, SameSlotTold, SurveyTold
       DEF Told
  <1> QED
    BY <1>4, <1>6, <1>7, <1>8

-----------------------------------------------------------------------------
(* The actions: close_position and the kill switch *)

\* The closing call goes on to another leg.
LEMMA CloseLegTold ==
    ASSUME TruthInv, TypeInv', UNCHANGED rec, NEW t \in Tasks,
           NEW f \in Frames, f.s = frame[t].s, f.goal = frame[t].goal,
           frame[t].pc \in Closers, NEW role \in Roles,
           Await(t, CloseLegOf(f, rec[f.s], role))
    PROVE  ToldRecords /\ ToldFrames
  <1> DEFINE g == [f EXCEPT !.pc = "closeCancel", !.role = role, !.oid = rec[f.s][role]]
  <1>1. frame[t].pc \in SetupPcs
    BY DEF Closers, SetupPcs
  <1>2. rec[f.s][role] \in 0..MaxLegs
    BY <1>1, CallTruth DEF Records, Roles
  <1>3. g \in Frames /\ g.s = f.s /\ g.goal = f.goal /\ g.pc = "closeCancel"
    BY <1>2 DEF Frames, AwaitPcs
  <1>4. Await(t, g)
    BY DEF CloseLegOf
  <1> HIDE DEF g
  <1> QED
    BY <1>1, <1>3, <1>4, MoveOnTold DEF Closers, KillPcs

\* The closure ends: the trade is archived or everything is retained.
LEMMA FinishCloseTold ==
    ASSUME TruthInv, TypeInv', NEW t \in Tasks, frame[t].pc \in Closers, NEW f,
           f.s = frame[t].s, FinishClose(t, f, rec[f.s])
    PROVE  ToldRecords /\ ToldFrames /\ ToldSlot
  <1> DEFINE q(state) == [rec[f.s] EXCEPT !.state = state]
  <1>1. f.s \in Setups /\ rec[f.s] \in Records /\ Better(f.s, rec[f.s])
    BY CallTruth DEF Closers, SetupPcs
  <1>2. /\ Better(f.s, q("RECONCILIATION_REQUIRED"))
        /\ Better(f.s, q("POSITION_CLOSED"))
    BY <1>1, StateIsBetter DEF States, TerminalStates, Verdicts
  <1>3. /\ Stop(t)
        /\ \/ SetRec(f.s, q("RECONCILIATION_REQUIRED"))
           \/ SetRec(f.s, q("POSITION_CLOSED"))
        /\ active' \in {active, active \ {f.s}}
    BY DEF FinishClose, Finalize
  <1> HIDE DEF q
  <1>4. ToldRecords /\ ToldFrames
    BY <1>1, <1>2, <1>3, SetRecTold, StopTold
  <1>5. ToldSlot
    BY <1>3 DEF ToldSlot
  <1> QED
    BY <1>4, <1>5

\* The wallet was read; the closing call starts.
LEMMA ResumeBalanceTold ==
    ASSUME TruthInv, TypeInv', NEW t \in Tasks, ResumeBalance(t)
    PROVE  Told
  <1> DEFINE g == [frame[t] EXCEPT !.pc = "closing", !.reply = "none"]
  <1>1. /\ frame[t].pc = "balance" /\ UNCHANGED <<rec, active, survey, ex>>
        /\ Step(t, g)
    BY DEF ResumeBalance, Resume, exchangeVars
  <1>2. ToldRecords
    BY <1>1, SameRecTold
  <1>3. /\ frame[t] \in Frames /\ frame[t].s \in Setups
        /\ frame[t].goal <= rec[frame[t].s].filled
        /\ frame[t].amt <= ex[frame[t].s].got
    BY <1>1, CallTruth DEF TrueFrame, SetupPcs
  <1>4. /\ g.s = frame[t].s /\ g.goal = frame[t].goal /\ g.amt = frame[t].amt
        /\ g.pc = "closing"
    BY <1>3 DEF Frames
  <1> HIDE DEF g
  <1>5. TellsTrue(t, g)
    BY <1>1, <1>3, <1>4 DEF TellsTrue, TrueFrame, Closers, EntryReads, KillPcs
  <1> QED
    BY <1>1, <1>2, <1>5, StepTold, SameSlotTold, SurveyTold DEF Told

\* close_position starts.
LEMMA StartCloseTold ==
    ASSUME TruthInv, TypeInv', NEW t \in Tasks, StartClose(t)
    PROVE  Told
  <1> DEFINE f == frame[t]
             role == IF rec[f.s].sl # 0 THEN "sl" ELSE "tp"
  <1>1. f.pc = "closing" /\ UNCHANGED <<survey, ex>>
    BY DEF StartClose, Continue, exchangeVars
  <1>2. f \in Frames /\ f.pc \in Closers /\ role \in Roles
    BY <1>1, CallTruth DEF Closers, SetupPcs, Roles
  <1>3. \/ Stop(t) /\ UNCHANGED <<active, rec>>
        \/ FinishClose(t, f, rec[f.s])
        \/ Await(t, CloseLegOf(f, rec[f.s], role)) /\ UNCHANGED <<active, rec>>
    BY DEF StartClose
  <1> HIDE DEF role
  <1>4. ToldRecords /\ ToldFrames /\ ToldSlot
    BY <1>2, <1>3, SameRecTold, StopTold, FinishCloseTold, CloseLegTold, SameSlotTold
  <1> QED
    BY <1>1, <1>4, SurveyTold DEF Told

\* A leg of the closed position is gone, or may still rest.
LEMMA ResumeCloseTold ==
    ASSUME TruthInv, TypeInv', NEW t \in Tasks,
           ResumeCloseCancel(t) \/ ResumeCloseVerify(t)
    PROVE  Told
  <1> DEFINE f == frame[t]
             v == [f EXCEPT !.pc = "closeVerify"]
             b == f.bad \/ ~ConfirmedGone(f.reply)
             g == [f EXCEPT !.bad = b]
  <1>1. f.pc \in {"closeCancel", "closeVerify"} /\ UNCHANGED <<survey, ex>>
    BY DEF ResumeCloseCancel, ResumeCloseVerify, Resume, exchangeVars
  <1>2. f \in Frames /\ f.pc \in Closers /\ f.pc \in SetupPcs
    BY <1>1, CallTruth DEF Closers, SetupPcs
  <1>3. v \in Frames /\ v.s = f.s /\ v.goal = f.goal /\ v.pc = "closeVerify"
    BY <1>2 DEF Frames, AwaitPcs
  <1>4. g \in Frames /\ g.s = f.s /\ g.goal = f.goal
    <2>1. b \in BOOLEAN
      BY <1>2 DEF Frames, ConfirmedGone
    <2> HIDE DEF b
    <2> QED
      BY <1>2, <2>1 DEF Frames
  <1>5. \/ NextClose(t, f)
        \/ NextClose(t, g)
        \/ Await(t, v) /\ UNCHANGED <<active, rec>>
    BY DEF ResumeCloseCancel, ResumeCloseVerify
  <1> HIDE DEF v, g, b
  <1>6. ASSUME NEW h \in Frames, h.s = f.s, h.goal = f.goal, NextClose(t, h)
        PROVE  ToldRecords /\ ToldFrames /\ ToldSlot
    <2>1. \/ Await(t, CloseLegOf(h, rec[h.s], "tp")) /\ UNCHANGED <<active, rec>>
          \/ FinishClose(t, h, rec[h.s])
      BY <1>6 DEF NextClose
    <2> QED
      BY <1>2, <1>6, <2>1, CloseLegTold, FinishCloseTold, SameSlotTold DEF Roles
  <1>7. ToldRecords /\ ToldFrames /\ ToldSlot
    BY <1>2, <1>3, <1>4, <1>5, <1>6, MoveOnTold, SameSlotTold DEF Closers, KillPcs
  <1> QED
    BY <1>1, <1>7, SurveyTold DEF Told

\* The kill loop goes on in a task whose duty it is.
LEMMA KillLoopTold ==
    ASSUME TruthInv, TypeInv', ToldRecords, NEW t \in Tasks, "kill" \in Duties[t],
           Step(t, [IdleFrame EXCEPT !.pc = "killNext"])
    PROVE  ToldFrames
  <1>1. TellsTrue(t, [IdleFrame EXCEPT !.pc = "killNext"])
    BY ConstantsAssumption DEF TellsTrue, IdleFrame, Closers
  <1> QED
    BY <1>1, StepTold

\* activate_kill_switch starts.
LEMMA KillSwitchTold ==
    ASSUME TruthInv, TypeInv', NEW t \in Tasks, KillSwitch(t)
    PROVE  Told
  <1>1. /\ UNCHANGED <<rec, active, survey, ex>> /\ "kill" \in Duties[t]
        /\ Step(t, [IdleFrame EXCEPT !.pc = "killNext"])
    BY DEF KillSwitch, Begin, exchangeVars
  <1> QED
    BY <1>1, SameRecTold, KillLoopTold, SameSlotTold, SurveyTold DEF Told

\* The kill loop drops a trade.
LEMMA KillArchiveTold ==
    ASSUME TruthInv, TypeInv', NEW t \in Tasks, frame[t].pc \in KillPcs,
           NEW s \in Setups, KillArchive(t, s)
    PROVE  ToldRecords /\ ToldFrames /\ ToldSlot
  <1> DEFINE r == [rec[s] EXCEPT !.state = "KILL_SWITCH_TRIGGERED"]
  <1>1. rec[s] \in Records /\ Better(s, rec[s])
    BY SameIsBetter DEF GoodRecords
  <1>2. Better(s, r)
    BY <1>1, StateIsBetter DEF States, Verdicts
  <1>3. SetRec(s, r)
    BY DEF KillArchive
  <1> HIDE DEF r
  <1>4. ToldRecords
    BY <1>2, <1>3, SetRecTold
  <1>5. "kill" \in Duties[t]
    BY DEF TruthInv, KillsOnDuty
  <1>6. Stop(t) \/ Step(t, [IdleFrame EXCEPT !.pc = "killNext"])
    BY DEF KillArchive
  <1>7. ToldFrames
    BY <1>4, <1>5, <1>6, StopTold, KillLoopTold
  <1>8. ToldSlot
    BY DEF ToldSlot
  <1> QED
    BY <1>4, <1>7, <1>8

\* The kill loop takes the next pending trade or ends.
LEMMA KillNextTold ==
    ASSUME TruthInv, TypeInv', NEW t \in Tasks, KillNext(t)
    PROVE  Told
  <1>1. frame[t].pc = "killNext" /\ UNCHANGED <<survey, ex>>
    BY DEF KillNext, Continue, exchangeVars
  <1>2. frame[t].pc \in KillPcs /\ "kill" \in Duties[t]
    BY <1>1 DEF KillPcs, TruthInv, KillsOnDuty
  <1>3. \/ Stop(t) /\ UNCHANGED <<active, rec>>
        \/ \E s \in Setups :
             \/ KillArchive(t, s)
             \/ /\ Await(t, [IdleFrame EXCEPT !.pc = "killCancel", !.s = s])
                /\ UNCHANGED <<active, rec>>
    BY DEF KillNext
  <1>4. ASSUME NEW s \in Setups, UNCHANGED <<active, rec>>,
               Await(t, [IdleFrame EXCEPT !.pc = "killCancel", !.s = s])
        PROVE  ToldRecords /\ ToldFrames /\ ToldSlot
    <2> DEFINE f == [IdleFrame EXCEPT !.pc = "killCancel", !.s = s]
    <2>1. f \in Frames /\ f.goal = 0 /\ f.pc = "killCancel"
      BY IdleIsGood DEF IdleFrame, GoodFrames, Frames, AwaitPcs
    <2>2. Await(t, f)
      BY <1>4
    <2> HIDE DEF f
    <2>3. ToldRecords
      BY <1>4, SameRecTold
    <2> QED
      BY <1>2, <1>4, <2>1, <2>2, <2>3, FreshAwaitTold, SameSlotTold DEF Closers
  <1>5. ToldRecords /\ ToldFrames /\ ToldSlot
    BY <1>2, <1>3, <1>4, KillArchiveTold, SameRecTold, StopTold, SameSlotTold
  <1> QED
    BY <1>1, <1>5, SurveyTold DEF Told

\* The cancel of the kill loop, or the question whether it worked, is answered.
LEMMA ResumeKillTold ==
    ASSUME TruthInv, TypeInv', NEW t \in Tasks,
           ResumeKillCancel(t) \/ ResumeKillVerify(t)
    PROVE  Told
  <1> DEFINE f == frame[t]
             v == [f EXCEPT !.pc = "killVerify"]
             r == [rec[f.s] EXCEPT !.state = "RECONCILIATION_REQUIRED"]
  <1>1. f.pc \in {"killCancel", "killVerify"} /\ UNCHANGED <<survey, ex>>
    BY DEF ResumeKillCancel, ResumeKillVerify, Resume, exchangeVars
  <1>2. f \in Frames /\ f.s \in Setups /\ f.pc \in KillPcs /\ f.pc \in SetupPcs
    BY <1>1, CallTruth DEF KillPcs, SetupPcs
  <1>3. v \in Frames /\ v.s = f.s /\ v.goal = f.goal /\ v.pc = "killVerify"
    BY <1>2 DEF Frames, AwaitPcs
  <1>4. Better(f.s, r)
    BY <1>2, CallTruth, StateIsBetter DEF States, Verdicts
  <1>5. \/ KillArchive(t, f.s)
        \/ Await(t, v) /\ UNCHANGED <<active, rec>>
        \/ /\ SetRec(f.s, r) /\ UNCHANGED active
           /\ Step(t, [IdleFrame EXCEPT !.pc = "killNext"])
    BY DEF ResumeKillCancel, ResumeKillVerify
  <1> HIDE DEF v, r
  <1>6. "kill" \in Duties[t]
    BY <1>2 DEF TruthInv, KillsOnDuty
  <1>7. ToldRecords /\ ToldFrames /\ ToldSlot
    BY <1>2, <1>3, <1>4, <1>5, <1>6, KillArchiveTold, MoveOnTold, SetRecTold,
       KillLoopTold, SameSlotTold DEF Closers
  <1> QED
    BY <1>1, <1>7, SurveyTold DEF Told

-----------------------------------------------------------------------------
(* The actions: reconciliation *)

\* A pass starts.
LEMMA ReconcileTold ==
    ASSUME TruthInv, TypeInv', NEW t \in Tasks, Reconcile(t)
    PROVE  Told
  <1> DEFINE f == [IdleFrame EXCEPT !.pc = "recPositions"]
  <1>1. f \in Frames /\ f.goal = 0 /\ f.pc = "recPositions"
    BY IdleIsGood DEF IdleFrame, GoodFrames, Frames, AwaitPcs
  <1>2. /\ Await(t, f) /\ survey' = NoSurvey /\ UNCHANGED <<active, rec, ex>>
    BY DEF Reconcile, engineVars, exchangeVars
  <1> HIDE DEF f
  <1>3. ToldRecords
    BY <1>2, SameRecTold
  <1>4. ToldFrames
    BY <1>1, <1>2, <1>3, FreshAwaitTold DEF Closers, KillPcs
  <1> QED
    BY <1>2, <1>3, <1>4, SameSlotTold, SurveyTold DEF Told

\* A snapshot arrives.
LEMMA ResumeSnapshotTold ==
    ASSUME TruthInv, TypeInv', NEW t \in Tasks, ResumeSnapshot(t)
    PROVE  Told
  <1> DEFINE f == [IdleFrame EXCEPT !.pc = "recOrders"]
  <1>1. f \in Frames /\ f.goal = 0 /\ f.pc = "recOrders"
    BY IdleIsGood DEF IdleFrame, GoodFrames, Frames, AwaitPcs
  <1>2. /\ \/ Stop(t)
           \/ Step(t, [IdleFrame EXCEPT !.pc = "recNext"])
           \/ Await(t, f)
        /\ UNCHANGED <<active, rec, ex>>
    BY DEF ResumeSnapshot, exchangeVars
  <1>3. survey'.pos = survey.pos
    BY TruthTypes DEF ResumeSnapshot, TypeInv, Surveys
  <1> HIDE DEF f
  <1>4. ToldRecords
    BY <1>2, SameRecTold
  <1>5. ToldFrames
    BY <1>1, <1>2, <1>4, FreshAwaitTold, StopTold DEF Closers, KillPcs
  <1> QED
    BY <1>2, <1>3, <1>4, <1>5, SameSlotTold, SurveyTold DEF Told

\* A pass ends.
LEMMA FinishReconcileTold ==
    ASSUME TruthInv, TypeInv', NEW t \in Tasks, FinishReconcile(t)
    PROVE  Told
  <1>1. /\ Stop(t) /\ survey' = NoSurvey /\ UNCHANGED <<active, rec, ex>>
    BY DEF FinishReconcile, exchangeVars
  <1> QED
    BY <1>1, SameRecTold, StopTold, SameSlotTold, SurveyTold DEF Told

\* The next record is visited.
LEMMA VisitRecordTold ==
    ASSUME TruthInv, TypeInv', NEW t \in Tasks, VisitRecord(t)
    PROVE  Told
  <1>1. PICK s \in survey.todo :
            /\ \/ UNCHANGED frame
               \/ Await(t, [IdleFrame EXCEPT !.pc = "recGet", !.s = s,
                                             !.then = "recCheck"])
               \/ Step(t, [IdleFrame EXCEPT !.pc = "recCheck", !.s = s])
            /\ survey' =
                   [survey EXCEPT
                    !.todo = @ \ {s},
                    !.claimed = @ \cup {s},
                    !.claimedEntries = @ \cup {e \in {s} : rec[s].entryId},
                    !.claimedLegs = @ \cup {rec[s].sl, rec[s].tp},
                    !.dirty = @ \/ (NeedsRefresh(rec[s]) /\ s \notin active)]
    BY DEF VisitRecord
  <1>2. UNCHANGED <<active, rec, ex>>
    BY DEF VisitRecord, engineVars, exchangeVars
  <1>3. survey \in Surveys /\ s \in Setups
    BY TruthTypes DEF TypeInv, Surveys
  <1>4. survey'.pos = survey.pos
    BY <1>1, <1>3 DEF Surveys
  <1> DEFINE f == [IdleFrame EXCEPT !.pc = "recGet", !.s = s, !.then = "recCheck"]
             g == [IdleFrame EXCEPT !.pc = "recCheck", !.s = s]
  <1>5. /\ f \in Frames /\ f.goal = 0 /\ f.pc = "recGet"
        /\ g.s = s /\ g.goal = 0 /\ g.amt = 0 /\ g.pc = "recCheck"
    BY <1>3, IdleIsGood DEF IdleFrame, GoodFrames, Frames, AwaitPcs
  <1>6. UNCHANGED frame \/ Await(t, f) \/ Step(t, g)
    BY <1>1
  <1> HIDE DEF f, g
  <1>7. ToldRecords
    BY <1>2, SameRecTold
  <1>8. 0 <= rec'[s].filled /\ 0 <= ex[s].got
    BY <1>3, FilledIsNat, TruthTypes
  <1>9. TellsTrue(t, g)
    BY <1>3, <1>5, <1>8 DEF TellsTrue, TrueFrame, EntryReads, Closers, KillPcs
  <1>10. ToldFrames
    BY <1>5, <1>6, <1>7, <1>9, FreshAwaitTold, StepTold, NoStepTold DEF Closers, KillPcs
  <1> QED
    BY <1>2, <1>4, <1>7, <1>10, SameSlotTold, SurveyTold DEF Told

\* A resting entry was read back.
LEMMA ResumeRefreshTold ==
    ASSUME TruthInv, TypeInv', NEW t \in Tasks, ResumeRefresh(t)
    PROVE  Told
  <1> DEFINE f == frame[t]
             r == [rec[f.s] EXCEPT !.entryId = TRUE]
  <1>1. f.pc = "recGet" /\ UNCHANGED ex
    BY DEF ResumeRefresh, Resume, exchangeVars
  <1>2. /\ f \in Frames /\ f.s \in Setups /\ rec[f.s] \in Records
        /\ Better(f.s, rec[f.s]) /\ ReportTrue(f.s, f.reply, f.amt)
    BY <1>1, CallTruth DEF SetupPcs, TrueFrame, Frames, ReportTrue, EntryReads
  <1>3. r \in Records /\ Better(f.s, r)
    BY <1>2, IdIsBetter
  <1>4. \/ /\ survey' = [survey EXCEPT !.dirty = TRUE]
           /\ Step(t, [IdleFrame EXCEPT !.pc = "recNext"])
           /\ UNCHANGED <<active, rec>>
        \/ ApplyEntry(t, f, r, f.reply, f.amt) /\ UNCHANGED survey
    BY DEF ResumeRefresh
  <1> HIDE DEF r
  <1>5. survey'.pos = survey.pos
    <2>1. [survey EXCEPT !.dirty = TRUE].pos = survey.pos
      BY TruthTypes DEF TypeInv, Surveys
    <2> QED
      BY <1>4, <2>1
  <1>6. ToldRecords /\ ToldFrames /\ ToldSlot
    BY <1>2, <1>3, <1>4, ApplyEntryTold, SameRecTold, StopTold, SameSlotTold
  <1> QED
    BY <1>1, <1>5, <1>6, SurveyTold DEF Told

\* Dead legs are forgotten; the size of the snapshot has been filled.
LEMMA ForgetIsBetter ==
    ASSUME TruthInv, NEW s \in Setups, NEW size \in Amounts, size <= ex[s].got
    PROVE  /\ ForgetDeadLegs(rec[s], size) \in Records
           /\ Better(s, ForgetDeadLegs(rec[s], size))
           /\ size <= ForgetDeadLegs(rec[s], size).filled
  <1> DEFINE r == rec[s]
             known == Larger(r.filled, size)
  <1>1. r \in Records /\ Better(s, r)
    BY SameIsBetter DEF GoodRecords
  <1>2. /\ r.filled \in Amounts /\ r.filled \in Nat /\ size \in Nat
        /\ r.protected \in Nat /\ r.filled <= ex[s].got /\ r.protected <= r.filled
    BY <1>1, Bounds DEF Records, Better, TrueRecord
  <1>3. /\ known \in Amounts /\ known \in Nat /\ r.filled <= known /\ size <= known
        /\ known <= ex[s].got
    BY <1>2, Bounds, LargerBound DEF Larger
  <1>4. r.protected <= known /\ 0 <= known
    BY <1>2, <1>3
  <1> HIDE DEF known
  <1>5. PICK sl, tp \in 0..MaxLegs, protected \in {0, r.protected} :
            ForgetDeadLegs(r, size) =
                [r EXCEPT !.sl = sl, !.tp = tp, !.filled = known,
                          !.protected = protected]
    <2>1. r.sl \in 0..MaxLegs /\ r.tp \in 0..MaxLegs /\ 0 \in 0..MaxLegs
      BY <1>1, Bounds DEF Records
    <2> HIDE DEF r
    <2> QED
      BY <2>1 DEF ForgetDeadLegs, known
  <1> DEFINE q == [r EXCEPT !.sl = sl, !.tp = tp, !.filled = known,
                            !.protected = protected]
  <1>6. /\ q \in Records /\ q.filled = known /\ q.protected = protected
        /\ q.state = r.state
    <2>1. protected \in Amounts
      BY <1>1, <1>5, Bounds DEF Records
    <2> HIDE DEF r
    <2> QED
      BY <1>1, <1>3, <2>1 DEF Records
  <1> HIDE DEF q
  <1>7. Better(s, q)
    BY <1>1, <1>3, <1>4, <1>5, <1>6 DEF Better, TrueRecord
  <1> QED
    BY <1>3, <1>5, <1>6, <1>7 DEF q

\* A record is compared with the snapshot.
LEMMA CheckRecordTold ==
    ASSUME TruthInv, TypeInv', NEW t \in Tasks, CheckRecord(t)
    PROVE  Told
  <1> DEFINE s == frame[t].s
             size == survey.pos[s]
             f == [IdleFrame EXCEPT !.s = s, !.then = "recDone"]
             r == [rec[s] EXCEPT !.state = "RECONCILIATION_REQUIRED"]
             next == Step(t, [IdleFrame EXCEPT !.pc = "recNext"])
  <1>1. frame[t].pc = "recCheck" /\ UNCHANGED <<active, ex>>
    BY DEF CheckRecord, Continue, exchangeVars
  <1>2. /\ s \in Setups /\ rec[s] \in Records /\ Better(s, rec[s])
        /\ size \in Amounts /\ size <= ex[s].got
    BY <1>1, CallTruth, TruthTypes DEF SetupPcs, TruthInv, SurveyTrue
  <1>3. Better(s, r)
    BY <1>2, StateIsBetter DEF States, Verdicts
  <1>4. f \in Frames /\ f.s = s
    BY <1>2, IdleIsGood DEF IdleFrame, GoodFrames, Frames
  <1>5. \/ next /\ UNCHANGED <<rec, survey>>
        \/ /\ SetRec(s, r) /\ next
           /\ survey' = [survey EXCEPT !.dirty = TRUE]
        \/ /\ BeginProtection(t, f, ForgetDeadLegs(rec[s], size), size)
           /\ UNCHANGED survey
    BY DEF CheckRecord
  <1>6. survey'.pos = survey.pos
    BY <1>5, TruthTypes DEF TypeInv, Surveys
  <1> HIDE DEF f, r, size, s
  <1>7. CASE next /\ UNCHANGED <<rec, survey>>
    BY <1>1, <1>6, <1>7, SameRecTold, StopTold, SameSlotTold, SurveyTold DEF Told
  <1>8. CASE SetRec(s, r) /\ next
    BY <1>1, <1>2, <1>3, <1>6, <1>8, SetRecTold, StopTold, SameSlotTold, SurveyTold
       DEF Told
  <1>9. CASE BeginProtection(t, f, ForgetDeadLegs(rec[s], size), size)
    <2>1. /\ ForgetDeadLegs(rec[s], size) \in Records
          /\ Better(s, ForgetDeadLegs(rec[s], size))
          /\ size <= ForgetDeadLegs(rec[s], size).filled
      BY <1>2, ForgetIsBetter
    <2>2. ToldRecords /\ ToldFrames
      BY <1>2, <1>4, <1>9, <2>1, BeginProtectionTold
    <2> QED
      BY <1>1, <1>6, <2>2, SameSlotTold, SurveyTold DEF Told
  <1> QED
    BY <1>5, <1>7, <1>8, <1>9

\* The protection of a record has been seen to.
LEMMA RecordDoneTold ==
    ASSUME TruthInv, TypeInv', NEW t \in Tasks, RecordDone(t)
    PROVE  Told
  <1>1. /\ Step(t, [IdleFrame EXCEPT !.pc = "recNext"]) /\ UNCHANGED <<active, rec, ex>>
    BY DEF RecordDone, exchangeVars
  <1>2. survey'.pos = survey.pos
    BY TruthTypes DEF RecordDone, TypeInv, Surveys
  <1> QED
    BY <1>1, <1>2, SameRecTold, StopTold, SameSlotTold, SurveyTold DEF Told

-----------------------------------------------------------------------------
(* The exchange *)

\* What is filled stays filled, and a dead entry fills no more.
Grown ==
    \A s \in Setups :
        /\ ex[s].got <= ex'[s].got
        /\ ex[s].entry = "cancelled" =>
               ex'[s].entry = "cancelled" /\ ex'[s].got = ex[s].got
        /\ ex'[s].entry = "none" => ex'[s].got = 0

\* A call learns nothing of its entry that is not true.
Heard ==
    \A u \in Tasks :
        /\ frame'[u].pc = frame[u].pc
        /\ frame'[u].s = frame[u].s
        /\ frame'[u].goal = frame[u].goal
        /\ \/ /\ frame'[u].amt = frame[u].amt
              /\ frame[u].pc \in EntryReads /\ frame'[u].reply = "cancelled" =>
                     frame[u].reply = "cancelled"
           \/ /\ frame'[u].amt = ex'[frame[u].s].got
              /\ frame'[u].reply = "cancelled" => ex'[frame[u].s].entry = "cancelled"

Moved ==
    /\ UNCHANGED <<active, rec>>
    /\ Grown
    /\ Heard
    /\ survey'.pos = survey.pos \/ \A s \in Setups : survey'.pos[s] = ex[s].pos

\* Nothing changes at the exchange.
LEMMA SameGrown ==
    ASSUME TruthInv, UNCHANGED ex
    PROVE  Grown
  BY TruthTypes DEF Grown, TruthInv, NothingFilled

\* One order changes.
LEMMA SetOrderGrown ==
    ASSUME TruthInv, NEW s \in Setups, NEW o, SetOrder(s, o),
           ex[s].got <= o.got,
           ex[s].entry = "cancelled" => o.entry = "cancelled" /\ o.got = ex[s].got,
           o.entry = "none" => o.got = 0
    PROVE  Grown
  <1>1. ex'[s] = o /\ \A x \in Setups \ {s} : ex'[x] = ex[x]
    BY TruthTypes DEF SetOrder, TypeInv
  <1> QED
    BY <1>1, TruthTypes DEF Grown, TruthInv, NothingFilled

\* No call is answered.
LEMMA SameHeard ==
    ASSUME UNCHANGED frame
    PROVE  Heard
  BY DEF Heard

\* A call is answered without a status of its entry.
LEMMA AnswerHeard ==
    ASSUME TruthInv, NEW t \in Tasks, NEW reply, Answer(t, reply),
           reply = "cancelled" => frame[t].pc \notin EntryReads
    PROVE  Heard
  <1> DEFINE g == [frame[t] EXCEPT !.reply = reply]
  <1>1. frame \in [Tasks -> Frames]
    BY TruthTypes DEF TypeInv, GoodFrames
  <1>2. frame' = [frame EXCEPT ![t] = g]
    BY DEF Answer
  <1>3. /\ g.pc = frame[t].pc /\ g.s = frame[t].s /\ g.goal = frame[t].goal
        /\ g.amt = frame[t].amt /\ g.reply = reply
    BY <1>1 DEF Frames
  <1> HIDE DEF g
  <1> QED
    BY <1>1, <1>2, <1>3 DEF Heard

\* Requests that failed, and questions about legs, orders and the wallet.
LEMMA RepliesMoved ==
    ASSUME TruthInv, NEW t \in Tasks,
           \/ AnswerError(t) \/ AnswerRefused(t) \/ RefuseEntry(t)
           \/ ReadEcho(t) \/ ReadLeg(t) \/ ReadBalance(t)
    PROVE  Moved
  <1>1. UNCHANGED <<active, rec, survey, ex>>
    BY DEF AnswerError, AnswerRefused, RefuseEntry, ReadEcho, ReadLeg, ReadBalance,
           engineVars, exchangeVars
  <1>2. \E reply : /\ Answer(t, reply)
                   /\ reply = "cancelled" => frame[t].pc \notin EntryReads
    <2>1. CASE \/ AnswerError(t) \/ AnswerRefused(t) \/ RefuseEntry(t)
               \/ ReadBalance(t)
      BY <2>1 DEF AnswerError, AnswerRefused, RefuseEntry, ReadBalance
    <2>2. CASE ReadEcho(t) \/ ReadLeg(t)
      <3>1. frame[t].pc \notin EntryReads
        BY <2>2 DEF ReadEcho, ReadLeg, Awaiting, EntryReads
      <3> QED
        BY <2>2, <3>1 DEF ReadEcho, ReadLeg
    <2> QED
      BY <2>1, <2>2
  <1> QED
    BY <1>1, <1>2, SameGrown, AnswerHeard DEF Moved

\* A leg is cancelled, placed or listed.
LEMMA LegRepliesMoved ==
    ASSUME TruthInv, NEW t \in Tasks,
           CancelLeg(t) \/ PlaceLeg(t) \/ ReadOpenOrders(t)
    PROVE  Moved
  <1>1. UNCHANGED <<active, rec, survey, ex>>
    BY DEF CancelLeg, PlaceLeg, ReadOpenOrders, engineVars, exchangeVars
  <1>2. frame \in [Tasks -> Frames]
    BY TruthTypes DEF TypeInv, GoodFrames
  <1>3. \/ Answer(t, "ok") \/ Answer(t, "error")
        \/ \E i : frame' = [frame EXCEPT ![t].reply = "ok", ![t].oid = i]
        \/ \E q : frame' = [frame EXCEPT ![t].reply = "ok", ![t].seen = q]
    BY DEF CancelLeg, AnswerOrLose, PlaceLeg, ReadOpenOrders
  <1>4. ASSUME NEW i, frame' = [frame EXCEPT ![t].reply = "ok", ![t].oid = i]
        PROVE  Heard
    <2> DEFINE g == [frame[t] EXCEPT !.reply = "ok", !.oid = i]
    <2>1. frame' = [frame EXCEPT ![t] = g]
      BY <1>4
    <2>2. /\ g.pc = frame[t].pc /\ g.s = frame[t].s /\ g.goal = frame[t].goal
          /\ g.amt = frame[t].amt /\ g.reply = "ok"
      BY <1>2 DEF Frames
    <2> HIDE DEF g
    <2> QED
      BY <1>2, <2>1, <2>2 DEF Heard
  <1>5. ASSUME NEW q, frame' = [frame EXCEPT ![t].reply = "ok", ![t].seen = q]
        PROVE  Heard
    <2> DEFINE g == [frame[t] EXCEPT !.reply = "ok", !.seen = q]
    <2>1. frame' = [frame EXCEPT ![t] = g]
      BY <1>5
    <2>2. /\ g.pc = frame[t].pc /\ g.s = frame[t].s /\ g.goal = frame[t].goal
          /\ g.amt = frame[t].amt /\ g.reply = "ok"
      BY <1>2 DEF Frames
    <2> HIDE DEF g
    <2> QED
      BY <1>2, <2>1, <2>2 DEF Heard
  <1>6. Heard
    BY <1>3, <1>4, <1>5, AnswerHeard
  <1> QED
    BY <1>1, <1>6, SameGrown DEF Moved

\* An entry is accepted: nothing was filled of it before.
LEMMA AcceptEntryMoved ==
    ASSUME TruthInv, NEW t \in Tasks, AcceptEntry(t)
    PROVE  Moved
  <1> DEFINE s == frame[t].s
  <1>1. frame[t].pc = "post" /\ frame[t].reply = "wait"
    BY DEF AcceptEntry, Awaiting
  <1>2. s \in Setups /\ frame \in [Tasks -> Frames]
    BY <1>1, CallTruth, TruthTypes DEF SetupPcs, TypeInv, GoodFrames
  <1>3. ex[s].entry = "none" /\ ex[s].got = 0
    BY <1>1, <1>2 DEF TruthInv, LockInv, UnansweredIsUntouched, Submitting, Untouched,
       NothingFilled
  <1> DEFINE status(n) == IF n = Qty THEN "filled" ELSE "open"
             order(n, b) == [entry |-> status(n), got |-> n, pos |-> n, bracket |-> b]
  <1>4. PICK n \in Amounts, bracket \in Brackets :
            /\ SetOrder(s, order(n, bracket))
            /\ \/ frame' = [frame EXCEPT ![t].reply = status(n), ![t].amt = n]
               \/ \E reply \in {"timeout", "error"} : Answer(t, reply)
    BY DEF AcceptEntry
  <1>5. /\ order(n, bracket).got = n /\ order(n, bracket).entry = status(n)
        /\ status(n) \in {"filled", "open"} /\ 0 <= n
    BY Bounds
  <1> HIDE DEF status, order
  <1>6. Grown
    BY <1>2, <1>3, <1>4, <1>5, SetOrderGrown
  <1>7. ex'[s].got = n
    BY <1>2, <1>4, <1>5, TruthTypes DEF SetOrder, TypeInv
  <1>8. Heard
    <2>1. CASE frame' = [frame EXCEPT ![t].reply = status(n), ![t].amt = n]
      <3> DEFINE g == [frame[t] EXCEPT !.reply = status(n), !.amt = n]
      <3>1. frame' = [frame EXCEPT ![t] = g]
        BY <2>1
      <3>2. /\ g.pc = frame[t].pc /\ g.s = frame[t].s /\ g.goal = frame[t].goal
            /\ g.amt = n /\ g.reply = status(n)
        BY <1>2 DEF Frames
      <3> HIDE DEF g
      <3> QED
        BY <1>2, <1>5, <1>7, <3>1, <3>2 DEF Heard
    <2>2. CASE \E reply \in {"timeout", "error"} : Answer(t, reply)
      BY <2>2, AnswerHeard
    <2> QED
      BY <1>4, <2>1, <2>2
  <1>9. UNCHANGED <<active, rec, survey>>
    BY DEF AcceptEntry, engineVars
  <1> QED
    BY <1>6, <1>8, <1>9 DEF Moved

\* An entry is cancelled: what it has filled stays.
LEMMA CancelEntryMoved ==
    ASSUME TruthInv, NEW t \in Tasks, CancelEntry(t)
    PROVE  Moved
  <1> DEFINE s == frame[t].s
             o == [ex[s] EXCEPT !.entry = "cancelled"]
  <1>1. /\ frame[t].pc \in EntryCancelPcs /\ SetOrder(s, o)
        /\ \E reply \in {"ok", "error"} : Answer(t, reply)
        /\ UNCHANGED <<active, rec, survey>>
    BY DEF CancelEntry, Awaiting, AnswerOrLose, engineVars
  <1>2. s \in Setups
    BY <1>1, CallTruth DEF EntryCancelPcs, SetupPcs
  <1>3. o.got = ex[s].got /\ o.entry = "cancelled" /\ ex[s].got <= ex[s].got
    BY <1>2, TruthTypes DEF TypeInv, GoodOrders, Orders
  <1> HIDE DEF o, s
  <1>4. Grown
    BY <1>1, <1>2, <1>3, SetOrderGrown
  <1>5. Heard
    BY <1>1, AnswerHeard
  <1> QED
    BY <1>1, <1>4, <1>5 DEF Moved

\* An entry is read: its status, and what it has filled so far.
LEMMA ReadEntryMoved ==
    ASSUME TruthInv, NEW t \in Tasks, ReadEntry(t)
    PROVE  Moved
  <1> DEFINE s == frame[t].s
             reply == IF ex[s].entry # "none" THEN ex[s].entry ELSE "missing"
             g == [frame[t] EXCEPT !.reply = reply, !.amt = ex[s].got]
  <1>1. UNCHANGED <<active, rec, survey, ex>>
    BY DEF ReadEntry, engineVars, exchangeVars
  <1>2. frame \in [Tasks -> Frames]
    BY TruthTypes DEF TypeInv, GoodFrames
  <1>3. frame' = [frame EXCEPT ![t] = g]
    BY DEF ReadEntry
  <1>4. reply = "cancelled" => ex[s].entry = "cancelled"
    OBVIOUS
  <1>5. /\ g.pc = frame[t].pc /\ g.s = s /\ g.goal = frame[t].goal
        /\ g.amt = ex[s].got /\ g.reply = reply
    BY <1>2 DEF Frames
  <1> HIDE DEF g, reply
  <1>6. Heard
    BY <1>1, <1>2, <1>3, <1>4, <1>5 DEF Heard
  <1> QED
    BY <1>1, <1>6, SameGrown DEF Moved

\* The snapshots of a reconciliation pass.
LEMMA SnapshotMoved ==
    ASSUME TruthInv, NEW t \in Tasks, ReadPositions(t) \/ ReadAllOrders(t)
    PROVE  Moved
  <1>1. Answer(t, "ok") /\ UNCHANGED <<active, rec, ex>>
    BY DEF ReadPositions, ReadAllOrders, engineVars, exchangeVars
  <1>2. survey'.pos = survey.pos \/ \A s \in Setups : survey'.pos[s] = ex[s].pos
    <2>1. survey \in Surveys
      BY TruthTypes DEF TypeInv
    <2>2. CASE ReadPositions(t)
      <3> DEFINE p == [s \in Setups |-> ex[s].pos]
      <3>1. survey' = [survey EXCEPT !.pos = p] /\ \A s \in Setups : p[s] = ex[s].pos
        BY <2>2 DEF ReadPositions
      <3> HIDE DEF p
      <3>2. survey'.pos = p
        BY <2>1, <3>1 DEF Surveys
      <3> QED
        BY <3>1, <3>2
    <2>3. CASE ReadAllOrders(t)
      <3> DEFINE l == {i \in LegIds : leg[i].st = "open"}
                 e == {s \in Setups : ex[s].entry = "open"}
      <3>1. survey' = [survey EXCEPT !.legs = l, !.entries = e]
        BY <2>3 DEF ReadAllOrders
      <3> HIDE DEF l, e
      <3> QED
        BY <2>1, <3>1 DEF Surveys
    <2> QED
      BY <2>2, <2>3
  <1> QED
    BY <1>1, <1>2, SameGrown, AnswerHeard DEF Moved

\* An order fills, dies or is flattened by itself.
LEMMA OrderMoved ==
    ASSUME TruthInv, NEW s \in Setups, FillEntry(s) \/ EntryDies(s) \/ Flatten(s)
    PROVE  Moved
  <1>1. UNCHANGED <<active, rec, frame, survey>>
    BY DEF FillEntry, EntryDies, Flatten, engineVars
  <1>2. /\ ex[s] \in Orders /\ ex[s].got \in Nat
        /\ ex[s].entry = "none" => ex[s].got = 0
    BY TruthTypes DEF TypeInv, GoodOrders, TruthInv, NothingFilled
  <1>3. CASE FillEntry(s)
    <2> DEFINE entry == IF ex[s].got + 1 = Qty THEN "filled" ELSE "open"
               o == [ex[s] EXCEPT !.got = @ + 1, !.pos = @ + 1, !.entry = entry]
    <2>1. SetOrder(s, o) /\ ex[s].entry = "open" /\ entry # "none"
      BY <1>3 DEF FillEntry
    <2> HIDE DEF entry
    <2>2. o.got = ex[s].got + 1 /\ o.entry = entry
      BY <1>2 DEF Orders
    <2> HIDE DEF o
    <2>3. ex[s].got <= o.got
      BY <1>2, <2>2
    <2>4. Grown
      BY <2>1, <2>2, <2>3, SetOrderGrown
    <2> QED
      BY <1>1, <2>4, SameHeard DEF Moved
  <1>4. CASE EntryDies(s) \/ Flatten(s)
    <2>1. PICK o : /\ SetOrder(s, o) /\ o.got = ex[s].got
                   /\ o.entry \in {ex[s].entry, "cancelled"}
      BY <1>2, <1>4 DEF EntryDies, Flatten, Orders
    <2>2. ex[s].got <= o.got /\ (o.entry = "none" => o.got = 0)
      BY <1>2, <2>1
    <2>3. Grown
      BY <2>1, <2>2, SetOrderGrown
    <2> QED
      BY <1>1, <2>3, SameHeard DEF Moved
  <1> QED
    BY <1>3, <1>4

\* Legs are built, executed or dropped.
LEMMA LegMoved ==
    ASSUME TruthInv,
           \/ \E s \in Setups : BuildBracket(s)
           \/ \E i \in LegIds : LegFills(i) \/ LegDropped(i)
    PROVE  Moved
  <1>1. UNCHANGED <<active, rec, frame, survey>>
    BY DEF BuildBracket, LegFills, LegDropped, engineVars
  <1>2. CASE UNCHANGED ex
    BY <1>1, <1>2, SameGrown, SameHeard DEF Moved
  <1>3. ASSUME NEW i \in LegIds, LegFills(i)
        PROVE  Grown
    <2> DEFINE s == leg[i].s
               n == IF ex[s].pos > leg[i].size THEN ex[s].pos - leg[i].size ELSE 0
               o == [ex[s] EXCEPT !.pos = n]
    <2>1. SetOrder(s, o)
      BY <1>3 DEF LegFills
    <2>2. CASE s \in Setups
      <3>1. /\ ex[s] \in Orders /\ ex[s].got \in Nat
            /\ ex[s].entry = "none" => ex[s].got = 0
        BY <2>2, TruthTypes DEF TypeInv, GoodOrders, TruthInv, NothingFilled
      <3> HIDE DEF n
      <3>2. o.got = ex[s].got /\ o.entry = ex[s].entry /\ ex[s].got <= o.got
        BY <3>1 DEF Orders
      <3> HIDE DEF o
      <3> QED
        BY <2>1, <2>2, <3>1, <3>2, SetOrderGrown
    <2>3. CASE s \notin Setups
      <3>1. UNCHANGED ex
        BY <2>1, <2>3, TruthTypes DEF SetOrder, TypeInv
      <3> QED
        BY <3>1, SameGrown
    <2> QED
      BY <2>2, <2>3
  <1> QED
    BY <1>1, <1>2, <1>3, SameHeard DEF Moved, BuildBracket, LegDropped

-----------------------------------------------------------------------------
(* Every step tells the truth *)

\* Every step of the manager is Told, every step of the exchange Moved.
LEMMA StepCases ==
    ASSUME TruthInv, TypeInv', [Next]_vars
    PROVE  Told \/ Moved
  <1>1. CASE UNCHANGED vars
    BY <1>1, QuietTold DEF vars, engineVars, exchangeVars
  <1>2. ASSUME NEW t \in Tasks, Calls(t)
        PROVE  Told
    <2>1. ASSUME NEW s \in Setups, RefuseSetup(t, s) \/ OrphanPositionEvent(t, s)
          PROVE  Told
      BY <2>1, QuietTold DEF RefuseSetup, OrphanPositionEvent, exchangeVars
    <2>2. ASSUME \/ StreamIntegrityLost(t) \/ ResetKillSwitch(t) \/ ClearAlerts(t)
                 \/ BlockOnMutex(t)
          PROVE  Told
      BY <2>2, QuietTold
         DEF StreamIntegrityLost, ResetKillSwitch, ClearAlerts, BlockOnMutex,
             exchangeVars
    <2> QED
      BY <1>2, <2>1, <2>2, AdmissionTold, StreamTold, ClosureEventTold, ExpireTold,
         ReconcileTold, KillSwitchTold DEF Calls
  <1>3. ASSUME NEW t \in Tasks, Proceeds(t)
        PROVE  Told
    BY <1>3, ResumePostTold, ResumeCancelTold, ResumeVerifyTold, ResumeEchoTold,
       ResumeOpenOrdersTold, ResumePlaceTold, ResumeBalanceTold, StartCloseTold,
       ResumeCloseTold, ResumeExpireCancelTold, ResumeExpireGetTold, KillNextTold,
       ResumeKillTold, ResumeSnapshotTold, FinishReconcileTold, VisitRecordTold,
       ResumeRefreshTold, CheckRecordTold, RecordDoneTold DEF Proceeds
  <1>4. ASSUME NEW t \in Tasks, Answers(t)
        PROVE  Moved
    BY <1>4, RepliesMoved, LegRepliesMoved, AcceptEntryMoved, CancelEntryMoved,
       ReadEntryMoved, SnapshotMoved DEF Answers
  <1>5. CASE ExchangeMoves
    BY <1>5, OrderMoved, LegMoved DEF ExchangeMoves
  <1> QED
    BY <1>1, <1>2, <1>3, <1>4, <1>5 DEF Next

\* A step of the manager keeps what is known true.
LEMMA ToldTrue ==
    ASSUME TruthInv, LockInv', Told
    PROVE  TruthInv'
  <1>1. UNCHANGED ex
    BY DEF Told
  <1>2. RecordsTrue'
    BY <1>1 DEF Told, ToldRecords, Better, TrueRecord, RecordsTrue, Unfilled
  <1>3. FramesTrue' /\ KillsOnDuty'
    BY <1>1 DEF Told, ToldFrames, TellsTrue, TrueFrame, FramesTrue, KillsOnDuty
  <1>4. SurveyTrue' /\ NothingFilled'
    BY <1>1 DEF TruthInv, Told, ToldSurvey, SurveyTrue, NothingFilled
  <1> QED
    BY <1>2, <1>3, <1>4 DEF TruthInv

\* So does a step of the exchange.
LEMMA MovedTrue ==
    ASSUME TruthInv, LockInv', Moved
    PROVE  TruthInv'
  <1>1. \A s \in Setups :
            /\ ex[s].got \in Nat /\ ex'[s].got \in Nat /\ ex[s].got <= ex'[s].got
            /\ ex[s].pos \in Nat /\ ex[s].pos <= ex[s].got
            /\ rec[s].filled \in Nat /\ survey.pos[s] \in Nat
            /\ Unfilled(s) => Unfilled(s)'
    <2>1. \A s \in Setups : ex'[s].got \in Nat
      BY Bounds DEF LockInv, TypeInv, GoodOrders, Orders
    <2>2. \A s \in Setups : ex[s].pos <= ex[s].got
      BY DEF TruthInv, LockInv, TypeInv, GoodOrders
    <2> QED
      BY <2>1, <2>2, TruthTypes DEF Moved, Grown, Unfilled
  <1>2. RecordsTrue'
    <2> SUFFICES ASSUME NEW s \in Setups PROVE TrueRecord(s, rec[s])'
      BY DEF RecordsTrue
    <2>1. TrueRecord(s, rec[s]) /\ rec' = rec
      BY DEF TruthInv, RecordsTrue, Moved
    <2>2. rec[s].filled <= ex'[s].got
      BY <1>1, <2>1 DEF TrueRecord
    <2> QED
      BY <1>1, <2>1, <2>2 DEF TrueRecord
  <1>3. FramesTrue'
    <2> SUFFICES ASSUME NEW t \in Tasks, frame'[t].s \in Setups
                 PROVE  TrueFrame(frame[t], rec[frame[t].s].filled)'
      BY DEF FramesTrue
    <2> DEFINE s == frame[t].s
    <2>1. s \in Setups /\ frame'[t].s = s /\ TrueFrame(frame[t], rec[s].filled)
      BY DEF TruthInv, FramesTrue, Moved, Heard
    <2>2. /\ frame'[t].goal = frame[t].goal /\ frame'[t].pc = frame[t].pc
          /\ rec' = rec /\ frame[t].amt \in Nat
      BY TruthTypes DEF Moved, Heard
    <2>3. CASE /\ frame'[t].amt = frame[t].amt
               /\ frame[t].pc \in EntryReads /\ frame'[t].reply = "cancelled" =>
                      frame[t].reply = "cancelled"
      <3>1. frame'[t].amt <= ex'[s].got
        BY <1>1, <2>1, <2>2, <2>3 DEF TrueFrame
      <3>2. frame[t].pc \in EntryReads /\ frame'[t].reply = "cancelled" =>
                ex'[s].entry = "cancelled" /\ frame'[t].amt = ex'[s].got
        BY <2>1, <2>3 DEF TrueFrame, Moved, Grown
      <3> QED
        BY <2>1, <2>2, <3>1, <3>2 DEF TrueFrame
    <2>4. CASE /\ frame'[t].amt = ex'[s].got
               /\ frame'[t].reply = "cancelled" => ex'[s].entry = "cancelled"
      <3>1. frame'[t].amt <= ex'[s].got
        BY <1>1, <2>1, <2>4
      <3> QED
        BY <2>1, <2>2, <2>4, <3>1 DEF TrueFrame
    <2> QED
      BY <2>3, <2>4 DEF Moved, Heard
  <1>4. SurveyTrue'
    <2> SUFFICES ASSUME NEW s \in Setups PROVE survey'.pos[s] <= ex'[s].got
      BY DEF SurveyTrue
    <2>1. survey.pos[s] <= ex[s].got
      BY DEF TruthInv, SurveyTrue
    <2>2. survey'.pos[s] \in {survey.pos[s], ex[s].pos}
      BY DEF Moved
    <2> QED
      BY <1>1, <2>1, <2>2
  <1>5. NothingFilled' /\ KillsOnDuty'
    BY DEF TruthInv, Moved, Grown, NothingFilled, Heard, KillsOnDuty
  <1> QED
    BY <1>2, <1>3, <1>4, <1>5 DEF TruthInv

\* The invariant is inductive.
LEMMA TruthInductive ==
    ASSUME TruthInv, [Next]_vars
    PROVE  TruthInv'
  <1>1. LockInv' /\ TypeInv'
    BY LockInvInductive DEF TruthInv, LockInv
  <1> QED
    BY <1>1, StepCases, ToldTrue, MovedTrue

\* Whatever stale answers, replayed frames and overlapping calls reach a
\* record, the manager never believes in a fill that the exchange has not made
\* and never claims to protect more than it believes filled.
THEOREM FillsReal == Spec => []FillsAreReal
  <1>1. Init => TruthInv
    BY InitTrue
  <1>2. TruthInv /\ [Next]_vars => TruthInv'
    BY TruthInductive
  <1>3. TruthInv => FillsAreReal
    BY DEF TruthInv, RecordsTrue, TrueRecord, FillsAreReal
  <1> QED
    BY <1>1, <1>2, <1>3, PTL DEF Spec

\* No entry is declared dead and unfilled that has filled or still can: every
\* race of an expiry, an event or a refresh with a fill is decided by the fill.
THEOREM UnfilledVerdictTrue == Spec => []UnfilledVerdictIsTrue
  <1>1. Init => TruthInv
    BY InitTrue
  <1>2. TruthInv /\ [Next]_vars => TruthInv'
    BY TruthInductive
  <1>3. TruthInv => UnfilledVerdictIsTrue
    BY DEF TruthInv, RecordsTrue, TrueRecord, UnfilledVerdictIsTrue, Verdicts, Unfilled
  <1> QED
    BY <1>1, <1>2, <1>3, PTL DEF Spec

\* No step makes a record forget a fill it has observed.
THEOREM FillsNeverForgotten == Spec => FillsNeverRegress
  <1>1. Init => TruthInv
    BY InitTrue
  <1>2. TruthInv /\ [Next]_vars => TruthInv'
    BY TruthInductive
  <1>3. TruthInv /\ [Next]_vars =>
            [\A s \in Setups : rec'[s].filled >= rec[s].filled]_vars
    <2> SUFFICES ASSUME TruthInv, [Next]_vars, NEW s \in Setups
                 PROVE  rec'[s].filled >= rec[s].filled
      OBVIOUS
    <2>1. TypeInv'
      BY TruthInductive DEF TruthInv, LockInv
    <2>2. rec[s].filled \in Nat /\ rec'[s].filled \in Nat
      BY <2>1, TruthTypes, FilledIsNat
    <2>3. rec[s].filled <= rec'[s].filled
      BY <2>1, <2>2, StepCases DEF Told, ToldRecords, Better, Moved
    <2> QED
      BY <2>2, <2>3
  <1> QED
    BY <1>1, <1>2, <1>3, PTL DEF Spec, FillsNeverRegress

-----------------------------------------------------------------------------
(* What leaves the books *)

\* A trade that is live on the exchange leaves the manager's books only when a
\* call closes its position or when the kill loop runs: an expiry, an event, a
\* refresh or a rejection never drops one.
OnlyClosureOrKillDrops ==
    [][\A s \in active : s \notin active' /\ Exposed(s) =>
           \/ \E t \in Tasks : frame[t].pc \in Closers /\ frame[t].s = s
           \/ \E t \in Tasks : frame[t].pc \in KillPcs /\ "kill" \in Duties[t]]_vars

\* An entry that died unfilled has nothing live.
LEMMA UnfilledIsNotExposed ==
    ASSUME TruthInv, NEW s \in Setups, Unfilled(s)
    PROVE  ~Exposed(s)
  <1>1. ex[s].pos <= ex[s].got /\ ex[s].pos \in Nat
    BY TruthTypes DEF TypeInv, GoodOrders
  <1> QED
    BY <1>1 DEF Unfilled, Exposed

\* Whatever the constants: the books lose a live trade in no other way.
THEOREM LiveTradesStayOnTheBooks == Spec => OnlyClosureOrKillDrops
  <1>1. Init => TruthInv
    BY InitTrue
  <1>2. TruthInv /\ [Next]_vars => TruthInv'
    BY TruthInductive
  <1>3. TruthInv /\ [Next]_vars =>
            [\A s \in active : s \notin active' /\ Exposed(s) =>
                \/ \E t \in Tasks : frame[t].pc \in Closers /\ frame[t].s = s
                \/ \E t \in Tasks : frame[t].pc \in KillPcs /\ "kill" \in Duties[t]]_vars
    <2> SUFFICES ASSUME TruthInv, [Next]_vars, NEW s \in active, s \notin active',
                        Exposed(s)
                 PROVE  \/ \E t \in Tasks : frame[t].pc \in Closers /\ frame[t].s = s
                        \/ \E t \in Tasks :
                               frame[t].pc \in KillPcs /\ "kill" \in Duties[t]
      OBVIOUS
    <2>1. TypeInv' /\ s \in Setups
      BY TruthInductive, TruthTypes DEF TruthInv, LockInv, TypeInv
    <2>2. ~Unfilled(s)
      BY <2>1, UnfilledIsNotExposed
    <2>3. ToldSlot
      BY <2>1, StepCases DEF Told, Moved
    <2> QED
      BY <2>2, <2>3 DEF ToldSlot, TruthInv, KillsOnDuty
  <1> QED
    BY <1>1, <1>2, <1>3, PTL DEF Spec, OnlyClosureOrKillDrops

-----------------------------------------------------------------------------
(* The slot, where entries fill in one piece and the kill switch is not used *)

NoKillSwitch == \A t \in Tasks : "kill" \notin Duties[t]

\* The order of s is over and nothing of it is live.
Ended(s) == (ex[s].entry = "cancelled" \/ ex[s].got > 0) /\ ~Exposed(s)

UntrackedIsOver == \A s \in Setups \ active : Ended(s) \/ Untouched(s)
SubmitterIsTracked ==
    \A t \in Tasks :
        Submitting(t) /\ frame[t].reply \in {"wait", "rejected"} =>
            frame[t].s \in active
ClosedIsOver == \A t \in Tasks : frame[t].pc \in Closers => Ended(frame[t].s)

SlotInv ==
    /\ TruthInv
    /\ UntrackedIsOver
    /\ SubmitterIsTracked
    /\ ClosedIsOver

\* The initial state satisfies it.
LEMMA InitSlot == Init => SlotInv
  <1> SUFFICES ASSUME Init PROVE SlotInv
    OBVIOUS
  <1>1. TruthInv
    BY InitTrue
  <1>2. \A t \in Tasks : frame[t].pc = "idle"
    BY DEF Init, IdleFrame
  <1>3. \A s \in Setups : Untouched(s)
    BY DEF Init, Untouched
  <1> QED
    BY <1>1, <1>2, <1>3
       DEF SlotInv, UntrackedIsOver, SubmitterIsTracked, ClosedIsOver, Submitting, Closers

\* A setup with nothing of it on the exchange is not one whose order is over.
LEMMA UntouchedIsNotEnded ==
    ASSUME TruthInv, NEW s \in Setups, Untouched(s)
    PROVE  ~Ended(s)
  BY DEF TruthInv, NothingFilled, Untouched, Ended

\* A call begins to submit only for a setup it has put on the books.
LEMMA SubmissionIsTracked ==
    ASSUME TruthInv, [Next]_vars, NEW t \in Tasks, Submitting(t)',
           frame'[t].reply \in {"wait", "rejected"}
    PROVE  \/ /\ Submitting(t) /\ frame[t].reply \in {"wait", "rejected"}
              /\ frame'[t].s = frame[t].s
           \/ frame'[t].s \in active'
  <1>1. TypeInv
    BY TruthTypes
  <1>2. CASE Managed
    BY <1>2 DEF Managed, FrameEffect, Submitting
  <1>3. CASE Exchanged
    BY <1>3 DEF Exchanged, Answered, Submitting
  <1>4. ASSUME NEW u \in Tasks, NEW s \in Setups, RefuseAtGateway(u, s)
        PROVE  UNCHANGED frame
    BY <1>4 DEF RefuseAtGateway
  <1>5. ASSUME NEW u \in Tasks, NEW s \in Setups, Submit(u, s)
        PROVE  \/ frame'[t] = frame[t]
               \/ frame'[t].s \in active'
    <2>1. frame' = [frame EXCEPT ![u] = Submission(s)] /\ Submission(s).s = s
      BY <1>1, <1>5, SubmitTyped, SubmissionGood
    <2>2. s \in active'
      BY <1>5 DEF Submit
    <2> QED
      BY <1>1, <2>1, <2>2 DEF TypeInv
  <1>6. ASSUME NEW u \in Tasks, ResumePost(u), SubmitRejected(u, frame[u])
        PROVE  FrameEffect
    BY <1>1, <1>6, SubmitRejectedTyped
  <1>7. ASSUME NEW u \in Tasks, AcceptEntry(u)
        PROVE  Exchanged
    BY <1>1, <1>7, AcceptEntryGood
  <1> QED
    BY <1>1, <1>2, <1>3, <1>4, <1>5, <1>6, <1>7, NextCases, StutterManaged
       DEF FrameEffect, Submitting

\* A step of the manager keeps it: what leaves the books is over.
LEMMA ToldSlotInv ==
    ASSUME Qty = 1, NoKillSwitch, SlotInv, TruthInv', [Next]_vars, Told
    PROVE  SlotInv'
  <1>1. UNCHANGED ex /\ \A s \in Setups : /\ Ended(s)' <=> Ended(s)
                                          /\ Untouched(s)' <=> Untouched(s)
    BY DEF Told, Ended, Exposed, Untouched
  <1>2. TruthInv /\ TypeInv
    BY DEF SlotInv, TruthInv, LockInv
  <1>3. \A s \in Setups : ex[s].got > 0 /\ ex[s].pos = 0 => Ended(s)
    <2> SUFFICES ASSUME NEW s \in Setups, ex[s].got > 0, ex[s].pos = 0
                 PROVE  ex[s].entry # "open"
      BY DEF Ended, Exposed
    <2>1. ex[s].entry = "open" => ex[s].got < 1
      BY <1>2 DEF TypeInv, GoodOrders
    <2> QED
      BY <1>2, <2>1, TruthTypes
  <1>4. \A s \in Setups : Unfilled(s) => Ended(s)
    BY <1>2, UnfilledIsNotExposed DEF Unfilled, Ended
  <1>5. \A t \in Tasks : frame[t].pc \notin KillPcs
    BY <1>2 DEF TruthInv, KillsOnDuty, NoKillSwitch
  <1>6. \A s \in active : s \notin active' => Ended(s)
    BY <1>2, <1>4, <1>5 DEF Told, ToldSlot, SlotInv, ClosedIsOver, TypeInv
  <1>7. UntrackedIsOver'
    BY <1>1, <1>6 DEF SlotInv, UntrackedIsOver
  <1>8. SubmitterIsTracked'
    <2> SUFFICES ASSUME NEW t \in Tasks, Submitting(t)',
                        frame'[t].reply \in {"wait", "rejected"},
                        frame'[t].s \notin active'
                 PROVE  FALSE
      BY DEF SubmitterIsTracked
    <2>1. /\ Submitting(t) /\ frame[t].reply \in {"wait", "rejected"}
          /\ frame'[t].s = frame[t].s
      BY <1>2, SubmissionIsTracked
    <2>2. frame[t].s \in Setups /\ Untouched(frame[t].s)
      BY <1>2, <2>1, PostNamesSetup DEF TruthInv, LockInv, UnansweredIsUntouched
    <2>3. ~Ended(frame[t].s)
      BY <1>2, <2>2, UntouchedIsNotEnded
    <2>4. frame[t].s \in active
      BY <2>1 DEF SlotInv, SubmitterIsTracked
    <2> QED
      BY <1>6, <2>1, <2>3, <2>4
  <1>9. ClosedIsOver'
    <2> SUFFICES ASSUME NEW t \in Tasks, frame'[t].pc \in Closers
                 PROVE  Ended(frame[t].s)'
      BY DEF ClosedIsOver
    <2>1. \/ frame[t].pc \in Closers /\ frame[t].s = frame'[t].s
          \/ ex[frame'[t].s].got > 0 /\ ex[frame'[t].s].pos = 0
      BY DEF Told, ToldFrames, TellsTrue
    <2>2. frame'[t].s \in Setups
      BY DEF TruthInv, LockInv, TypeInv, GoodFrames, Closers, SetupPcs
    <2> QED
      BY <1>1, <1>3, <2>1, <2>2 DEF SlotInv, ClosedIsOver
  <1> QED
    BY <1>7, <1>8, <1>9 DEF SlotInv

\* A step of the exchange keeps it: what is over stays over.
LEMMA MovedSlotInv ==
    ASSUME SlotInv, TruthInv', [Next]_vars, Moved, OrderEffect \/
           \E t \in Tasks : AcceptEntry(t)
    PROVE  SlotInv'
  <1>1. TruthInv /\ TypeInv /\ TypeInv'
    BY DEF SlotInv, TruthInv, LockInv
  <1>2. UNCHANGED active
    BY DEF Moved
  <1>3. \A s \in Setups :
            ex[s].got \in Nat /\ ex'[s].got \in Nat /\ ex'[s].pos \in Nat
    BY <1>1, TruthTypes, Bounds DEF TypeInv, GoodOrders, Orders
  <1>4. \A s \in Setups : ~Exposed(s)' => (Ended(s) => Ended(s)')
    BY <1>3 DEF Moved, Grown, Ended
  <1>5. \/ OrderEffect
        \/ \E t \in Tasks : /\ frame[t].s \in Setups /\ Untouched(frame[t].s)
                            /\ frame[t].s \in active
                            /\ \A s \in Setups \ {frame[t].s} : ex'[s] = ex[s]
    <2> SUFFICES ASSUME NEW t \in Tasks, AcceptEntry(t)
                 PROVE  /\ frame[t].s \in Setups /\ Untouched(frame[t].s)
                        /\ frame[t].s \in active
                        /\ \A s \in Setups \ {frame[t].s} : ex'[s] = ex[s]
      OBVIOUS
    <2>1. /\ Submitting(t) /\ frame[t].reply = "wait" /\ frame[t].s \in Setups
          /\ \A s \in Setups \ {frame[t].s} : ex'[s] = ex[s]
      BY <1>1, AcceptEntryGood DEF Submitting
    <2> QED
      BY <1>1, <2>1 DEF TruthInv, LockInv, UnansweredIsUntouched, SlotInv,
         SubmitterIsTracked
  <1>6. \A s \in Setups : Ended(s) => Ended(s)'
    BY <1>1, <1>4, <1>5, UntouchedIsNotEnded DEF OrderEffect, Ended, Exposed
  <1>7. \A s \in Setups \ active : Untouched(s) => Untouched(s)'
    <2> SUFFICES ASSUME NEW s \in Setups \ active, Untouched(s)
                 PROVE  ex'[s].entry = "none" /\ ex'[s].pos = 0
      BY DEF Untouched
    <2>1. CASE OrderEffect
      BY <1>3, <2>1, UntouchedIsNotExposed DEF OrderEffect, Untouched, Exposed
    <2> QED
      BY <1>5, <2>1 DEF Untouched
  <1>8. UntrackedIsOver'
    BY <1>2, <1>6, <1>7 DEF SlotInv, UntrackedIsOver
  <1>9. SubmitterIsTracked'
    BY <1>1, <1>2, SubmissionIsTracked DEF SlotInv, SubmitterIsTracked
  <1>10. ClosedIsOver'
    <2> SUFFICES ASSUME NEW t \in Tasks, frame'[t].pc \in Closers
                 PROVE  Ended(frame[t].s)'
      BY DEF ClosedIsOver
    <2>1. frame[t].pc \in Closers /\ frame[t].s = frame'[t].s
      BY DEF Moved, Heard
    <2>2. frame[t].s \in Setups
      BY <1>1, <2>1 DEF TypeInv, GoodFrames, Closers, SetupPcs
    <2> QED
      BY <1>6, <2>1, <2>2 DEF SlotInv, ClosedIsOver
  <1> QED
    BY <1>8, <1>9, <1>10 DEF SlotInv

\* Nothing but the acceptance of an entry makes anything live.
LEMMA OnlyAcceptanceMakesLive ==
    ASSUME TruthInv, [Next]_vars
    PROVE  OrderEffect \/ \E t \in Tasks : AcceptEntry(t)
  <1>1. TypeInv /\ TypeInv'
    BY TruthInductive, TruthTypes DEF TruthInv, LockInv
  <1>2. CASE UNCHANGED ex
    BY <1>1, <1>2, SameOrders
  <1>3. CASE Managed
    BY <1>2, <1>3 DEF Managed, exchangeVars
  <1>4. ASSUME NEW t \in Tasks, NEW s \in Setups, RefuseAtGateway(t, s) \/ Submit(t, s)
        PROVE  UNCHANGED ex
    BY <1>4 DEF RefuseAtGateway, Submit, exchangeVars
  <1>5. ASSUME NEW t \in Tasks, ResumePost(t)
        PROVE  UNCHANGED ex
    BY <1>5 DEF ResumePost, exchangeVars
  <1> QED
    BY <1>1, <1>2, <1>3, <1>4, <1>5, NextCases, StutterManaged

\* The invariant of the slot is inductive.
LEMMA SlotInductive ==
    ASSUME Qty = 1, NoKillSwitch, SlotInv, [Next]_vars
    PROVE  SlotInv'
  <1>1. TruthInv /\ TruthInv' /\ TypeInv'
    BY TruthInductive DEF SlotInv, TruthInv, LockInv
  <1>2. Told \/ Moved
    BY <1>1, StepCases
  <1> QED
    BY <1>1, <1>2, ToldSlotInv, MovedSlotInv, OnlyAcceptanceMakesLive

\* What is live is tracked, and what is tracked and live holds the lock.
LEMMA SlotInvSuffices ==
    ASSUME SlotInv
    PROVE  ExposureHoldsLock
  <1> SUFFICES ASSUME NEW s \in Setups, Exposed(s)
               PROVE  s \in active /\ owner = s
    BY DEF ExposureHoldsLock
  <1>1. s \in active
    BY UntouchedIsNotExposed DEF SlotInv, UntrackedIsOver, Ended
  <1> QED
    BY <1>1 DEF SlotInv, TruthInv, LockInv, TrackedExposureHoldsLock

\* Where entries fill in one piece and no task runs the kill switch, nothing is
\* live on the exchange that the manager does not track under the single-trade
\* lock, for any number of setups and tasks and whatever the network loses.
THEOREM ExposureIsLocked ==
    ASSUME Qty = 1, NoKillSwitch
    PROVE  Spec => []ExposureHoldsLock
  <1>1. Init => SlotInv
    BY InitSlot
  <1>2. SlotInv /\ [Next]_vars => SlotInv'
    BY SlotInductive
  <1>3. SlotInv => ExposureHoldsLock
    BY SlotInvSuffices
  <1> QED
    BY <1>1, <1>2, <1>3, PTL DEF Spec

-----------------------------------------------------------------------------
(* The manager implements the one-trade slot *)

Live == {s \in Setups : Exposed(s)}

\* At most the holder of the lock is live.
LEMMA LiveIsHeld ==
    ASSUME SlotInv
    PROVE  Live \subseteq {owner} /\ (owner = NoOne => Live = {})
  BY SlotInvSuffices, ConstantsAssumption DEF Live, ExposureHoldsLock

\* What every step does to the owner of the lock and to what is live.
LEMMA SlotMoves ==
    ASSUME SlotInv, [Next]_vars
    PROVE  \/ Live' = Live /\ owner' \in {owner, NoOne}
           \/ Live' = Live /\ owner' \in Setups /\ owner \in {NoOne, owner'}
           \/ owner' = owner /\ Live' \subseteq Live
           \/ owner' = owner /\ owner \in Setups /\ Live' \subseteq Live \cup {owner}
  <1>1. TypeInv /\ TypeInv'
    BY TruthInductive DEF SlotInv, TruthInv, LockInv
  <1>2. UNCHANGED ex => Live' = Live
    BY DEF Live, Exposed
  <1>3. CASE Managed
    BY <1>2, <1>3 DEF Managed, SlotEffect, exchangeVars
  <1>4. CASE Exchanged /\ OrderEffect
    BY <1>4 DEF Exchanged, engineVars, OrderEffect, Live
  <1>5. ASSUME NEW t \in Tasks, NEW s \in Setups, RefuseAtGateway(t, s)
        PROVE  UNCHANGED ex /\ owner' = NoOne
    BY <1>5 DEF RefuseAtGateway, exchangeVars
  <1>6. ASSUME NEW t \in Tasks, NEW s \in Setups, Submit(t, s)
        PROVE  UNCHANGED ex /\ owner' = s /\ owner \in {NoOne, s}
    BY <1>6 DEF Submit, Admissible, CanAcquire, Acquire, exchangeVars
  <1>7. ASSUME NEW t \in Tasks, ResumePost(t), SubmitRejected(t, frame[t])
        PROVE  UNCHANGED ex /\ owner' \in {owner, NoOne}
    BY <1>7 DEF ResumePost, SubmitRejected, Release, exchangeVars
  <1>8. ASSUME NEW t \in Tasks, AcceptEntry(t)
        PROVE  owner' = owner /\ owner \in Setups /\ Live' \subseteq Live \cup {owner}
    <2> DEFINE s == frame[t].s
    <2>1. /\ Submitting(t) /\ frame[t].reply = "wait" /\ s \in Setups
          /\ \A x \in Setups \ {s} : ex'[x] = ex[x]
          /\ owner' = owner
      BY <1>1, <1>8, AcceptEntryGood DEF Submitting, Exchanged, engineVars
    <2>2. s \in active
      BY <2>1 DEF SlotInv, SubmitterIsTracked
    <2>3. owner = s
      BY <2>1, <2>2 DEF SlotInv, TruthInv, LockInv, SubmitterHoldsLock
    <2>4. Live' \subseteq Live \cup {s}
      BY <2>1 DEF Live, Exposed
    <2> QED
      BY <2>1, <2>3, <2>4
  <1> QED
    BY <1>1, <1>2, <1>3, <1>4, <1>5, <1>6, <1>7, <1>8, NextCases, StutterManaged

\* So every step is one of the slot, or none.
LEMMA SlotSimulation ==
    ASSUME SlotInv, ExposureHoldsLock', [Next]_vars
    PROVE  [Slot!SlotNext]_(Slot!slotVars)
  <1>1. Live \subseteq {owner} /\ (owner = NoOne => Live = {})
    BY LiveIsHeld
  <1>2. Live' \subseteq {owner'} /\ (owner' = NoOne => Live' = {})
    BY ConstantsAssumption DEF Live, ExposureHoldsLock
  <1>3. owner \in Setups \cup {NoOne}
    BY DEF SlotInv, TruthInv, LockInv, TypeInv
  <1> DEFINE Changes ==
          \/ Live' = Live /\ owner' = owner
          \/ Live = {} /\ owner' = NoOne /\ Live' = Live
          \/ \E s \in Setups :
               \/ owner = NoOne /\ owner' = s /\ Live' = Live
               \/ owner = s /\ Live' = Live \cup {s} /\ owner' = owner
               \/ Live' = Live \ {s} /\ owner' = owner
  <1>4. Changes
    <2>1. CASE Live' = Live /\ owner' \in {owner, NoOne}
      BY <1>2, <2>1
    <2>2. CASE Live' = Live /\ owner' \in Setups /\ owner \in {NoOne, owner'}
      BY <2>2
    <2>3. CASE owner' = owner /\ owner \notin Setups
      <3>1. Live = {} /\ Live' = {}
        BY <1>1, <1>2, <1>3, <2>3
      <3> QED
        BY <2>3, <3>1
    <2>4. CASE owner' = owner /\ owner \in Setups
      <3>1. Live \in {{}, {owner}} /\ Live' \in {{}, {owner}}
        BY <1>1, <1>2, <2>4
      <3>2. CASE Live = {}
        <4>1. Live' = Live \/ Live' = Live \cup {owner}
          BY <3>1, <3>2
        <4> QED
          BY <2>4, <4>1
      <3>3. CASE Live = {owner}
        <4>1. Live' = Live \/ Live' = Live \ {owner}
          BY <3>1, <3>3
        <4> QED
          BY <2>4, <4>1
      <3> QED
        BY <3>1, <3>2, <3>3
    <2> QED
      BY <2>1, <2>2, <2>3, <2>4, <1>3, SlotMoves
  <1> QED
    BY <1>4
       DEF Live, Slot!SlotNext, Slot!slotVars, Slot!Claim, Slot!GoLive, Slot!Die,
           Slot!Free

\* Initially the slot is free and nothing is live.
LEMMA SlotInitial == Init => Slot!SlotInit
  <1> SUFFICES ASSUME Init PROVE Slot!SlotInit
    OBVIOUS
  <1>1. \A s \in Setups : ~Exposed(s)
    BY DEF Init, Exposed
  <1> QED
    BY <1>1 DEF Init, Slot!SlotInit

\* Under the same two conditions the manager implements the one-trade slot:
\* the lock changes hands only while nothing is live, a setup becomes live only
\* while it holds the lock, and no step does more than one of these.
THEOREM SlotImplemented ==
    ASSUME Qty = 1, NoKillSwitch
    PROVE  Spec => ImplementsSlot
  <1>1. Init => SlotInv /\ Slot!SlotInit
    BY InitSlot, SlotInitial
  <1>2. SlotInv /\ [Next]_vars => SlotInv'
    BY SlotInductive
  <1>3. SlotInv => ExposureHoldsLock
    BY SlotInvSuffices
  <1>4. SlotInv /\ ExposureHoldsLock' /\ [Next]_vars =>
            [Slot!SlotNext]_(Slot!slotVars)
    BY SlotSimulation
  <1> QED
    BY <1>1, <1>2, <1>3, <1>4, PTL DEF Spec, ImplementsSlot, Slot!SlotSpec
=============================================================================
