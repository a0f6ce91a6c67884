------------------------ MODULE TradeProtectionProofs ------------------------
(***************************************************************************)
(* What the manager says of protection is true of the exchange's orders,   *)
(* for every value of the constants but one: Overlap = FALSE, no operation *)
(* starts while another is suspended.  (Two calls that protect one record  *)
(* at the same time overwrite each other's ids: the overlap run.)          *)
(*                                                                         *)
(* One call then works for at most one setup, and every other setup rests. *)
(* The invariant says how a record and the frame that works on it fit the  *)
(* protective orders of its setup; a step of the manager replaces one such *)
(* pair, a step of the exchange moves the orders under it.                 *)
(*                                                                         *)
(* The last part is about a reconciliation pass: what it has seen of each  *)
(* position of its snapshot is still true when it ends.                    *)
(***************************************************************************)
EXTENDS TradeFillsProofs

-----------------------------------------------------------------------------
(* The invariant.  L stands for the protective orders, o for the entry     *)
(* order and position of setup s, r for its record, f for a frame.         *)

Protecting == {"cancel", "verify", "echo", "openOrders", "place"}
LegClosers == {"closeCancel", "closeVerify"}
PassPcs == {"recPositions", "recOrders", "recGet", "recNext", "recCheck", "recDone"}

\* Order i is one of s for size, and is not cancelled as long as everything
\* that was ever filled is still held.
Stands(L, o, i, s, size) ==
    /\ L[i].s = s
    /\ L[i].size = size
    /\ L[i].st = "cancelled" => o.pos < o.got

Named(L, s, r) ==
    \A role \in Roles : r[role] # 0 => L[r[role]].s = s /\ L[r[role]].role = role

Real(L, o, s, r) ==
    /\ r.protected > 0
    /\ \A role \in Roles : r[role] # 0 /\ Stands(L, o, r[role], s, r.protected)

\* The record as it is, and the call that is changing it.
Shielded(L, o, s, r, f) ==
    /\ Named(L, s, r)
    /\ r.state = "PROTECTED_POSITION" => Real(L, o, s, r) \/ f.pc \in LegClosers
    /\ f.pc = "post" => r.state = "ENTRY_SUBMITTED"
    /\ f.pc \in Protecting => f.goal > 0 /\ r.state = "PROTECTION_PENDING"
    /\ f.pc \in LegPcs => L[f.oid].s = s
    /\ f.pc = "openOrders" => \A i \in f.seen : Stands(L, o, i, s, f.goal)
    /\ f.pc = "place" /\ f.role = "tp" => r.sl # 0 /\ Stands(L, o, r.sl, s, f.goal)
    /\ f.pc = "place" /\ f.reply = "ok" =>
           Stands(L, o, f.oid, s, f.goal) /\ L[f.oid].role = f.role

\* Every answer arrives and no reconciliation forgets an id: then no order of
\* the engine is lost sight of.
Sure == Network # "lossy" /\ \A t \in Tasks : "reconcile" \notin Duties[t]

\* A pair that is not complete protects less than is known to be filled.
Sized(r) == r.protected # 0 => BothLegs(r) \/ (r.tp # 0 /\ r.protected < r.filled)

EngineLeg(L, i, s) == L[i].st = "open" /\ L[i].s = s /\ L[i].maker = "engine"

Tracked(L, s, r, f) ==
    /\ Sized(r)
    /\ f.pc \notin PassPcs /\ f.then \in {"end", "apply"}
    /\ f.pc \in {"cancel", "verify"} =>
           /\ f.oid = r[f.role] /\ f.oid # 0
           /\ r.protected < r.filled
           /\ f.role = "tp" => r.sl = 0
    /\ f.pc = "cancel" /\ f.reply = "ok" => L[f.oid].st # "open"
    /\ f.pc = "verify" /\ f.reply = "cancelled" => L[f.oid].st # "open"
    /\ f.pc \in {"echo", "openOrders", "place"} => r.protected = 0 /\ r.tp = 0
    /\ f.pc \in {"echo", "openOrders"} \/ (f.pc = "place" /\ f.role = "sl") => r.sl = 0
    /\ \A i \in LegIds : EngineLeg(L, i, s) =>
           \/ i = r[L[i].role]
           \/ f.pc = "place" /\ f.reply = "ok" /\ f.oid = i

Fits(L, o, s, r, f) ==
    /\ Shielded(L, o, s, r, f)
    /\ Sure => Tracked(L, s, r, f)

\* A record no call is changing.
Rests(L, o, s, r) ==
    /\ Named(L, s, r)
    /\ r.state = "PROTECTED_POSITION" => Real(L, o, s, r)
    /\ Sure => /\ Sized(r)
               /\ \A i \in LegIds : EngineLeg(L, i, s) => i = r[L[i].role]

\* A frame that touches no protective order, and is no part of a submission.
Loose(f) ==
    /\ f.pc \notin Protecting \cup LegPcs \cup {"post"}
    /\ Sure => f.pc \notin PassPcs /\ f.then \in {"end", "apply"}

OneAtATime ==
    \A t, u \in Tasks : t # u => frame[t].pc = "idle" \/ frame[u].pc = "idle"
WorkNamesSetup == \A t \in Tasks : frame[t].pc \notin SetupPcs => frame[t].s = NoOne
WorkFits ==
    \A t \in Tasks, s \in Setups :
        frame[t].s = s => Fits(leg, ex[s], s, rec[s], frame[t])
RestFits ==
    \A s \in Setups :
        (\A t \in Tasks : frame[t].s # s) => Rests(leg, ex[s], s, rec[s])
\* Ids are given out in ascending order.
IdsAscend ==
    \A i, j \in LegIds : i < j /\ leg[i].st = "free" => leg[j].st = "free"
CallsOnDuty ==
    Sure => \A t \in Tasks : frame[t].pc \notin PassPcs /\ frame[t].then \in {"end", "apply"}

ShieldInv ==
    /\ OneAtATime
    /\ WorkNamesSetup
    /\ WorkFits
    /\ RestFits
    /\ IdsAscend
    /\ CallsOnDuty

\* The frames and records of the initial state fit.
LEMMA InitShielded == Init => ShieldInv
  <1> SUFFICES ASSUME Init PROVE ShieldInv
    OBVIOUS
  <1>1. \A t \in Tasks : frame[t].s = NoOne /\ frame[t].pc = "idle" /\ frame[t].then = "end"
    BY DEF Init, IdleFrame
  <1>2. ASSUME NEW s \in Setups
        PROVE  Rests(leg, ex[s], s, rec[s])
    <2>1. /\ rec[s].sl = 0 /\ rec[s].tp = 0 /\ rec[s].protected = 0
          /\ rec[s].state = "NONE"
      BY DEF Init, NewRecord
    <2>2. \A i \in LegIds : leg[i].st = "free"
      BY DEF Init, NoLeg
    <2> QED
      BY <2>1, <2>2 DEF Rests, Named, Roles, Sized, EngineLeg
  <1>3. OneAtATime /\ WorkNamesSetup /\ WorkFits /\ CallsOnDuty
    BY <1>1, ConstantsAssumption
       DEF OneAtATime, WorkNamesSetup, WorkFits, CallsOnDuty, PassPcs
  <1>4. IdsAscend
    BY DEF Init, NoLeg, IdsAscend
  <1> QED
    BY <1>1, <1>2, <1>3, <1>4 DEF ShieldInv, RestFits

-----------------------------------------------------------------------------
(* Records at rest *)

\* A loose frame fits a record at rest,
LEMMA RestIsFit ==
    ASSUME NEW L, NEW o, NEW s, NEW r, NEW f, Loose(f), Rests(L, o, s, r)
    PROVE  Fits(L, o, s, r, f)
  BY DEF Loose, Rests, Fits, Shielded, Tracked, Protecting, LegPcs

\* and a record that fits a frame rests unless a placed or a cancelled order is
\* still to be written into it.
LEMMA FitIsRest ==
    ASSUME NEW L, NEW o, NEW s, NEW r, NEW f, Fits(L, o, s, r, f),
           f.pc \notin LegClosers, ~(f.pc = "place" /\ f.reply = "ok")
    PROVE  Rests(L, o, s, r)
  BY DEF Rests, Fits, Shielded, Tracked

\* Rest depends on the ids, the protected size and the state.
LEMMA RestIsKept ==
    ASSUME NEW L \in [LegIds -> Legs], NEW o, NEW s, NEW r \in Records,
           NEW q \in Records, Rests(L, o, s, r),
           q.sl = r.sl, q.tp = r.tp, q.protected = r.protected,
           r.filled <= q.filled,
           q.state = "PROTECTED_POSITION" => r.state = "PROTECTED_POSITION"
    PROVE  Rests(L, o, s, q)
  <1>1. \A role \in Roles : q[role] = r[role]
    BY DEF Roles
  <1>2. Named(L, s, q) /\ (Real(L, o, s, r) => Real(L, o, s, q))
    BY <1>1 DEF Rests, Named, Real
  <1>3. Sized(r) => Sized(q)
    <2>1. /\ r.filled \in Nat /\ q.filled \in Nat
          /\ r.protected \in Nat /\ q.protected \in Nat
      BY Bounds DEF Records
    <2> QED
      BY <2>1 DEF Sized, BothLegs
  <1>4. Sure => \A i \in LegIds : EngineLeg(L, i, s) => i = q[L[i].role]
    <2> SUFFICES ASSUME Sure, NEW i \in LegIds, EngineLeg(L, i, s)
                 PROVE  i = q[L[i].role]
      OBVIOUS
    <2>1. i = r[L[i].role] /\ L[i].role \in Roles
      BY DEF Rests, Legs
    <2> QED
      BY <2>1, <1>1
  <1> QED
    BY <1>2, <1>3, <1>4 DEF Rests

-----------------------------------------------------------------------------
(* A step of the manager: one record and one frame are replaced *)

Alone(t) == \A u \in Tasks \ {t} : frame[u].pc = "idle"

Served(t, s) ==
    \E r \in Records, g \in Frames :
        /\ SetRec(s, r)
        /\ Step(t, g)
        /\ g.s \in {s, NoOne}
        /\ g.pc \notin SetupPcs => g.s = NoOne
        /\ Fits(leg, ex[s], s, r, g)

\* Such a step keeps the invariant, if the new pair fits.
LEMMA ServedKept ==
    ASSUME TypeInv, TypeInv', ShieldInv, NEW t \in Tasks, NEW s \in Setups,
           Alone(t), frame[t].s \in {s, NoOne}, Served(t, s),
           UNCHANGED exchangeVars
    PROVE  ShieldInv'
  <1>1. PICK r \in Records, g \in Frames :
            /\ SetRec(s, r)
            /\ Step(t, g)
            /\ g.s \in {s, NoOne}
            /\ g.pc \notin SetupPcs => g.s = NoOne
            /\ Fits(leg, ex[s], s, r, g)
    BY DEF Served
  <1>2. rec'[s] = r /\ \A x \in Setups \ {s} : rec'[x] = rec[x]
    BY <1>1 DEF SetRec, TypeInv
  <1>3. frame'[t] = g /\ \A u \in Tasks \ {t} : frame'[u] = frame[u]
    BY <1>1 DEF Step, TypeInv
  <1>4. \A u \in Tasks \ {t} : frame[u].pc = "idle" /\ frame[u].s = NoOne
    BY DEF Alone, ShieldInv, WorkNamesSetup, SetupPcs
  <1>5. UNCHANGED <<leg, ex>>
    BY DEF exchangeVars
  <1>6. g.s = NoOne => g.pc \notin SetupPcs
    BY <1>3, ConstantsAssumption DEF TypeInv, GoodFrames
  <1>7. Sure => g.pc \notin PassPcs /\ g.then \in {"end", "apply"}
    BY <1>1 DEF Fits, Tracked
  <1>8. OneAtATime' /\ WorkNamesSetup'
    BY <1>1, <1>3, <1>4 DEF ShieldInv, OneAtATime, WorkNamesSetup, SetupPcs
  <1>9. CallsOnDuty'
    BY <1>3, <1>7 DEF ShieldInv, CallsOnDuty, Sure
  <1>10. WorkFits'
    <2> SUFFICES ASSUME NEW u \in Tasks, NEW x \in Setups, frame'[u].s = x
                 PROVE  Fits(leg', ex'[x], x, rec'[x], frame'[u])
      BY DEF WorkFits
    <2>1. u = t /\ x = s
      BY <1>1, <1>3, <1>4, ConstantsAssumption
    <2> QED
      BY <1>1, <1>2, <1>3, <1>5, <2>1
  <1>11. RestFits'
    <2> SUFFICES ASSUME NEW x \in Setups, \A u \in Tasks : frame'[u].s # x
                 PROVE  Rests(leg', ex'[x], x, rec'[x])
      BY DEF RestFits
    <2>1. CASE x = s
      <3>1. g.s = NoOne
        BY <1>1, <1>3, <2>1
      <3>2. g.pc \notin LegClosers /\ g.pc # "place"
        BY <1>6, <3>1 DEF LegClosers, SetupPcs
      <3>3. Rests(leg, ex[s], s, r)
        BY <1>1, <3>2, FitIsRest
      <3> QED
        BY <1>2, <1>5, <2>1, <3>3
    <2>2. CASE x # s
      <3>1. \A u \in Tasks : frame[u].s # x
        BY <1>3, <2>2, ConstantsAssumption
      <3> QED
        BY <1>2, <1>5, <2>2, <3>1 DEF ShieldInv, RestFits
    <2> QED
      BY <2>1, <2>2
  <1>12. IdsAscend'
    BY <1>5 DEF ShieldInv, IdsAscend
  <1> QED
    BY <1>8, <1>9, <1>10, <1>11, <1>12 DEF ShieldInv

\* A call that leaves the records alone and works for no setup, before or
\* after the step, keeps it too.
LEMMA IdlingKept ==
    ASSUME TypeInv, ShieldInv, NEW t \in Tasks, NEW g \in Frames, Alone(t),
           frame[t].s = NoOne, g.s = NoOne, g.pc \notin SetupPcs,
           Sure => g.pc \notin PassPcs /\ g.then \in {"end", "apply"},
           Step(t, g), UNCHANGED <<rec, exchangeVars>>
    PROVE  ShieldInv'
  <1>1. frame'[t] = g /\ \A u \in Tasks \ {t} : frame'[u] = frame[u]
    BY DEF Step, TypeInv
  <1>2. \A u \in Tasks : frame'[u].s = frame[u].s
    BY <1>1
  <1>3. UNCHANGED <<leg, ex, rec>>
    BY DEF exchangeVars
  <1>4. OneAtATime' /\ WorkNamesSetup' /\ CallsOnDuty' /\ IdsAscend'
    BY <1>1, <1>3
       DEF Alone, ShieldInv, OneAtATime, WorkNamesSetup, CallsOnDuty, Sure, IdsAscend
  <1>5. WorkFits'
    BY <1>1, <1>3, ConstantsAssumption DEF ShieldInv, WorkFits
  <1>6. RestFits'
    BY <1>2, <1>3 DEF ShieldInv, RestFits
  <1> QED
    BY <1>4, <1>5, <1>6 DEF ShieldInv

\* Nothing the invariant speaks of changes.
LEMMA NothingKept ==
    ASSUME ShieldInv, UNCHANGED <<rec, frame, exchangeVars>>
    PROVE  ShieldInv'
  <1>1. UNCHANGED <<leg, ex, rec, frame>>
    BY DEF exchangeVars
  <1> QED
    BY <1>1 DEF ShieldInv, OneAtATime, WorkNamesSetup, WorkFits, RestFits,
                IdsAscend, CallsOnDuty, Sure

\* Without overlap a call begins when every task is idle, and resumes alone.
LEMMA BeginAlone ==
    ASSUME ~Overlap, ShieldInv, NEW t \in Tasks, NEW op, Begin(t, op)
    PROVE  /\ Alone(t)
           /\ frame[t].s = NoOne
           /\ \A s \in Setups : Rests(leg, ex[s], s, rec[s])
  <1>1. \A u \in Tasks : frame[u].pc = "idle" /\ frame[u].s = NoOne
    BY DEF Begin, Idle, ShieldInv, WorkNamesSetup, SetupPcs
  <1>2. \A s \in Setups : Rests(leg, ex[s], s, rec[s])
    BY <1>1, ConstantsAssumption DEF ShieldInv, RestFits
  <1> QED
    BY <1>1, <1>2 DEF Alone

\* The setup a suspended call works for, its record and how they fit.
LEMMA AtWork ==
    ASSUME TypeInv, ShieldInv, NEW t \in Tasks, frame[t].pc \in SetupPcs
    PROVE  /\ Alone(t)
           /\ frame[t] \in Frames /\ frame[t] \in GoodFrames
           /\ frame[t].s \in Setups
           /\ rec[frame[t].s] \in GoodRecords /\ rec[frame[t].s] \in Records
           /\ Fits(leg, ex[frame[t].s], frame[t].s, rec[frame[t].s], frame[t])
           /\ frame[t].pc \in LegPcs => frame[t].oid \in Placed
  <1>1. frame[t].pc # "idle"
    BY DEF SetupPcs
  <1>2. Alone(t)
    BY <1>1 DEF Alone, ShieldInv, OneAtATime
  <1>3. rec[frame[t].s] \in Records
    BY AtSetup DEF GoodRecords
  <1> QED
    BY <1>2, <1>3, AtSetup DEF ShieldInv, WorkFits

-----------------------------------------------------------------------------
(* The handlers the actions share *)

\* What a frame becomes when it is suspended at a request.
Asking(f) == [f EXCEPT !.reply = "wait", !.amt = 0, !.seen = {}]

\* It is the frame it was, with no answer yet.
LEMMA AskingKeeps ==
    ASSUME NEW f \in Frames
    PROVE  /\ Asking(f) \in Frames
           /\ Asking(f).reply = "wait" /\ Asking(f).seen = {}
           /\ Asking(f).pc = f.pc /\ Asking(f).s = f.s /\ Asking(f).role = f.role
           /\ Asking(f).oid = f.oid /\ Asking(f).goal = f.goal
           /\ Asking(f).then = f.then /\ Asking(f).stale = f.stale
  BY Bounds DEF Asking, Frames, Replies

\* A request is sent with a pair that fits.
LEMMA RequestServed ==
    ASSUME NEW t \in Tasks, NEW f \in Frames, f.s \in Setups, f.pc \in SetupPcs,
           NEW r \in Records, SetRec(f.s, r), Await(t, f),
           Fits(leg, ex[f.s], f.s, r, Asking(f))
    PROVE  Served(t, f.s)
  <1>1. Step(t, Asking(f))
    BY DEF Await, Asking
  <1> QED
    BY <1>1, AskingKeeps DEF Served

\* A call that touches no protective order leaves a record at rest.
LEMMA LooseServed ==
    ASSUME NEW t \in Tasks, NEW s \in Setups, NEW g \in Frames, NEW r \in Records,
           SetRec(s, r), Step(t, g), Rests(leg, ex[s], s, r), Loose(g),
           g.s \in {s, NoOne}, g.pc \notin SetupPcs => g.s = NoOne
    PROVE  Served(t, s)
  BY RestIsFit DEF Served

\* Where a fill observation returns to.
LEMMA BackServed ==
    ASSUME NEW t \in Tasks, NEW f \in Frames, f.s \in Setups,
           Sure => f.then \in {"end", "apply"}, NEW r \in Records,
           SetRec(f.s, r), Step(t, Back(f)), Rests(leg, ex[f.s], f.s, r)
    PROVE  Served(t, f.s)
  <1>1. /\ Back(f) \in Frames
        /\ Back(f).s \in {f.s, NoOne}
        /\ Back(f).pc \in {"idle", "recCheck", "recDone"}
        /\ Back(f).then = "end"
        /\ Back(f).pc = "idle" => Back(f).s = NoOne
        /\ f.then \in {"end", "apply"} => Back(f).pc = "idle"
    BY BackGood DEF Back, IdleFrame, GoodFrames, Frames
  <1>2. Loose(Back(f))
    BY <1>1 DEF Loose, Protecting, LegPcs, PassPcs
  <1> QED
    BY <1>1, <1>2, LooseServed DEF SetupPcs

\* The fill handler returns with a record at rest.
LEMMA ReturnServed ==
    ASSUME NEW t \in Tasks, NEW f \in Frames, f.s \in Setups,
           Sure => f.then \in {"end", "apply"}, NEW r \in Records,
           Return(t, f, r), Rests(leg, ex[f.s], f.s, r)
    PROVE  Served(t, f.s)
  BY BackServed DEF Return

\* _ensure_bracket_protection begins, for a size that is not yet protected.
LEMMA BeginProtectionServed ==
    ASSUME TypeInv, NEW t \in Tasks, NEW f \in Frames, f.s \in Setups,
           NEW r \in Records, NEW goal \in Amounts, goal > 0,
           Named(leg, f.s, r),
           Sure => /\ Rests(leg, ex[f.s], f.s, r)
                   /\ f.then \in {"end", "apply"}
                   /\ goal = r.filled /\ r.protected <= r.filled
                   /\ ~(r.protected = goal /\ BothLegs(r)),
           BeginProtection(t, f, r, goal)
    PROVE  Served(t, f.s)
  <1> DEFINE p == [r EXCEPT !.state = "PROTECTION_PENDING"]
             g == [f EXCEPT !.goal = goal, !.stale = FALSE]
             role == IF r.sl # 0 THEN "sl" ELSE "tp"
             direct == r.protected = goal \/ (r.sl = 0 /\ r.tp = 0)
             adopt == AdoptOrPlace(g, r)
             cancel == CancelLegOf(g, r, role)
  <1>1. /\ p \in Records
        /\ p.sl = r.sl /\ p.tp = r.tp
        /\ p.protected = r.protected /\ p.filled = r.filled
        /\ p.state = "PROTECTION_PENDING"
    BY DEF Records, States
  <1>2. /\ g \in Frames
        /\ g.s = f.s /\ g.goal = goal /\ g.then = f.then
    BY DEF Frames
  <1>3. role \in Roles /\ (r.sl # 0 \/ r.tp # 0 => r[role] # 0) /\ r[role] \in 0..MaxLegs
    BY DEF Roles, Records
  <1>4. role = "tp" => r.sl = 0
    OBVIOUS
  <1>5. SetRec(f.s, p) /\ Await(t, IF direct THEN adopt ELSE cancel)
    BY DEF BeginProtection
  <1> HIDE DEF p, g, role
  <1>6. Named(leg, f.s, p)
    BY <1>1 DEF Named, Roles
  <1>7. Sure => Sized(p) /\ \A i \in LegIds : EngineLeg(leg, i, f.s) => i = p[leg[i].role]
    <2>1. \A x \in Roles : p[x] = r[x]
      BY <1>1 DEF Roles
    <2>2. \A i \in LegIds : leg[i].role \in Roles
      BY DEF TypeInv, Legs
    <2> QED
      BY <1>1, <2>1, <2>2 DEF Rests, Sized, BothLegs
  <1>8. r.protected \in Nat /\ r.filled \in Nat /\ goal \in Nat
    BY Bounds DEF Records
  <1>9. CASE direct
    <2>1. /\ adopt \in Frames
          /\ adopt.s = f.s /\ adopt.goal = goal /\ adopt.then = f.then
          /\ adopt.pc \in {"echo", "place"} /\ adopt.role = "sl"
      BY <1>2 DEF AdoptOrPlace, Frames, AwaitPcs, Roles
    <2>2. Sure => r.sl = 0 /\ r.tp = 0 /\ r.protected = 0
      BY <1>8, <1>9 DEF Rests, Sized, BothLegs
    <2> HIDE DEF adopt
    <2>3. Shielded(leg, ex[f.s], f.s, p, Asking(adopt))
      BY <1>1, <1>6, <2>1, AskingKeeps DEF Shielded, LegPcs, Protecting
    <2>4. Sure => Tracked(leg, f.s, p, Asking(adopt))
      BY <1>1, <1>7, <2>1, <2>2, AskingKeeps DEF Tracked, PassPcs
    <2>5. adopt.pc \in SetupPcs
      BY <2>1 DEF SetupPcs
    <2> QED
      BY <1>1, <1>5, <1>9, <2>1, <2>3, <2>4, <2>5, RequestServed DEF Fits
  <1>10. CASE ~direct
    <2>1. /\ cancel \in Frames
          /\ cancel.s = f.s /\ cancel.goal = goal /\ cancel.then = f.then
          /\ cancel.pc = "cancel" /\ cancel.role = role /\ cancel.oid = r[role]
      BY <1>2, <1>3 DEF CancelLegOf, Frames, AwaitPcs
    <2>2. r[role] # 0 /\ leg[r[role]].s = f.s /\ p[role] = r[role]
      BY <1>1, <1>3, <1>10 DEF Named, Roles
    <2>3. Sure => r.protected < r.filled
      BY <1>8, <1>10
    <2> HIDE DEF cancel
    <2>4. Shielded(leg, ex[f.s], f.s, p, Asking(cancel))
      BY <1>1, <1>6, <2>1, <2>2, AskingKeeps DEF Shielded, LegPcs, Protecting
    <2>5. Sure => Tracked(leg, f.s, p, Asking(cancel))
      BY <1>1, <1>4, <1>7, <2>1, <2>2, <2>3, AskingKeeps DEF Tracked, PassPcs
    <2>6. cancel.pc \in SetupPcs
      BY <2>1 DEF SetupPcs
    <2> QED
      BY <1>1, <1>5, <1>10, <2>1, <2>4, <2>5, <2>6, RequestServed DEF Fits
  <1> QED
    BY <1>9, <1>10

\* on_entry_fill and on_entry_partial_fill
LEMMA OnFillServed ==
    ASSUME TypeInv, NEW t \in Tasks, NEW f \in Frames, f.s \in Setups,
           Sure => f.then \in {"end", "apply"}, NEW r \in Records,
           Rests(leg, ex[f.s], f.s, r), r.protected <= r.filled,
           NEW size \in Amounts, size > 0, NEW full \in BOOLEAN,
           OnFill(t, f, r, size, full)
    PROVE  Served(t, f.s)
  <1> DEFINE known == Larger(r.filled, size)
             now == [r EXCEPT !.filled = known,
                              !.state = IF full THEN "ENTRY_FILLED"
                                        ELSE "ENTRY_PARTIALLY_FILLED"]
  <1>1. r.filled \in Amounts /\ r.protected \in Amounts
    BY DEF Records
  <1>2. /\ r.filled \in Nat /\ r.protected \in Nat /\ size \in Nat
    BY <1>1, Bounds
  <1>3. known \in Amounts /\ known \in Nat /\ known > 0 /\ r.filled <= known
    BY <1>1, <1>2 DEF Larger
  <1>4. /\ now \in Records
        /\ now.sl = r.sl /\ now.tp = r.tp /\ now.protected = r.protected
        /\ now.filled = known
        /\ now.state # "PROTECTED_POSITION"
    <2> HIDE DEF known
    <2> QED
      BY <1>3 DEF Records, States, RestingStates
  <1>5. \/ Return(t, f, r)
        \/ Return(t, f, now)
        \/ /\ ~(r.protected = known /\ BothLegs(r))
           /\ BeginProtection(t, f, now, known)
    BY DEF OnFill
  <1> HIDE DEF known, now
  <1>6. Rests(leg, ex[f.s], f.s, now)
    BY <1>3, <1>4, RestIsKept DEF TypeInv
  <1>7. CASE Return(t, f, r)
    BY <1>7, ReturnServed
  <1>8. CASE Return(t, f, now)
    BY <1>4, <1>6, <1>8, ReturnServed
  <1>9. CASE /\ ~(r.protected = known /\ BothLegs(r))
             /\ BeginProtection(t, f, now, known)
    <2>1. r.protected <= known
      BY <1>2, <1>3
    <2>2. ~(now.protected = known /\ BothLegs(now))
      BY <1>4, <1>9 DEF BothLegs
    <2>3. Named(leg, f.s, now)
      BY <1>6 DEF Rests
    <2> QED
      BY <1>3, <1>4, <1>6, <1>9, <2>1, <2>2, <2>3, BeginProtectionServed
  <1> QED
    BY <1>5, <1>7, <1>8, <1>9

-----------------------------------------------------------------------------
(* _ensure_bracket_protection *)

\* _cancel_existing_brackets after the leg it cancelled is gone.
LEMMA LegGoneServed ==
    ASSUME TypeInv, NEW t \in Tasks, NEW f \in Frames, f.s \in Setups,
           rec[f.s] \in Records, f.pc \in {"cancel", "verify"},
           Fits(leg, ex[f.s], f.s, rec[f.s], f),
           Sure => leg[f.oid].st # "open",
           LegGone(t, f)
    PROVE  Served(t, f.s)
  <1> DEFINE s == f.s
             old == rec[s]
             r == [old EXCEPT ![f.role] = 0]
             none == [r EXCEPT !.protected = 0]
             stale == [f EXCEPT !.stale = TRUE]
             adopt == AdoptOrPlace(stale, none)
             cancel == CancelLegOf(f, r, "tp")
  <1>1. f.role \in Roles
    BY DEF Frames
  <1>2. /\ r \in Records
        /\ r.state = old.state /\ r.protected = old.protected /\ r.filled = old.filled
        /\ r[f.role] = 0
        /\ \A role \in Roles : role # f.role => r[role] = old[role]
    BY <1>1, Bounds DEF Records, Roles
  <1>3. /\ old.state = "PROTECTION_PENDING" /\ f.goal > 0
        /\ Named(leg, s, old)
    BY DEF Fits, Shielded, Protecting
  <1>4. Named(leg, s, r)
    BY <1>2, <1>3 DEF Named
  <1>5. Sure => \A i \in LegIds : EngineLeg(leg, i, s) => i = r[leg[i].role]
    <2> SUFFICES ASSUME Sure, NEW i \in LegIds, EngineLeg(leg, i, s)
                 PROVE  i = r[leg[i].role]
      OBVIOUS
    <2>1. i = old[leg[i].role] /\ f.oid = old[f.role]
      BY DEF Fits, Tracked
    <2>2. leg[i].role \in Roles /\ i # f.oid
      BY DEF TypeInv, Legs, EngineLeg
    <2> QED
      BY <1>2, <2>1, <2>2
  <1>6. Sure => f.then \in {"end", "apply"} /\ old.protected < old.filled
    BY DEF Fits, Tracked
  <1>7. Sure /\ f.role = "tp" => r.sl = 0
    BY <1>2 DEF Fits, Tracked, Roles
  <1>8. \/ f.role = "sl" /\ r.tp # 0 /\ SetRec(s, r) /\ Await(t, cancel)
        \/ ~(f.role = "sl" /\ r.tp # 0) /\ SetRec(s, none) /\ Await(t, adopt)
    BY DEF LegGone
  <1>9. CASE f.role = "sl" /\ r.tp # 0 /\ SetRec(s, r) /\ Await(t, cancel)
    <2>1. r.tp \in 0..MaxLegs
      BY <1>2 DEF Records
    <2> HIDE DEF r
    <2>2. /\ cancel \in Frames
          /\ cancel.s = s /\ cancel.goal = f.goal /\ cancel.then = f.then
          /\ cancel.pc = "cancel" /\ cancel.role = "tp" /\ cancel.oid = r.tp
      BY <2>1 DEF CancelLegOf, Frames, AwaitPcs, Roles
    <2> HIDE DEF cancel
    <2>3. leg[r.tp].s = s
      BY <1>4, <1>9 DEF Named, Roles
    <2>4. Shielded(leg, ex[s], s, r, Asking(cancel))
      BY <1>2, <1>3, <1>4, <2>2, <2>3, AskingKeeps DEF Shielded, LegPcs
    <2>5. r.sl = 0
      BY <1>2, <1>9
    <2>6. Sure => Sized(r)
      BY <1>2, <1>6, <1>9 DEF Sized
    <2>7. Sure => Tracked(leg, s, r, Asking(cancel))
      BY <1>2, <1>5, <1>6, <1>9, <2>2, <2>5, <2>6, AskingKeeps DEF Tracked, PassPcs
    <2>8. cancel.pc \in SetupPcs
      BY <2>2 DEF SetupPcs
    <2> QED
      BY <1>2, <1>9, <2>2, <2>4, <2>7, <2>8, RequestServed DEF Fits
  <1>10. CASE ~(f.role = "sl" /\ r.tp # 0) /\ SetRec(s, none) /\ Await(t, adopt)
    <2>1. /\ none \in Records
          /\ none.sl = r.sl /\ none.tp = r.tp /\ none.state = old.state
          /\ none.protected = 0
      <3> HIDE DEF r
      <3> QED
        BY <1>2, Bounds DEF Records
    <2> HIDE DEF none
    <2>2. \A role \in Roles : none[role] = r[role]
      BY <2>1 DEF Roles
    <2>3. Sure => none.sl = 0 /\ none.tp = 0
      BY <1>1, <1>2, <1>7, <1>10, <2>1 DEF Roles
    <2>4. Named(leg, s, none)
      BY <1>4, <2>2 DEF Named
    <2>5. /\ adopt \in Frames
          /\ adopt.s = s /\ adopt.goal = f.goal /\ adopt.then = f.then
          /\ adopt.pc \in {"echo", "place"} /\ adopt.role = "sl"
      BY DEF AdoptOrPlace, Frames, AwaitPcs, Roles
    <2> HIDE DEF adopt, r
    <2>6. Shielded(leg, ex[s], s, none, Asking(adopt))
      BY <1>3, <2>1, <2>4, <2>5, AskingKeeps DEF Shielded, LegPcs
    <2>7. Sure => \A i \in LegIds : EngineLeg(leg, i, s) => i = none[leg[i].role]
      BY <1>5, <2>2 DEF TypeInv, Legs
    <2>8. Sure => Tracked(leg, s, none, Asking(adopt))
      BY <1>6, <2>1, <2>3, <2>5, <2>7, AskingKeeps DEF Tracked, PassPcs, Sized
    <2>9. adopt.pc \in SetupPcs
      BY <2>5 DEF SetupPcs
    <2> QED
      BY <1>10, <2>1, <2>5, <2>6, <2>8, <2>9, RequestServed DEF Fits
  <1> QED
    BY <1>8, <1>9, <1>10

\* A record left as it is has been written.
LEMMA SameRecWritten ==
    ASSUME TypeInv, NEW s \in Setups, UNCHANGED rec
    PROVE  SetRec(s, rec[s])
  BY DEF TypeInv, SetRec

\* The answer to the cancel of a leg.
LEMMA ResumeCancelServed ==
    ASSUME TypeInv, ShieldInv, NEW t \in Tasks, ResumeCancel(t)
    PROVE  Served(t, frame[t].s)
  <1> DEFINE f == frame[t]
             verify == [f EXCEPT !.pc = "verify"]
  <1>1. f.pc = "cancel"
    BY DEF ResumeCancel, Resume
  <1>2. /\ f \in Frames /\ f.s \in Setups /\ rec[f.s] \in Records
        /\ Fits(leg, ex[f.s], f.s, rec[f.s], f)
    BY <1>1, AtWork DEF SetupPcs
  <1>3. CASE f.reply = "ok"
    <2>1. LegGone(t, f)
      BY <1>3 DEF ResumeCancel
    <2>2. Sure => leg[f.oid].st # "open"
      BY <1>1, <1>2, <1>3 DEF Fits, Tracked
    <2> HIDE DEF f
    <2>3. Served(t, f.s)
      BY <1>1, <1>2, <2>1, <2>2, LegGoneServed
    <2> QED
      BY <2>3 DEF f
  <1>4. CASE f.reply # "ok"
    <2>1. Await(t, verify) /\ UNCHANGED rec
      BY <1>4 DEF ResumeCancel
    <2> HIDE DEF f
    <2>2. /\ verify \in Frames
          /\ verify.s = f.s /\ verify.goal = f.goal /\ verify.then = f.then
          /\ verify.pc = "verify" /\ verify.role = f.role /\ verify.oid = f.oid
      BY <1>2 DEF Frames, AwaitPcs
    <2> HIDE DEF verify
    <2>3. Shielded(leg, ex[f.s], f.s, rec[f.s], Asking(verify))
      BY <1>1, <1>2, <2>2, AskingKeeps DEF Fits, Shielded, LegPcs, Protecting, LegClosers
    <2>4. Sure => Tracked(leg, f.s, rec[f.s], Asking(verify))
      BY <1>1, <1>2, <2>2, AskingKeeps DEF Fits, Tracked, PassPcs
    <2>5. verify.pc \in SetupPcs
      BY <2>2 DEF SetupPcs
    <2>6. Served(t, f.s)
      BY <1>2, <2>1, <2>2, <2>3, <2>4, <2>5, SameRecWritten, RequestServed DEF Fits
    <2> QED
      BY <2>6 DEF f
  <1> QED
    BY <1>3, <1>4

\* A record that is declared something else than protected is at rest.
LEMMA StateRests ==
    ASSUME TypeInv, NEW s \in Setups, NEW r \in Records, NEW f,
           Fits(leg, ex[s], s, r, f), ~(f.pc = "place" /\ f.reply = "ok"),
           NEW state \in States \ {"PROTECTED_POSITION"}
    PROVE  /\ [r EXCEPT !.state = state] \in Records
           /\ Rests(leg, ex[s], s, [r EXCEPT !.state = state])
  <1> DEFINE q == [r EXCEPT !.state = state]
  <1>1. /\ q \in Records
        /\ q.protected = r.protected /\ q.filled = r.filled /\ q.state = state
        /\ q.sl = r.sl /\ q.tp = r.tp
        /\ \A role \in Roles : q[role] = r[role]
    BY DEF Records, Roles
  <1> HIDE DEF q
  <1>2. Named(leg, s, q)
    BY <1>1 DEF Fits, Shielded, Named
  <1>3. Sure => Sized(q) /\ \A i \in LegIds : EngineLeg(leg, i, s) => i = q[leg[i].role]
    <2>1. \A i \in LegIds : leg[i].role \in Roles
      BY DEF TypeInv, Legs
    <2> QED
      BY <1>1, <2>1 DEF Fits, Tracked, Sized, BothLegs
  <1>4. Rests(leg, ex[s], s, q)
    BY <1>1, <1>2, <1>3 DEF Rests
  <1> QED
    BY <1>1, <1>4 DEF q

\* The verdict on a refused cancel.
LEMMA ResumeVerifyServed ==
    ASSUME TypeInv, ShieldInv, NEW t \in Tasks, ResumeVerify(t)
    PROVE  Served(t, frame[t].s)
  <1> DEFINE f == frame[t]
             failed == [rec[f.s] EXCEPT !.state = "PROTECTION_FAILED"]
  <1>1. f.pc = "verify"
    BY DEF ResumeVerify, Resume
  <1>2. /\ f \in Frames /\ f.s \in Setups /\ rec[f.s] \in Records
        /\ Fits(leg, ex[f.s], f.s, rec[f.s], f)
    BY <1>1, AtWork DEF SetupPcs
  <1>3. CASE ConfirmedGone(f.reply)
    <2>1. LegGone(t, f)
      BY <1>3 DEF ResumeVerify
    <2>2. Sure => leg[f.oid].st # "open"
      BY <1>1, <1>2, <1>3 DEF Fits, Tracked, ConfirmedGone
    <2> HIDE DEF f
    <2>3. Served(t, f.s)
      BY <1>1, <1>2, <2>1, <2>2, LegGoneServed
    <2> QED
      BY <2>3 DEF f
  <1>4. CASE ~ConfirmedGone(f.reply)
    <2>1. SetRec(f.s, failed) /\ Step(t, Back(f))
      BY <1>4 DEF ResumeVerify
    <2> HIDE DEF f
    <2>2. failed \in Records /\ Rests(leg, ex[f.s], f.s, failed)
      BY <1>1, <1>2, StateRests DEF States
    <2>3. Sure => f.then \in {"end", "apply"}
      BY <1>2 DEF Fits, Tracked
    <2> HIDE DEF failed
    <2>4. Served(t, f.s)
      BY <1>2, <2>1, <2>2, <2>3, BackServed
    <2> QED
      BY <2>4 DEF f
  <1> QED
    BY <1>3, <1>4

\* Turning to the placement of the pair, no order of which is tracked.
LEMMA PlaceStopLossServed ==
    ASSUME TypeInv, NEW t \in Tasks, NEW f \in Frames, f.s \in Setups,
           rec[f.s] \in Records, f.pc \in {"echo", "openOrders"},
           Fits(leg, ex[f.s], f.s, rec[f.s], f),
           PlaceStopLoss(t, f), UNCHANGED rec
    PROVE  Served(t, f.s)
  <1> DEFINE g == [f EXCEPT !.pc = "place", !.role = "sl"]
  <1>1. /\ g \in Frames
        /\ g.s = f.s /\ g.goal = f.goal /\ g.then = f.then
        /\ g.pc = "place" /\ g.role = "sl"
    BY DEF Frames, AwaitPcs, Roles
  <1>2. Await(t, g)
    BY DEF PlaceStopLoss
  <1> HIDE DEF g
  <1>3. Shielded(leg, ex[f.s], f.s, rec[f.s], Asking(g))
    BY <1>1, AskingKeeps DEF Fits, Shielded, LegPcs, Protecting, LegClosers
  <1>4. Sure => Tracked(leg, f.s, rec[f.s], Asking(g))
    BY <1>1, AskingKeeps DEF Fits, Tracked, PassPcs
  <1>5. g.pc \in SetupPcs
    BY <1>1 DEF SetupPcs
  <1> QED
    BY <1>1, <1>2, <1>3, <1>4, <1>5, SameRecWritten, RequestServed DEF Fits

\* The entry order's echo of its attached bracket.
LEMMA ResumeEchoServed ==
    ASSUME TypeInv, ShieldInv, NEW t \in Tasks, ResumeEcho(t)
    PROVE  Served(t, frame[t].s)
  <1> DEFINE f == frame[t]
             look == [f EXCEPT !.pc = "openOrders"]
  <1>1. f.pc = "echo" /\ UNCHANGED rec /\ (Await(t, look) \/ PlaceStopLoss(t, f))
    BY DEF ResumeEcho, Resume
  <1>2. /\ f \in Frames /\ f.s \in Setups /\ rec[f.s] \in Records
        /\ Fits(leg, ex[f.s], f.s, rec[f.s], f)
    BY <1>1, AtWork DEF SetupPcs
  <1> HIDE DEF f
  <1>3. CASE Await(t, look)
    <2>1. /\ look \in Frames
          /\ look.s = f.s /\ look.goal = f.goal /\ look.then = f.then
          /\ look.pc = "openOrders"
      BY <1>2 DEF Frames, AwaitPcs
    <2> HIDE DEF look
    <2>2. Shielded(leg, ex[f.s], f.s, rec[f.s], Asking(look))
      BY <1>1, <1>2, <2>1, AskingKeeps DEF Fits, Shielded, LegPcs, Protecting, LegClosers
    <2>3. Sure => Tracked(leg, f.s, rec[f.s], Asking(look))
      BY <1>1, <1>2, <2>1, AskingKeeps DEF Fits, Tracked, PassPcs
    <2>4. look.pc \in SetupPcs
      BY <2>1 DEF SetupPcs
    <2>5. Served(t, f.s)
      BY <1>1, <1>2, <1>3, <2>1, <2>2, <2>3, <2>4, SameRecWritten, RequestServed DEF Fits
    <2> QED
      BY <2>5 DEF f
  <1>4. CASE PlaceStopLoss(t, f)
    <2>1. Served(t, f.s)
      BY <1>1, <1>2, <1>4, PlaceStopLossServed
    <2> QED
      BY <2>1 DEF f
  <1> QED
    BY <1>1, <1>3, <1>4

\* Adoption: an SL and a TP found resting on the exchange become the pair.
LEMMA ResumeOpenOrdersServed ==
    ASSUME TypeInv, ShieldInv, NEW t \in Tasks, ResumeOpenOrders(t)
    PROVE  Served(t, frame[t].s)
  <1> DEFINE f == frame[t]
             p(i, j) == [rec[f.s] EXCEPT !.sl = i, !.tp = j, !.protected = f.goal,
                                         !.state = "PROTECTED_POSITION"]
  <1>1. f.pc = "openOrders"
    BY DEF ResumeOpenOrders, Resume
  <1>2. /\ f \in Frames /\ f.s \in Setups /\ rec[f.s] \in Records
        /\ Fits(leg, ex[f.s], f.s, rec[f.s], f)
        /\ f.seen \subseteq LegIds /\ f.goal \in Amounts
    BY <1>1, AtWork DEF SetupPcs, Frames
  <1>3. \/ \E i \in Adoptable(f, "sl"), j \in Adoptable(f, "tp") : Return(t, f, p(i, j))
        \/ PlaceStopLoss(t, f) /\ UNCHANGED rec
    BY DEF ResumeOpenOrders
  <1> HIDE DEF f
  <1>4. ASSUME NEW i \in Adoptable(f, "sl"), NEW j \in Adoptable(f, "tp"),
               Return(t, f, p(i, j))
        PROVE  Served(t, f.s)
    <2> DEFINE q == p(i, j)
    <2>1. /\ i \in LegIds /\ leg[i].role = "sl" /\ Stands(leg, ex[f.s], i, f.s, f.goal)
          /\ j \in LegIds /\ leg[j].role = "tp" /\ Stands(leg, ex[f.s], j, f.s, f.goal)
      BY <1>1, <1>2 DEF Adoptable, Fits, Shielded
    <2>2. i # 0 /\ j # 0 /\ i \in 0..MaxLegs /\ j \in 0..MaxLegs
      BY <2>1, Bounds DEF LegIds
    <2>3. /\ q \in Records
          /\ q.sl = i /\ q.tp = j /\ q.protected = f.goal
          /\ q["sl"] = i /\ q["tp"] = j
      BY <1>2, <2>2 DEF Records, States
    <2> HIDE DEF q
    <2>4. Named(leg, f.s, q)
      BY <2>1, <2>3 DEF Named, Roles, Stands
    <2>5. Real(leg, ex[f.s], f.s, q)
      BY <1>1, <1>2, <2>1, <2>2, <2>3 DEF Real, Roles, Fits, Shielded, Protecting
    <2>6. ASSUME Sure, NEW k \in LegIds, EngineLeg(leg, k, f.s)
          PROVE  k = q[leg[k].role]
      <3>1. k = rec[f.s][leg[k].role] /\ rec[f.s].sl = 0 /\ rec[f.s].tp = 0
        BY <1>1, <1>2, <2>6 DEF Fits, Tracked
      <3>2. leg[k].role \in Roles /\ k # 0
        BY Bounds DEF TypeInv, Legs, LegIds
      <3> QED
        BY <3>1, <3>2 DEF Roles
    <2>7. Rests(leg, ex[f.s], f.s, q)
      BY <2>2, <2>3, <2>4, <2>5, <2>6 DEF Rests, Sized, BothLegs
    <2>8. Sure => f.then \in {"end", "apply"}
      BY <1>2 DEF Fits, Tracked
    <2>9. Return(t, f, q)
      BY <1>4 DEF q
    <2> QED
      BY <1>2, <2>3, <2>7, <2>8, <2>9, ReturnServed
  <1>5. ASSUME PlaceStopLoss(t, f) /\ UNCHANGED rec
        PROVE  Served(t, f.s)
    BY <1>1, <1>2, <1>5, PlaceStopLossServed
  <1> HIDE DEF p
  <1>6. Served(t, f.s)
    BY <1>3, <1>4, <1>5
  <1> QED
    BY <1>6 DEF f

\* The placement of a leg: refused, half done, or complete.
LEMMA ResumePlaceServed ==
    ASSUME TypeInv, ShieldInv, NEW t \in Tasks, ResumePlace(t)
    PROVE  Served(t, frame[t].s)
  <1> DEFINE f == frame[t]
             old == rec[f.s]
             failed == [old EXCEPT !.state = "PROTECTION_FAILED"]
             r == [old EXCEPT ![f.role] = f.oid]
             done == [r EXCEPT !.protected = f.goal, !.state = "PROTECTED_POSITION"]
             next == [f EXCEPT !.role = "tp"]
  <1>1. f.pc = "place"
    BY DEF ResumePlace, Resume
  <1>2. /\ f \in Frames /\ f \in GoodFrames /\ f.s \in Setups /\ old \in Records
        /\ Fits(leg, ex[f.s], f.s, old, f)
        /\ f.role \in Roles /\ f.goal \in Amounts
    BY <1>1, AtWork DEF SetupPcs, Frames
  <1>3. \/ f.reply # "ok" /\ Return(t, f, failed)
        \/ f.reply = "ok" /\ f.role = "sl" /\ SetRec(f.s, r) /\ Await(t, next)
        \/ f.reply = "ok" /\ f.role = "tp" /\ Return(t, f, done)
    BY <1>2 DEF ResumePlace, PlacementFailed, Roles
  <1>4. Sure => f.then \in {"end", "apply"} /\ old.protected = 0 /\ old.tp = 0
    BY <1>1, <1>2 DEF Fits, Tracked
  <1>5. Named(leg, f.s, old) /\ f.goal > 0 /\ old.state = "PROTECTION_PENDING"
    BY <1>1, <1>2 DEF Fits, Shielded, Protecting
  <1> HIDE DEF f
  <1>6. ASSUME f.reply # "ok" /\ Return(t, f, failed)
        PROVE  Served(t, f.s)
    <2>1. failed \in Records /\ Rests(leg, ex[f.s], f.s, failed)
      BY <1>1, <1>2, <1>6, StateRests DEF States
    <2> QED
      BY <1>2, <1>4, <1>6, <2>1, ReturnServed
  <1>7. ASSUME f.reply = "ok"
        PROVE  /\ f.oid \in LegIds /\ f.oid # 0
               /\ Stands(leg, ex[f.s], f.oid, f.s, f.goal) /\ leg[f.oid].role = f.role
               /\ r \in Records
               /\ r.state = old.state /\ r.protected = old.protected
               /\ r.filled = old.filled
               /\ r[f.role] = f.oid
               /\ \A role \in Roles : role # f.role => r[role] = old[role]
               /\ Named(leg, f.s, r)
               /\ Sure => \A i \in LegIds : EngineLeg(leg, i, f.s) => i = r[leg[i].role]
    <2>1. f.oid \in LegIds /\ f.oid # 0 /\ f.oid \in 0..MaxLegs
      BY <1>1, <1>2, <1>7, Bounds DEF GoodFrames, Placed, LegIds
    <2>2. Stands(leg, ex[f.s], f.oid, f.s, f.goal) /\ leg[f.oid].role = f.role
      BY <1>1, <1>2, <1>7 DEF Fits, Shielded
    <2>3. /\ r \in Records
          /\ r.state = old.state /\ r.protected = old.protected
          /\ r.filled = old.filled
          /\ r[f.role] = f.oid
          /\ \A role \in Roles : role # f.role => r[role] = old[role]
      BY <1>2, <2>1 DEF Records, Roles
    <2> HIDE DEF r
    <2>4. Named(leg, f.s, r)
      BY <1>5, <2>2, <2>3 DEF Named, Stands
    <2>5. ASSUME Sure, NEW i \in LegIds, EngineLeg(leg, i, f.s)
          PROVE  i = r[leg[i].role]
      <3>1. leg[i].role \in Roles /\ i # 0
        BY Bounds DEF TypeInv, Legs, LegIds
      <3>2. CASE i = f.oid
        BY <2>2, <2>3, <3>2
      <3>3. CASE i # f.oid
        <4>1. i = old[leg[i].role]
          BY <1>2, <2>5, <3>3 DEF Fits, Tracked
        <4>2. old[f.role] = 0
          BY <1>1, <1>2, <2>5 DEF Fits, Tracked, Roles
        <4> QED
          BY <2>3, <3>1, <4>1, <4>2
      <3> QED
        BY <3>2, <3>3
    <2> QED
      BY <2>1, <2>2, <2>3, <2>4, <2>5
  <1> HIDE DEF r
  <1>8. ASSUME f.reply = "ok" /\ f.role = "sl" /\ SetRec(f.s, r) /\ Await(t, next)
        PROVE  Served(t, f.s)
    <2>1. /\ next \in Frames
          /\ next.s = f.s /\ next.goal = f.goal /\ next.then = f.then
          /\ next.pc = "place" /\ next.role = "tp"
      BY <1>1, <1>2 DEF Frames, Roles
    <2> HIDE DEF next
    <2>2. r.sl = f.oid /\ r.tp = old.tp
      BY <1>7, <1>8 DEF Roles
    <2>3. Shielded(leg, ex[f.s], f.s, r, Asking(next))
      BY <1>5, <1>7, <1>8, <2>1, <2>2, AskingKeeps DEF Shielded, LegPcs
    <2>4. Sure => Tracked(leg, f.s, r, Asking(next))
      BY <1>4, <1>7, <1>8, <2>1, <2>2, AskingKeeps DEF Tracked, PassPcs, Sized
    <2>5. next.pc \in SetupPcs
      BY <2>1 DEF SetupPcs
    <2> QED
      BY <1>2, <1>7, <1>8, <2>1, <2>3, <2>4, <2>5, RequestServed DEF Fits
  <1>9. ASSUME f.reply = "ok" /\ f.role = "tp" /\ Return(t, f, done)
        PROVE  Served(t, f.s)
    <2>1. /\ done \in Records
          /\ done.sl = r.sl /\ done.tp = r.tp /\ done.protected = f.goal
          /\ done["sl"] = r["sl"] /\ done["tp"] = r["tp"]
      BY <1>2, <1>7, <1>9 DEF Records, States
    <2> HIDE DEF done
    <2>2. r["tp"] = f.oid /\ r["sl"] = old.sl /\ r.sl = old.sl /\ r.tp = f.oid
      BY <1>7, <1>9 DEF Roles
    <2>3. old.sl # 0 /\ Stands(leg, ex[f.s], old.sl, f.s, f.goal)
      BY <1>1, <1>2, <1>9 DEF Fits, Shielded
    <2>4. Real(leg, ex[f.s], f.s, done)
      BY <1>5, <1>7, <1>9, <2>1, <2>2, <2>3 DEF Real, Roles
    <2>5. Named(leg, f.s, done)
      BY <1>7, <1>9, <2>1 DEF Named, Roles
    <2>6. ASSUME Sure, NEW i \in LegIds, EngineLeg(leg, i, f.s)
          PROVE  i = done[leg[i].role]
      <3>1. i = r[leg[i].role] /\ leg[i].role \in Roles
        BY <1>7, <1>9, <2>6 DEF TypeInv, Legs
      <3> QED
        BY <2>1, <3>1 DEF Roles
    <2>7. Rests(leg, ex[f.s], f.s, done)
      BY <1>7, <1>9, <2>1, <2>2, <2>3, <2>4, <2>5, <2>6 DEF Rests, Sized, BothLegs
    <2> QED
      BY <1>2, <1>4, <1>9, <2>1, <2>7, ReturnServed
  <1>10. Served(t, f.s)
    BY <1>3, <1>6, <1>8, <1>9
  <1> QED
    BY <1>10 DEF f

-----------------------------------------------------------------------------
(* Submission, the stream, expiry *)

\* A frame that says only where it is touches no order.
At(g, pc, s) ==
    /\ g \in Frames /\ g.pc = pc /\ g.s = s
    /\ g.then \in {"end", "apply"}
    /\ Loose(g) /\ Loose(Asking(g))

\* Frames that call or loop outside the bracket protection are such.
LEMMA PlainFrame ==
    ASSUME NEW pc \in AwaitPcs \cup LoopPcs, NEW s \in Setups \cup {NoOne},
           NEW then \in {"end", "apply"},
           pc \notin Protecting \cup LegPcs \cup {"post"}, Sure => pc \notin PassPcs
    PROVE  /\ At([IdleFrame EXCEPT !.s = s, !.then = then, !.pc = pc], pc, s)
           /\ At([IdleFrame EXCEPT !.pc = pc, !.s = s], pc, s)
           /\ At([IdleFrame EXCEPT !.pc = pc], pc, NoOne)
  <1>1. IdleFrame \in Frames /\ IdleFrame.s = NoOne /\ IdleFrame.then = "end"
    BY IdleIsGood DEF GoodFrames, IdleFrame
  <1>2. ASSUME NEW g \in Frames, NEW x, g.pc = pc, g.s = x, g.then \in {"end", "apply"}
        PROVE  At(g, pc, x)
    BY <1>2, AskingKeeps DEF At, Loose
  <1> DEFINE a == [IdleFrame EXCEPT !.s = s, !.then = then, !.pc = pc]
             b == [IdleFrame EXCEPT !.pc = pc, !.s = s]
             c == [IdleFrame EXCEPT !.pc = pc]
  <1>3. a \in Frames /\ a.pc = pc /\ a.s = s /\ a.then = then
    BY <1>1 DEF Frames
  <1>4. b \in Frames /\ b.pc = pc /\ b.s = s /\ b.then = "end"
    BY <1>1 DEF Frames
  <1>5. c \in Frames /\ c.pc = pc /\ c.s = NoOne /\ c.then = "end"
    BY <1>1 DEF Frames
  <1> HIDE DEF a, b, c
  <1>6. At(a, pc, s) /\ At(b, pc, s) /\ At(c, pc, NoOne)
    BY <1>2, <1>3, <1>4, <1>5
  <1> QED
    BY <1>6 DEF a, b, c

\* A task that is not in a call touches no order.
LEMMA IdleIsLoose ==
    IdleFrame \in Frames /\ IdleFrame.pc = "idle" /\ IdleFrame.s = NoOne /\ Loose(IdleFrame)
  BY IdleIsGood DEF GoodFrames, IdleFrame, Loose, Protecting, LegPcs, PassPcs

\* A call that ends leaves a record at rest.
LEMMA StopServed ==
    ASSUME NEW t \in Tasks, NEW s \in Setups, NEW r \in Records, SetRec(s, r), Stop(t),
           Rests(leg, ex[s], s, r)
    PROVE  Served(t, s)
  BY IdleIsLoose, LooseServed DEF Stop, SetupPcs

\* A loose frame may be sent to wait.
LEMMA WaitServed ==
    ASSUME NEW t \in Tasks, NEW f \in Frames, f.s \in Setups, f.pc \in SetupPcs,
           NEW r \in Records, SetRec(f.s, r), Await(t, f), Loose(Asking(f)),
           Rests(leg, ex[f.s], f.s, r)
    PROVE  Served(t, f.s)
  BY RequestServed, RestIsFit

\* _apply_entry_order_state, whatever was observed of the entry.
LEMMA ApplyEntryServed ==
    ASSUME TypeInv, NEW t \in Tasks, NEW f \in Frames, f.s \in Setups,
           Sure => f.then \in {"end", "apply"}, NEW r \in Records,
           Rests(leg, ex[f.s], f.s, r), r.protected <= r.filled,
           NEW status, NEW size \in Amounts, ApplyEntry(t, f, r, status, size)
    PROVE  Served(t, f.s)
  <1> DEFINE known == Larger(size, r.filled)
             full == status = "filled" \/ known >= Qty
             dead == [r EXCEPT !.state = "ENTRY_CANCELLED"]
  <1>1. known \in Amounts /\ known \in Nat /\ full \in BOOLEAN
    BY LargerBound, Bounds DEF Records
  <1>2. \/ SetRec(f.s, r) /\ Step(t, Back(f))
        \/ SetRec(f.s, dead) /\ Step(t, Back(f))
        \/ known # 0 /\ OnFill(t, f, r, known, full)
    BY DEF ApplyEntry, Finalize
  <1> HIDE DEF known, full
  <1>3. CASE SetRec(f.s, r) /\ Step(t, Back(f))
    BY <1>3, BackServed
  <1>4. CASE SetRec(f.s, dead) /\ Step(t, Back(f))
    <2>1. Fits(leg, ex[f.s], f.s, r, IdleFrame)
      BY IdleIsLoose, RestIsFit
    <2>2. dead \in Records /\ Rests(leg, ex[f.s], f.s, dead)
      BY <2>1, IdleIsLoose, StateRests DEF States, TerminalStates
    <2> QED
      BY <1>4, <2>2, BackServed
  <1>5. CASE known # 0 /\ OnFill(t, f, r, known, full)
    <2>1. known > 0
      BY <1>1, <1>5
    <2> QED
      BY <1>1, <1>5, <2>1, OnFillServed
  <1> QED
    BY <1>2, <1>3, <1>4, <1>5

\* A record at rest stays so when its entry's id is learnt.
LEMMA IdRests ==
    ASSUME TruthInv, NEW s \in Setups, Rests(leg, ex[s], s, rec[s]), NEW b \in BOOLEAN
    PROVE  /\ [rec[s] EXCEPT !.entryId = b] \in Records
           /\ Rests(leg, ex[s], s, [rec[s] EXCEPT !.entryId = b])
           /\ [rec[s] EXCEPT !.entryId = b].protected <= [rec[s] EXCEPT !.entryId = b].filled
  <1> DEFINE r == rec[s]
             q == [r EXCEPT !.entryId = b]
  <1>1. TypeInv /\ r \in Records /\ r.protected <= r.filled /\ r.filled \in Nat
    BY TruthTypes DEF TypeInv, GoodRecords, TruthInv, RecordsTrue, TrueRecord
  <1>2. /\ q \in Records
        /\ q.sl = r.sl /\ q.tp = r.tp /\ q.protected = r.protected
        /\ q.filled = r.filled /\ q.state = r.state
    BY <1>1 DEF Records
  <1> HIDE DEF q, r
  <1>3. Rests(leg, ex[s], s, r)
    BY DEF r
  <1>4. Rests(leg, ex[s], s, q)
    BY <1>1, <1>2, <1>3, RestIsKept DEF TypeInv
  <1> QED
    BY <1>1, <1>2, <1>4 DEF q, r

\* An admission that is refused by the gateway, and one that is submitted.
LEMMA AdmissionServed ==
    ASSUME ~Overlap, TruthInv, ShieldInv, NEW t \in Tasks, NEW s \in Setups,
           RefuseAtGateway(t, s) \/ Submit(t, s)
    PROVE  Served(t, s) /\ Alone(t) /\ frame[t].s = NoOne
  <1>1. /\ Alone(t) /\ frame[t].s = NoOne /\ frame[t].pc = "idle"
        /\ Rests(leg, ex[s], s, rec[s])
    BY BeginAlone DEF RefuseAtGateway, Submit, Begin, Idle
  <1>2. TypeInv /\ rec[s] \in Records /\ frame[t] \in Frames
    BY TruthTypes DEF TypeInv, GoodRecords, GoodFrames
  <1>3. Fits(leg, ex[s], s, rec[s], IdleFrame)
    BY <1>1, IdleIsLoose, RestIsFit
  <1>4. ASSUME NEW state \in {"ENTRY_REJECTED", "ENTRY_SUBMITTED"}
        PROVE  /\ [rec[s] EXCEPT !.state = state] \in Records
               /\ Rests(leg, ex[s], s, [rec[s] EXCEPT !.state = state])
    BY <1>2, <1>3, IdleIsLoose, StateRests DEF States, TerminalStates, RestingStates
  <1>5. CASE RefuseAtGateway(t, s)
    <2>1. Step(t, frame[t])
      BY <1>2, <1>5 DEF RefuseAtGateway, Step, TypeInv
    <2>2. Loose(frame[t])
      BY <1>1 DEF Loose, ShieldInv, CallsOnDuty, Protecting, LegPcs
    <2>3. SetRec(s, [rec[s] EXCEPT !.state = "ENTRY_REJECTED"])
      BY <1>5 DEF RefuseAtGateway
    <2>4. Served(t, s)
      BY <1>1, <1>2, <1>4, <2>1, <2>2, <2>3, LooseServed DEF SetupPcs
    <2> QED
      BY <1>1, <2>4
  <1>6. CASE Submit(t, s)
    <2> DEFINE r == [rec[s] EXCEPT !.state = "ENTRY_SUBMITTED"]
               g == [IdleFrame EXCEPT !.pc = "post", !.s = s]
    <2>1. SetRec(s, r) /\ Await(t, g)
      BY <1>6 DEF Submit
    <2>2. g \in Frames /\ g.pc = "post" /\ g.s = s /\ g.then = "end"
      BY IdleIsLoose DEF Frames, AwaitPcs, IdleFrame
    <2>3. r \in Records /\ Rests(leg, ex[s], s, r) /\ r.state = "ENTRY_SUBMITTED"
      BY <1>2, <1>4 DEF Records
    <2> HIDE DEF g, r
    <2>4. Fits(leg, ex[s], s, r, Asking(g))
      BY <2>2, <2>3, AskingKeeps
         DEF Fits, Shielded, Tracked, Rests, Protecting, LegPcs, PassPcs
    <2>5. Served(t, s)
      BY <2>1, <2>2, <2>3, <2>4, RequestServed DEF SetupPcs
    <2> QED
      BY <1>1, <2>5
  <1> QED
    BY <1>5, <1>6

\* The answer to the submission.
LEMMA ResumePostServed ==
    ASSUME TruthInv, ShieldInv, NEW t \in Tasks, ResumePost(t)
    PROVE  Served(t, frame[t].s)
  <1> DEFINE f == frame[t]
             r == [rec[f.s] EXCEPT !.entryId = TRUE]
  <1>1. TypeInv /\ f.pc = "post"
    BY TruthTypes DEF ResumePost, Resume
  <1>2. /\ f \in Frames /\ f.s \in Setups /\ rec[f.s] \in Records
        /\ Fits(leg, ex[f.s], f.s, rec[f.s], f)
        /\ f.amt \in Amounts /\ f.amt \in Nat
    BY <1>1, AtWork, TruthTypes DEF SetupPcs
  <1>3. Rests(leg, ex[f.s], f.s, rec[f.s])
    BY <1>1, <1>2, FitIsRest DEF LegClosers
  <1>4. Sure => f.then \in {"end", "apply"}
    BY <1>2 DEF Fits, Tracked
  <1>5. r \in Records /\ Rests(leg, ex[f.s], f.s, r) /\ r.protected <= r.filled
    BY <1>2, <1>3, IdRests
  <1>6. \/ SetRec(f.s, r) /\ Stop(t)
        \/ f.amt # 0 /\ OnFill(t, f, r, f.amt, f.reply = "filled")
        \/ \E state \in {"ENTRY_REJECTED", "RECONCILIATION_REQUIRED"} :
               SetRec(f.s, [rec[f.s] EXCEPT !.state = state]) /\ Stop(t)
    BY DEF ResumePost, SubmitAccepted, SubmitRejected, SubmitUnknown
  <1> HIDE DEF f, r
  <1>7. ASSUME SetRec(f.s, r) /\ Stop(t)
        PROVE  Served(t, f.s)
    BY <1>2, <1>5, <1>7, StopServed
  <1>8. ASSUME f.amt # 0 /\ OnFill(t, f, r, f.amt, f.reply = "filled")
        PROVE  Served(t, f.s)
    <2>1. f.amt > 0 /\ (f.reply = "filled") \in BOOLEAN
      BY <1>2, <1>8
    <2> QED
      BY <1>1, <1>2, <1>4, <1>5, <1>8, <2>1, OnFillServed
  <1>9. ASSUME NEW state \in {"ENTRY_REJECTED", "RECONCILIATION_REQUIRED"},
               SetRec(f.s, [rec[f.s] EXCEPT !.state = state]), Stop(t)
        PROVE  Served(t, f.s)
    <2>1. /\ [rec[f.s] EXCEPT !.state = state] \in Records
          /\ Rests(leg, ex[f.s], f.s, [rec[f.s] EXCEPT !.state = state])
      BY <1>1, <1>2, StateRests DEF States, TerminalStates
    <2> QED
      BY <1>2, <1>9, <2>1, StopServed
  <1>10. Served(t, f.s)
    BY <1>6, <1>7, <1>8, <1>9
  <1> QED
    BY <1>10 DEF f

\* What the private stream reports of an entry or of a flat position.
LEMMA StreamServed ==
    ASSUME ~Overlap, TruthInv, ShieldInv, NEW t \in Tasks, NEW s \in Setups,
           OrderEvent(t, s) \/ FillEvent(t, s)
    PROVE  Served(t, s) /\ Alone(t) /\ frame[t].s = NoOne
  <1>1. /\ Alone(t) /\ frame[t].s = NoOne
        /\ Rests(leg, ex[s], s, rec[s])
    BY BeginAlone DEF OrderEvent, FillEvent
  <1>2. TypeInv /\ rec[s] \in Records /\ ex[s].got \in Nat /\ ex[s].got \in Amounts
        /\ rec[s].protected <= rec[s].filled
    BY TruthTypes
       DEF TypeInv, GoodRecords, TruthInv, RecordsTrue, TrueRecord
  <1> DEFINE f == StreamFrame(s)
             r == [rec[s] EXCEPT !.entryId = TRUE]
  <1>3. f \in Frames /\ f.s = s /\ f.then = "apply"
    BY IdleIsLoose DEF StreamFrame, Frames
  <1>4. r \in Records /\ Rests(leg, ex[s], s, r) /\ r.protected <= r.filled
    BY <1>1, IdRests
  <1>5. \A n \in 0..ex[s].got : n \in Amounts
    BY <1>2, ConstantsAssumption DEF Amounts
  <1> HIDE DEF f, r
  <1>6. CASE OrderEvent(t, s)
    <2>1. PICK e \in Reports(s) : ApplyEntry(t, f, r, e.status, e.size)
      BY <1>6 DEF OrderEvent, f, r
    <2>2. e.size \in Amounts
      BY <1>2, <1>5 DEF Reports
    <2>3. Served(t, s)
      BY <1>2, <1>3, <1>4, <2>1, <2>2, ApplyEntryServed
    <2> QED
      BY <1>1, <2>3
  <1>7. CASE FillEvent(t, s)
    <2>1. PICK n \in 1..ex[s].got : ApplyEntry(t, f, rec[s], "unstated", n)
      BY <1>7 DEF FillEvent, f
    <2>2. n \in Amounts
      BY <1>2, <1>5
    <2>3. Served(t, s)
      BY <1>1, <1>2, <1>3, <2>1, <2>2, ApplyEntryServed
    <2> QED
      BY <1>1, <2>3
  <1> QED
    BY <1>6, <1>7

\* A call that begins by asking for something other than an order of the pair.
LEMMA AskingServed ==
    ASSUME TypeInv, NEW t \in Tasks, NEW s \in Setups, NEW pc \in SetupPcs, NEW g,
           At(g, pc, s), Await(t, g), UNCHANGED rec, Rests(leg, ex[s], s, rec[s])
    PROVE  Served(t, s)
  <1>1. g \in Frames /\ g.s = s /\ g.pc = pc /\ Loose(Asking(g))
    BY DEF At
  <1>2. SetRec(s, rec[s]) /\ rec[s] \in Records
    BY SameRecWritten DEF TypeInv, GoodRecords
  <1> QED
    BY <1>1, <1>2, WaitServed

\* A closure is reported.
LEMMA ClosureEventServed ==
    ASSUME ~Overlap, TruthInv, ShieldInv, NEW t \in Tasks, NEW s \in Setups,
           ClosureEvent(t, s)
    PROVE  Served(t, s) /\ Alone(t) /\ frame[t].s = NoOne
  <1>1. /\ Alone(t) /\ frame[t].s = NoOne /\ frame[t].pc = "idle"
        /\ Rests(leg, ex[s], s, rec[s])
    BY BeginAlone DEF ClosureEvent, Begin, Idle
  <1>2. TypeInv /\ rec[s] \in Records /\ frame[t] \in Frames
    BY TruthTypes DEF TypeInv, GoodRecords, GoodFrames
  <1> DEFINE r == [rec[s] EXCEPT !.state = "RECONCILIATION_REQUIRED"]
  <1>3. \/ Await(t, [IdleFrame EXCEPT !.pc = "balance", !.s = s]) /\ UNCHANGED rec
        \/ SetRec(s, r) /\ UNCHANGED frame
    BY DEF ClosureEvent
  <1>4. CASE Await(t, [IdleFrame EXCEPT !.pc = "balance", !.s = s]) /\ UNCHANGED rec
    <2>1. /\ "balance" \in SetupPcs
          /\ At([IdleFrame EXCEPT !.pc = "balance", !.s = s], "balance", s)
      BY PlainFrame DEF AwaitPcs, SetupPcs, Protecting, LegPcs, PassPcs
    <2>2. Served(t, s)
      BY <1>1, <1>2, <1>4, <2>1, AskingServed
    <2> QED
      BY <1>1, <2>2
  <1>5. CASE SetRec(s, r) /\ UNCHANGED frame
    <2>1. Fits(leg, ex[s], s, rec[s], IdleFrame)
      BY <1>1, IdleIsLoose, RestIsFit
    <2>2. r \in Records /\ Rests(leg, ex[s], s, r)
      BY <1>2, <2>1, IdleIsLoose, StateRests DEF States
    <2>3. Step(t, frame[t])
      BY <1>2, <1>5 DEF Step, TypeInv
    <2>4. Loose(frame[t])
      BY <1>1 DEF Loose, ShieldInv, CallsOnDuty, Protecting, LegPcs
    <2>5. Served(t, s)
      BY <1>1, <1>2, <1>5, <2>2, <2>3, <2>4, LooseServed DEF SetupPcs
    <2> QED
      BY <1>1, <2>5
  <1> QED
    BY <1>3, <1>4, <1>5

\* An expiry begins.
LEMMA ExpireServed ==
    ASSUME ~Overlap, TruthInv, ShieldInv, NEW t \in Tasks, NEW s \in Setups,
           Expire(t, s)
    PROVE  Served(t, s) /\ Alone(t) /\ frame[t].s = NoOne
  <1>1. Alone(t) /\ frame[t].s = NoOne /\ Rests(leg, ex[s], s, rec[s]) /\ UNCHANGED rec
    BY BeginAlone DEF Expire, engineVars
  <1>2. PICK pc \in {"expCancel", "expGet"} :
            Await(t, [IdleFrame EXCEPT !.s = s, !.then = "apply", !.pc = pc])
    BY DEF Expire
  <1>3. /\ pc \in SetupPcs
        /\ At([IdleFrame EXCEPT !.s = s, !.then = "apply", !.pc = pc], pc, s)
    BY PlainFrame DEF AwaitPcs, SetupPcs, Protecting, LegPcs, PassPcs
  <1>4. TypeInv
    BY TruthTypes
  <1>5. Served(t, s)
    BY <1>1, <1>2, <1>3, <1>4, AskingServed
  <1> QED
    BY <1>1, <1>5

\* The answer to the cancel of the entry is ignored,
LEMMA ResumeExpireCancelServed ==
    ASSUME TypeInv, ShieldInv, NEW t \in Tasks, ResumeExpireCancel(t)
    PROVE  Served(t, frame[t].s)
  <1> DEFINE f == frame[t]
             g == [f EXCEPT !.pc = "expGet"]
  <1>1. f.pc = "expCancel" /\ Await(t, g) /\ UNCHANGED rec
    BY DEF ResumeExpireCancel, Resume, engineVars
  <1>2. /\ f \in Frames /\ f.s \in Setups /\ rec[f.s] \in Records
        /\ Fits(leg, ex[f.s], f.s, rec[f.s], f)
    BY <1>1, AtWork DEF SetupPcs
  <1>3. Rests(leg, ex[f.s], f.s, rec[f.s])
    BY <1>1, <1>2, FitIsRest DEF LegClosers
  <1>4. Sure => f.then \in {"end", "apply"}
    BY <1>2 DEF Fits, Tracked
  <1> HIDE DEF f
  <1>5. g \in Frames /\ g.pc = "expGet" /\ g.s = f.s /\ g.then = f.then
    BY <1>2 DEF Frames, AwaitPcs
  <1> HIDE DEF g
  <1>6. Loose(Asking(g))
    BY <1>4, <1>5, AskingKeeps DEF Loose, Protecting, LegPcs, PassPcs
  <1>7. Served(t, f.s)
    BY <1>1, <1>2, <1>3, <1>5, <1>6, SameRecWritten, WaitServed DEF SetupPcs
  <1> QED
    BY <1>7 DEF f

\* and the answer to the question after it decides.
LEMMA ResumeExpireGetServed ==
    ASSUME TruthInv, ShieldInv, NEW t \in Tasks, ResumeExpireGet(t)
    PROVE  Served(t, frame[t].s)
  <1> DEFINE f == frame[t]
             b == rec[f.s].entryId \/ f.reply \notin {"error", "missing"}
             r == [rec[f.s] EXCEPT !.entryId = b]
  <1>1. TypeInv /\ f.pc = "expGet"
    BY TruthTypes DEF ResumeExpireGet, Resume
  <1>2. /\ f \in Frames /\ f.s \in Setups /\ rec[f.s] \in Records
        /\ Fits(leg, ex[f.s], f.s, rec[f.s], f)
        /\ f.amt \in Amounts
    BY <1>1, AtWork, TruthTypes DEF SetupPcs
  <1>3. Rests(leg, ex[f.s], f.s, rec[f.s])
    BY <1>1, <1>2, FitIsRest DEF LegClosers
  <1>4. Sure => f.then \in {"end", "apply"}
    BY <1>2 DEF Fits, Tracked
  <1>5. b \in BOOLEAN
    BY <1>2 DEF Records
  <1>6. r \in Records /\ Rests(leg, ex[f.s], f.s, r) /\ r.protected <= r.filled
    <2> HIDE DEF b, f
    <2> QED
      BY <1>2, <1>3, <1>5, IdRests
  <1>7. \/ ApplyEntry(t, f, r, f.reply, f.amt)
        \/ \E state \in {"ENTRY_TIMEOUT", "RECONCILIATION_REQUIRED"} :
               SetRec(f.s, [r EXCEPT !.state = state]) /\ Stop(t)
    BY DEF ResumeExpireGet, Finalize, Unverified
  <1> HIDE DEF f, b, r
  <1>8. ASSUME ApplyEntry(t, f, r, f.reply, f.amt)
        PROVE  Served(t, f.s)
    BY <1>1, <1>2, <1>4, <1>6, <1>8, ApplyEntryServed
  <1>9. ASSUME NEW state \in {"ENTRY_TIMEOUT", "RECONCILIATION_REQUIRED"},
               SetRec(f.s, [r EXCEPT !.state = state]), Stop(t)
        PROVE  Served(t, f.s)
    <2>1. Fits(leg, ex[f.s], f.s, r, IdleFrame)
      BY <1>6, IdleIsLoose, RestIsFit
    <2>2. /\ [r EXCEPT !.state = state] \in Records
          /\ Rests(leg, ex[f.s], f.s, [r EXCEPT !.state = state])
      BY <1>1, <1>2, <1>6, <2>1, IdleIsLoose, StateRests DEF States
    <2> QED
      BY <1>2, <1>9, <2>2, StopServed
  <1>10. Served(t, f.s)
    BY <1>7, <1>8, <1>9
  <1> QED
    BY <1>10 DEF f

-----------------------------------------------------------------------------
(* close_position *)

\* POSITION_CLOSED or RECONCILIATION_REQUIRED: protected no longer.
LEMMA FinishCloseServed ==
    ASSUME TypeInv, NEW t \in Tasks, NEW f, f.s \in Setups, rec[f.s] \in Records,
           NEW w, Fits(leg, ex[f.s], f.s, rec[f.s], w), w.pc # "place",
           FinishClose(t, f, rec[f.s])
    PROVE  Served(t, f.s)
  <1>1. PICK state \in {"RECONCILIATION_REQUIRED", "POSITION_CLOSED"} :
            SetRec(f.s, [rec[f.s] EXCEPT !.state = state])
    BY DEF FinishClose, Finalize
  <1>2. /\ [rec[f.s] EXCEPT !.state = state] \in Records
        /\ Rests(leg, ex[f.s], f.s, [rec[f.s] EXCEPT !.state = state])
    BY StateRests DEF States, TerminalStates
  <1>3. Stop(t)
    BY DEF FinishClose
  <1> QED
    BY <1>1, <1>2, <1>3, StopServed

\* On to the cancel of a leg.
LEMMA CloseLegServed ==
    ASSUME TypeInv, NEW t \in Tasks, NEW f \in Frames, f.s \in Setups,
           rec[f.s] \in Records, NEW w, Fits(leg, ex[f.s], f.s, rec[f.s], w),
           w.pc # "place", Sure => f.then \in {"end", "apply"},
           NEW role \in Roles, rec[f.s][role] # 0,
           Await(t, CloseLegOf(f, rec[f.s], role)), UNCHANGED rec
    PROVE  Served(t, f.s)
  <1> DEFINE r == rec[f.s]
             g == CloseLegOf(f, r, role)
  <1>1. r[role] \in 0..MaxLegs
    BY DEF Records, Roles
  <1>2. /\ g \in Frames
        /\ g.s = f.s /\ g.then = f.then
        /\ g.pc = "closeCancel" /\ g.oid = r[role]
    BY <1>1 DEF CloseLegOf, Frames, AwaitPcs
  <1> HIDE DEF g
  <1>3. Named(leg, f.s, r)
    BY DEF Fits, Shielded
  <1>4. Shielded(leg, ex[f.s], f.s, r, Asking(g))
    BY <1>2, <1>3, AskingKeeps DEF Shielded, Named, Protecting, LegClosers
  <1>5. Sure => Tracked(leg, f.s, r, Asking(g))
    BY <1>2, AskingKeeps DEF Fits, Tracked, PassPcs
  <1>6. g.pc \in SetupPcs
    BY <1>2 DEF SetupPcs
  <1>7. Await(t, g)
    BY DEF g
  <1> HIDE DEF r
  <1>8. r \in Records /\ SetRec(f.s, r)
    BY SameRecWritten DEF r
  <1> QED
    BY <1>2, <1>4, <1>5, <1>6, <1>7, <1>8, RequestServed DEF Fits

\* The wallet was read, or not.
LEMMA ResumeBalanceServed ==
    ASSUME TypeInv, ShieldInv, NEW t \in Tasks, ResumeBalance(t)
    PROVE  Served(t, frame[t].s)
  <1> DEFINE f == frame[t]
             g == [f EXCEPT !.pc = "closing", !.reply = "none"]
  <1>1. f.pc = "balance" /\ Step(t, g) /\ UNCHANGED rec
    BY DEF ResumeBalance, Resume
  <1>2. /\ f \in Frames /\ f.s \in Setups /\ rec[f.s] \in Records
        /\ Fits(leg, ex[f.s], f.s, rec[f.s], f)
    BY <1>1, AtWork DEF SetupPcs
  <1>3. Rests(leg, ex[f.s], f.s, rec[f.s])
    BY <1>1, <1>2, FitIsRest DEF LegClosers
  <1>4. Sure => f.then \in {"end", "apply"}
    BY <1>2 DEF Fits, Tracked
  <1> HIDE DEF f
  <1>5. g \in Frames /\ g.pc = "closing" /\ g.s = f.s /\ g.then = f.then
    BY <1>2 DEF Frames, LoopPcs, Replies
  <1> HIDE DEF g
  <1>6. Loose(g)
    BY <1>4, <1>5 DEF Loose, Protecting, LegPcs, PassPcs
  <1>7. Served(t, f.s)
    BY <1>1, <1>2, <1>3, <1>5, <1>6, SameRecWritten, LooseServed DEF SetupPcs
  <1> QED
    BY <1>7 DEF f

\* close_position up to its first cancel.
LEMMA StartCloseServed ==
    ASSUME TypeInv, ShieldInv, NEW t \in Tasks, StartClose(t)
    PROVE  Served(t, frame[t].s)
  <1> DEFINE f == frame[t]
             r == rec[f.s]
  <1>1. f.pc = "closing"
    BY DEF StartClose, Continue
  <1>2. /\ f \in Frames /\ f.s \in Setups /\ r \in Records
        /\ Fits(leg, ex[f.s], f.s, r, f)
    BY <1>1, AtWork DEF SetupPcs
  <1>3. Rests(leg, ex[f.s], f.s, r)
    BY <1>1, <1>2, FitIsRest DEF LegClosers
  <1>4. Sure => f.then \in {"end", "apply"}
    BY <1>2 DEF Fits, Tracked
  <1>5. \/ Stop(t) /\ UNCHANGED rec
        \/ FinishClose(t, f, r)
        \/ \E role \in Roles : /\ r[role] # 0
                               /\ Await(t, CloseLegOf(f, r, role))
                               /\ UNCHANGED rec
    <2>1. \/ Stop(t) /\ UNCHANGED rec
          \/ FinishClose(t, f, r)
          \/ /\ ~(r.sl = 0 /\ r.tp = 0)
             /\ Await(t, CloseLegOf(f, r, IF r.sl # 0 THEN "sl" ELSE "tp"))
             /\ UNCHANGED rec
      BY DEF StartClose
    <2> QED
      BY <2>1 DEF Roles
  <1> HIDE DEF f
  <1>6. ASSUME Stop(t) /\ UNCHANGED rec
        PROVE  Served(t, f.s)
    BY <1>2, <1>3, <1>6, SameRecWritten, StopServed
  <1>7. ASSUME FinishClose(t, f, r)
        PROVE  Served(t, f.s)
    BY <1>1, <1>2, <1>7, FinishCloseServed
  <1>8. ASSUME NEW role \in Roles, r[role] # 0, Await(t, CloseLegOf(f, r, role)),
               UNCHANGED rec
        PROVE  Served(t, f.s)
    BY <1>1, <1>2, <1>4, <1>8, CloseLegServed
  <1>9. Served(t, f.s)
    BY <1>5, <1>6, <1>7, <1>8
  <1> QED
    BY <1>9 DEF f

\* The answers to its cancels, and to the questions after refused ones.
LEMMA ResumeCloseServed ==
    ASSUME TypeInv, ShieldInv, NEW t \in Tasks,
           ResumeCloseCancel(t) \/ ResumeCloseVerify(t)
    PROVE  Served(t, frame[t].s)
  <1> DEFINE f == frame[t]
             r == rec[f.s]
             verify == [f EXCEPT !.pc = "closeVerify"]
             h(b) == [f EXCEPT !.bad = b]
  <1>1. f.pc \in LegClosers
    BY DEF ResumeCloseCancel, ResumeCloseVerify, Resume, LegClosers
  <1>2. /\ f \in Frames /\ f.s \in Setups /\ r \in Records
        /\ Fits(leg, ex[f.s], f.s, r, f)
        /\ Sure => f.then \in {"end", "apply"}
    BY <1>1, AtWork DEF SetupPcs, LegClosers, Fits, Tracked
  <1>3. \/ Await(t, verify) /\ UNCHANGED rec
        \/ NextClose(t, f)
        \/ \E b \in BOOLEAN : NextClose(t, h(b))
    <2>1. f.bad \in BOOLEAN
      BY <1>2 DEF Frames
    <2> QED
      BY <2>1 DEF ResumeCloseCancel, ResumeCloseVerify
  <1>4. f.pc # "place"
    BY <1>1 DEF LegClosers
  <1> HIDE DEF f
  <1>5. ASSUME Await(t, verify) /\ UNCHANGED rec
        PROVE  Served(t, f.s)
    <2>1. /\ verify \in Frames
          /\ verify.s = f.s /\ verify.then = f.then /\ verify.oid = f.oid
          /\ verify.pc = "closeVerify"
      BY <1>2 DEF Frames, AwaitPcs
    <2> HIDE DEF verify
    <2>2. Shielded(leg, ex[f.s], f.s, r, Asking(verify))
      BY <1>1, <1>2, <2>1, AskingKeeps DEF Fits, Shielded, Protecting, LegClosers, LegPcs
    <2>3. Sure => Tracked(leg, f.s, r, Asking(verify))
      BY <1>2, <1>4, <2>1, AskingKeeps DEF Fits, Tracked, PassPcs
    <2>4. verify.pc \in SetupPcs
      BY <2>1 DEF SetupPcs
    <2>5. SetRec(f.s, r)
      BY <1>2, <1>5, SameRecWritten
    <2> HIDE DEF r
    <2> QED
      BY <1>2, <1>5, <2>1, <2>2, <2>3, <2>4, <2>5, RequestServed DEF Fits
  <1>6. ASSUME NEW g \in Frames, g.s = f.s, g.then = f.then, NextClose(t, g)
        PROVE  Served(t, f.s)
    <2>1. \/ FinishClose(t, g, rec[g.s])
          \/ rec[g.s]["tp"] # 0 /\ Await(t, CloseLegOf(g, rec[g.s], "tp")) /\ UNCHANGED rec
      BY <1>6 DEF NextClose
    <2>2. CASE FinishClose(t, g, rec[g.s])
      BY <1>2, <1>4, <1>6, <2>2, FinishCloseServed
    <2>3. CASE rec[g.s]["tp"] # 0 /\ Await(t, CloseLegOf(g, rec[g.s], "tp")) /\ UNCHANGED rec
      BY <1>2, <1>4, <1>6, <2>3, CloseLegServed DEF Roles
    <2> QED
      BY <2>1, <2>2, <2>3
  <1>7. \A b \in BOOLEAN : h(b) \in Frames /\ h(b).s = f.s /\ h(b).then = f.then
    BY <1>2 DEF Frames
  <1> HIDE DEF h
  <1>8. Served(t, f.s)
    BY <1>2, <1>3, <1>5, <1>6, <1>7
  <1> QED
    BY <1>8 DEF f

-----------------------------------------------------------------------------
(* activate_kill_switch *)

\* The two frames between two records.
LEMMA LoopFrames ==
    /\ At([IdleFrame EXCEPT !.pc = "killNext"], "killNext", NoOne)
    /\ ~Sure => At([IdleFrame EXCEPT !.pc = "recNext"], "recNext", NoOne)
    /\ "killNext" \notin SetupPcs /\ "recNext" \notin SetupPcs
    /\ "recPositions" \notin SetupPcs /\ "recOrders" \notin SetupPcs
    /\ "idle" \notin SetupPcs
  BY PlainFrame DEF LoopPcs, Protecting, LegPcs, PassPcs, SetupPcs

\* A task between two records is alone and works for no setup.
LEMMA BetweenRecords ==
    ASSUME ShieldInv, NEW t \in Tasks, frame[t].pc # "idle", frame[t].pc \notin SetupPcs
    PROVE  /\ Alone(t)
           /\ frame[t].s = NoOne
           /\ \A s \in Setups : Rests(leg, ex[s], s, rec[s])
  <1>1. \A u \in Tasks : frame[u].s = NoOne
    <2> SUFFICES ASSUME NEW u \in Tasks PROVE frame[u].s = NoOne
      OBVIOUS
    <2>1. u = t \/ frame[u].pc = "idle"
      BY DEF ShieldInv, OneAtATime
    <2> QED
      BY <2>1 DEF ShieldInv, WorkNamesSetup, SetupPcs
  <1>2. Alone(t)
    BY DEF Alone, ShieldInv, OneAtATime
  <1>3. \A s \in Setups : Rests(leg, ex[s], s, rec[s])
    BY <1>1, ConstantsAssumption DEF ShieldInv, RestFits
  <1> QED
    BY <1>1, <1>2, <1>3

\* A trade is archived by the kill loop.
LEMMA KillArchiveServed ==
    ASSUME TypeInv, NEW t \in Tasks, NEW s \in Setups, rec[s] \in Records,
           NEW w, Fits(leg, ex[s], s, rec[s], w), w.pc # "place", KillArchive(t, s)
    PROVE  Served(t, s)
  <1> DEFINE r == [rec[s] EXCEPT !.state = "KILL_SWITCH_TRIGGERED"]
             next == [IdleFrame EXCEPT !.pc = "killNext"]
  <1>1. r \in Records /\ Rests(leg, ex[s], s, r)
    BY StateRests DEF States
  <1>2. SetRec(s, r) /\ (Step(t, next) \/ Stop(t))
    BY DEF KillArchive
  <1>3. At(next, "killNext", NoOne) /\ "killNext" \notin SetupPcs
    BY LoopFrames
  <1> HIDE DEF r, next
  <1> QED
    BY <1>1, <1>2, <1>3, StopServed, LooseServed DEF At

\* The head of the kill loop: the next pending trade, or the end.
LEMMA KillNextServed ==
    ASSUME TypeInv, ShieldInv, NEW t \in Tasks, KillNext(t)
    PROVE  /\ Alone(t) /\ frame[t].s = NoOne
           /\ (\E s \in Setups : Served(t, s)) \/ (Stop(t) /\ UNCHANGED rec)
  <1>1. frame[t].pc = "killNext"
    BY DEF KillNext, Continue
  <1>2. Alone(t) /\ frame[t].s = NoOne /\ \A s \in Setups : Rests(leg, ex[s], s, rec[s])
    BY <1>1, BetweenRecords, LoopFrames
  <1>3. CASE Stop(t) /\ UNCHANGED rec
    BY <1>2, <1>3
  <1>4. ASSUME NEW s \in Setups,
               \/ /\ Await(t, [IdleFrame EXCEPT !.pc = "killCancel", !.s = s])
                  /\ UNCHANGED rec
               \/ KillArchive(t, s)
        PROVE  Served(t, s)
    <2>1. rec[s] \in Records /\ Fits(leg, ex[s], s, rec[s], IdleFrame)
      BY <1>2, IdleIsLoose, RestIsFit DEF TypeInv, GoodRecords
    <2>2. /\ "killCancel" \in SetupPcs
          /\ At([IdleFrame EXCEPT !.pc = "killCancel", !.s = s], "killCancel", s)
      BY PlainFrame DEF AwaitPcs, SetupPcs, Protecting, LegPcs, PassPcs
    <2> QED
      BY <1>2, <1>4, <2>1, <2>2, IdleIsLoose, AskingServed, KillArchiveServed
  <1> QED
    BY <1>2, <1>3, <1>4 DEF KillNext

\* The answers the kill loop waits for.
LEMMA ResumeKillServed ==
    ASSUME TypeInv, ShieldInv, NEW t \in Tasks,
           ResumeKillCancel(t) \/ ResumeKillVerify(t)
    PROVE  Served(t, frame[t].s)
  <1> DEFINE f == frame[t]
             r == rec[f.s]
             ask == [f EXCEPT !.pc = "killVerify"]
             q == [r EXCEPT !.state = "RECONCILIATION_REQUIRED"]
             next == [IdleFrame EXCEPT !.pc = "killNext"]
  <1>1. f.pc \in {"killCancel", "killVerify"}
    BY DEF ResumeKillCancel, ResumeKillVerify, Resume
  <1>2. /\ f \in Frames /\ f.s \in Setups /\ r \in Records
        /\ Fits(leg, ex[f.s], f.s, r, f)
    BY <1>1, AtWork DEF SetupPcs
  <1>3. Rests(leg, ex[f.s], f.s, r) /\ f.pc # "place"
    BY <1>1, <1>2, FitIsRest DEF LegClosers
  <1>4. Sure => f.then \in {"end", "apply"}
    BY <1>2 DEF Fits, Tracked
  <1>5. \/ Await(t, ask) /\ UNCHANGED rec
        \/ KillArchive(t, f.s)
        \/ SetRec(f.s, q) /\ Step(t, next)
    BY DEF ResumeKillCancel, ResumeKillVerify
  <1> HIDE DEF f
  <1>6. ASSUME Await(t, ask) /\ UNCHANGED rec
        PROVE  Served(t, f.s)
    <2>1. ask \in Frames /\ ask.pc = "killVerify" /\ ask.s = f.s /\ ask.then = f.then
      BY <1>2 DEF Frames, AwaitPcs
    <2> HIDE DEF ask
    <2>2. Loose(Asking(ask))
      BY <1>4, <2>1, AskingKeeps DEF Loose, Protecting, LegPcs, PassPcs
    <2> QED
      BY <1>2, <1>3, <1>6, <2>1, <2>2, SameRecWritten, WaitServed DEF SetupPcs
  <1>7. ASSUME KillArchive(t, f.s)
        PROVE  Served(t, f.s)
    BY <1>2, <1>3, <1>7, KillArchiveServed
  <1>8. ASSUME SetRec(f.s, q) /\ Step(t, next)
        PROVE  Served(t, f.s)
    <2>1. q \in Records /\ Rests(leg, ex[f.s], f.s, q)
      BY <1>2, <1>3, StateRests DEF States
    <2>2. At(next, "killNext", NoOne) /\ "killNext" \notin SetupPcs
      BY LoopFrames
    <2> HIDE DEF q, next
    <2> QED
      BY <1>2, <1>8, <2>1, <2>2, LooseServed DEF At
  <1> HIDE DEF ask, q, next
  <1>9. Served(t, f.s)
    BY <1>5, <1>6, <1>7, <1>8
  <1> QED
    BY <1>9 DEF f

-----------------------------------------------------------------------------
(* reconcile_active_trades_with_exchange *)

\* A call in a pass is made by a task that reconciles.
LEMMA PassIsNotSure ==
    ASSUME ShieldInv, NEW t \in Tasks,
           \/ Reconcile(t)
           \/ frame[t].pc \in PassPcs
           \/ frame[t].then \in {"recCheck", "recDone"}
    PROVE  ~Sure
  <1>1. CASE Reconcile(t)
    BY <1>1 DEF Reconcile, Begin, Sure
  <1>2. CASE frame[t].pc \in PassPcs \/ frame[t].then \in {"recCheck", "recDone"}
    BY <1>2 DEF ShieldInv, CallsOnDuty
  <1> QED
    BY <1>1, <1>2

\* The pass between two records; its snapshot.
LEMMA ResumeSnapshotIdling ==
    ASSUME ShieldInv, NEW t \in Tasks, ResumeSnapshot(t)
    PROVE  /\ Alone(t) /\ frame[t].s = NoOne /\ UNCHANGED rec /\ ~Sure
           /\ \E g \in Frames : Step(t, g) /\ g.s = NoOne /\ g.pc \notin SetupPcs
  <1>1. frame[t].pc \in {"recPositions", "recOrders"} /\ UNCHANGED rec
    BY DEF ResumeSnapshot, Resume
  <1>2. Alone(t) /\ frame[t].s = NoOne /\ ~Sure
    BY <1>1, BetweenRecords, LoopFrames, PassIsNotSure DEF PassPcs
  <1> DEFINE ask == [IdleFrame EXCEPT !.pc = "recOrders"]
             next == [IdleFrame EXCEPT !.pc = "recNext"]
  <1>3. At(ask, "recOrders", NoOne) /\ At(next, "recNext", NoOne)
    BY <1>2, PlainFrame DEF LoopPcs, AwaitPcs, Protecting, LegPcs, PassPcs
  <1>4. Stop(t) \/ Step(t, next) \/ Step(t, Asking(ask))
    BY DEF ResumeSnapshot, Await, Asking
  <1> HIDE DEF ask, next
  <1>5. /\ Asking(ask) \in Frames /\ Asking(ask).s = NoOne /\ Asking(ask).pc \notin SetupPcs
        /\ next \in Frames /\ next.s = NoOne /\ next.pc \notin SetupPcs
        /\ IdleFrame \in Frames /\ IdleFrame.s = NoOne /\ IdleFrame.pc \notin SetupPcs
    BY <1>3, AskingKeeps, LoopFrames, IdleIsLoose DEF At
  <1> QED
    BY <1>1, <1>2, <1>4, <1>5 DEF Stop

\* Its next record.
LEMMA VisitRecordServed ==
    ASSUME TypeInv, ShieldInv, NEW t \in Tasks, VisitRecord(t)
    PROVE  /\ Alone(t) /\ frame[t].s = NoOne
           /\ (\E s \in Setups : Served(t, s)) \/ UNCHANGED <<rec, frame>>
  <1>1. frame[t].pc = "recNext" /\ UNCHANGED rec
    BY DEF VisitRecord, Continue, engineVars
  <1>2. /\ Alone(t) /\ frame[t].s = NoOne /\ ~Sure
        /\ \A s \in Setups : Rests(leg, ex[s], s, rec[s])
    BY <1>1, BetweenRecords, LoopFrames, PassIsNotSure DEF PassPcs
  <1>3. PICK s \in survey.todo :
            \/ UNCHANGED frame
            \/ Await(t, [IdleFrame EXCEPT !.pc = "recGet", !.s = s, !.then = "recCheck"])
            \/ Step(t, [IdleFrame EXCEPT !.pc = "recCheck", !.s = s])
    BY DEF VisitRecord
  <1>4. s \in Setups /\ rec[s] \in Records /\ SetRec(s, rec[s])
    BY <1>1, SameRecWritten DEF TypeInv, Surveys, GoodRecords
  <1> DEFINE get == [IdleFrame EXCEPT !.pc = "recGet", !.s = s, !.then = "recCheck"]
             check == [IdleFrame EXCEPT !.pc = "recCheck", !.s = s]
  <1>5. CASE UNCHANGED frame
    BY <1>1, <1>2, <1>5
  <1>6. CASE Await(t, get)
    <2>1. get \in Frames /\ get.pc = "recGet" /\ get.s = s
      BY <1>4, IdleIsLoose DEF Frames, AwaitPcs
    <2> HIDE DEF get
    <2>2. Loose(Asking(get)) /\ get.pc \in SetupPcs
      BY <1>2, <2>1, AskingKeeps DEF Loose, Protecting, LegPcs, SetupPcs
    <2>3. Served(t, s)
      BY <1>2, <1>4, <1>6, <2>1, <2>2, WaitServed
    <2> QED
      BY <1>2, <1>4, <2>3
  <1>7. CASE Step(t, check)
    <2>1. At(check, "recCheck", s)
      BY <1>2, <1>4, PlainFrame DEF LoopPcs, Protecting, LegPcs, PassPcs
    <2> HIDE DEF check
    <2>2. Served(t, s)
      BY <1>2, <1>4, <1>7, <2>1, LooseServed DEF At, SetupPcs
    <2> QED
      BY <1>2, <1>4, <2>2
  <1> QED
    BY <1>3, <1>5, <1>6, <1>7

\* The answer to its refresh of a resting entry.
LEMMA ResumeRefreshServed ==
    ASSUME TruthInv, ShieldInv, NEW t \in Tasks, ResumeRefresh(t)
    PROVE  Served(t, frame[t].s)
  <1> DEFINE f == frame[t]
             r == [rec[f.s] EXCEPT !.entryId = TRUE]
             next == [IdleFrame EXCEPT !.pc = "recNext"]
  <1>1. TypeInv /\ f.pc = "recGet" /\ ~Sure
    BY TruthTypes, PassIsNotSure DEF ResumeRefresh, Resume, PassPcs
  <1>2. /\ f \in Frames /\ f.s \in Setups /\ rec[f.s] \in Records
        /\ Fits(leg, ex[f.s], f.s, rec[f.s], f)
        /\ f.amt \in Amounts
    BY <1>1, AtWork, TruthTypes DEF SetupPcs
  <1>3. Rests(leg, ex[f.s], f.s, rec[f.s])
    BY <1>1, <1>2, FitIsRest DEF LegClosers
  <1>4. r \in Records /\ Rests(leg, ex[f.s], f.s, r) /\ r.protected <= r.filled
    BY <1>2, <1>3, IdRests
  <1>5. \/ Step(t, next) /\ UNCHANGED rec
        \/ ApplyEntry(t, f, r, f.reply, f.amt)
    BY DEF ResumeRefresh
  <1>6. At(next, "recNext", NoOne) /\ "recNext" \notin SetupPcs
    BY <1>1, LoopFrames
  <1> HIDE DEF f, r, next
  <1>7. ASSUME Step(t, next) /\ UNCHANGED rec
        PROVE  Served(t, f.s)
    BY <1>1, <1>2, <1>3, <1>6, <1>7, SameRecWritten, LooseServed DEF At
  <1>8. ASSUME ApplyEntry(t, f, r, f.reply, f.amt)
        PROVE  Served(t, f.s)
    BY <1>1, <1>2, <1>4, <1>8, ApplyEntryServed
  <1>9. Served(t, f.s)
    BY <1>5, <1>7, <1>8
  <1> QED
    BY <1>9 DEF f

\* Forgetting ids that are not in the snapshot leaves those that are.
LEMMA ForgetIsNamed ==
    ASSUME TypeInv, NEW L, NEW s, NEW r \in Records, Named(L, s, r), NEW size \in Amounts
    PROVE  ForgetDeadLegs(r, size) \in Records /\ Named(L, s, ForgetDeadLegs(r, size))
  <1> DEFINE q == ForgetDeadLegs(r, size)
             known == Larger(r.filled, size)
             sl == IF r.sl \in survey.legs THEN r.sl ELSE 0
             tp == IF r.tp \in survey.legs THEN r.tp ELSE 0
             guarded == IF sl = 0 /\ tp = 0 THEN 0 ELSE r.protected
  <1>1. known \in Amounts /\ guarded \in Amounts
    BY LargerBound, Bounds DEF Records
  <1>2. sl \in 0..MaxLegs /\ tp \in 0..MaxLegs /\ sl \in {0, r.sl} /\ tp \in {0, r.tp}
    BY Bounds DEF Records
  <1>3. q = [r EXCEPT !.sl = sl, !.tp = tp, !.filled = known, !.protected = guarded]
    BY DEF ForgetDeadLegs
  <1> HIDE DEF q, known, sl, tp, guarded
  <1>4. q \in Records /\ q.sl = sl /\ q.tp = tp
    BY <1>1, <1>2, <1>3 DEF Records
  <1>5. Named(L, s, q)
    BY <1>2, <1>4 DEF Named, Roles
  <1> QED
    BY <1>4, <1>5 DEF q

\* The check of a record against the snapshot.
LEMMA CheckRecordServed ==
    ASSUME TypeInv, ShieldInv, NEW t \in Tasks, CheckRecord(t)
    PROVE  Served(t, frame[t].s)
  <1> DEFINE f == frame[t]
             r == rec[f.s]
             size == survey.pos[f.s]
             next == [IdleFrame EXCEPT !.pc = "recNext"]
             g == [IdleFrame EXCEPT !.s = f.s, !.then = "recDone"]
             lost == [r EXCEPT !.state = "RECONCILIATION_REQUIRED"]
             left == ForgetDeadLegs(r, size)
  <1>1. f.pc = "recCheck"
    BY DEF CheckRecord, Continue
  <1>2. /\ f \in Frames /\ f.s \in Setups /\ r \in Records
        /\ Fits(leg, ex[f.s], f.s, r, f)
        /\ ~Sure
    BY <1>1, AtWork, PassIsNotSure DEF SetupPcs, PassPcs
  <1>3. Rests(leg, ex[f.s], f.s, r)
    BY <1>1, <1>2, FitIsRest DEF LegClosers
  <1>4. size \in Amounts /\ size \in Nat
    BY <1>2, Bounds DEF TypeInv, Surveys
  <1>5. \/ Step(t, next) /\ UNCHANGED rec
        \/ SetRec(f.s, lost) /\ Step(t, next)
        \/ size # 0 /\ BeginProtection(t, g, left, size)
    BY DEF CheckRecord
  <1>6. At(next, "recNext", NoOne) /\ "recNext" \notin SetupPcs
    BY <1>2, LoopFrames
  <1> HIDE DEF f, next, size
  <1>7. ASSUME Step(t, next) /\ UNCHANGED rec
        PROVE  Served(t, f.s)
    BY <1>2, <1>3, <1>6, <1>7, SameRecWritten, LooseServed DEF At
  <1>8. ASSUME SetRec(f.s, lost) /\ Step(t, next)
        PROVE  Served(t, f.s)
    <2>1. lost \in Records /\ Rests(leg, ex[f.s], f.s, lost)
      BY <1>1, <1>2, StateRests DEF States
    <2> HIDE DEF lost
    <2> QED
      BY <1>2, <1>6, <1>8, <2>1, LooseServed DEF At
  <1>9. ASSUME size # 0 /\ BeginProtection(t, g, left, size)
        PROVE  Served(t, f.s)
    <2>1. Named(leg, f.s, r)
      BY <1>3 DEF Rests
    <2>2. left \in Records /\ Named(leg, f.s, left)
      BY <1>2, <1>4, <2>1, ForgetIsNamed
    <2>3. g \in Frames /\ g.s = f.s
      BY <1>2, IdleIsLoose DEF Frames
    <2>4. size > 0
      BY <1>4, <1>9
    <2> HIDE DEF left, g, r
    <2>5. Served(t, g.s)
      BY <1>2, <1>4, <1>9, <2>2, <2>3, <2>4, BeginProtectionServed
    <2> QED
      BY <2>3, <2>5
  <1> HIDE DEF lost, left, g
  <1>10. Served(t, f.s)
    BY <1>5, <1>7, <1>8, <1>9
  <1> QED
    BY <1>10 DEF f

\* The verdict on a record whose protection was restored, or not.
LEMMA RecordDoneServed ==
    ASSUME TypeInv, ShieldInv, NEW t \in Tasks, RecordDone(t)
    PROVE  Served(t, frame[t].s)
  <1> DEFINE f == frame[t]
             next == [IdleFrame EXCEPT !.pc = "recNext"]
  <1>1. f.pc = "recDone" /\ Step(t, next) /\ UNCHANGED rec
    BY DEF RecordDone, Continue
  <1>2. /\ f \in Frames /\ f.s \in Setups /\ rec[f.s] \in Records
        /\ Fits(leg, ex[f.s], f.s, rec[f.s], f)
        /\ ~Sure
    BY <1>1, AtWork, PassIsNotSure DEF SetupPcs, PassPcs
  <1>3. Rests(leg, ex[f.s], f.s, rec[f.s])
    BY <1>1, <1>2, FitIsRest DEF LegClosers
  <1>4. At(next, "recNext", NoOne) /\ "recNext" \notin SetupPcs
    BY <1>2, LoopFrames
  <1> HIDE DEF f, next
  <1>5. Served(t, f.s)
    BY <1>1, <1>2, <1>3, <1>4, SameRecWritten, LooseServed DEF At
  <1> QED
    BY <1>5 DEF f

-----------------------------------------------------------------------------
(* Every step of the manager *)

\* A call that works for no setup, before the step or after it.
LEMMA IdleCallsKept ==
    ASSUME TypeInv, ShieldInv, NEW t \in Tasks, Alone(t), frame[t].s = NoOne,
           UNCHANGED <<rec, exchangeVars>>, NEW pc, At([IdleFrame EXCEPT !.pc = pc], pc, NoOne),
           pc \notin SetupPcs,
           \/ Step(t, [IdleFrame EXCEPT !.pc = pc])
           \/ Await(t, [IdleFrame EXCEPT !.pc = pc])
           \/ Stop(t)
    PROVE  ShieldInv'
  <1> DEFINE g == [IdleFrame EXCEPT !.pc = pc]
  <1>1. Step(t, g) \/ Step(t, Asking(g)) \/ Step(t, IdleFrame)
    BY DEF Await, Asking, Stop
  <1>2. At(g, pc, NoOne)
    OBVIOUS
  <1> HIDE DEF g
  <1>3. /\ g \in Frames /\ g.s = NoOne /\ g.pc = pc /\ Loose(g)
        /\ Asking(g) \in Frames /\ Asking(g).s = NoOne /\ Asking(g).pc = pc
        /\ Loose(Asking(g))
    BY <1>2, AskingKeeps DEF At
  <1>4. /\ IdleFrame \in Frames /\ IdleFrame.s = NoOne
        /\ IdleFrame.pc \notin SetupPcs /\ Loose(IdleFrame)
    BY IdleIsLoose DEF SetupPcs
  <1>5. CASE Step(t, g)
    BY <1>3, <1>5, IdlingKept DEF Loose
  <1>6. CASE Step(t, Asking(g))
    BY <1>3, <1>6, IdlingKept DEF Loose
  <1>7. CASE Step(t, IdleFrame)
    BY <1>4, <1>7, IdlingKept DEF Loose
  <1> QED
    BY <1>1, <1>5, <1>6, <1>7

\* A call begins.
LEMMA CallsShielded ==
    ASSUME ~Overlap, TruthInv, TypeInv', ShieldInv, NEW t \in Tasks, Calls(t)
    PROVE  ShieldInv'
  <1>1. TypeInv
    BY TruthTypes
  <1>2. UNCHANGED exchangeVars
    BY DEF Calls, RefuseSetup, RefuseAtGateway, Submit, OrderEvent, FillEvent,
           OrphanPositionEvent, ClosureEvent, Expire, StreamIntegrityLost, Reconcile,
           KillSwitch, ResetKillSwitch, ClearAlerts, BlockOnMutex
  <1>3. ASSUME NEW s \in Setups,
               \/ RefuseAtGateway(t, s) \/ Submit(t, s) \/ OrderEvent(t, s)
               \/ FillEvent(t, s) \/ ClosureEvent(t, s) \/ Expire(t, s)
        PROVE  ShieldInv'
    <2>1. Served(t, s) /\ Alone(t) /\ frame[t].s = NoOne
      BY <1>3, AdmissionServed, StreamServed, ClosureEventServed, ExpireServed
    <2> QED
      BY <1>1, <1>2, <2>1, ServedKept
  <1>4. ASSUME \/ \E s \in Setups : RefuseSetup(t, s) \/ OrphanPositionEvent(t, s)
               \/ StreamIntegrityLost(t) \/ ResetKillSwitch(t) \/ ClearAlerts(t)
               \/ BlockOnMutex(t)
        PROVE  ShieldInv'
    BY <1>2, <1>4, NothingKept
       DEF RefuseSetup, OrphanPositionEvent, StreamIntegrityLost, ResetKillSwitch,
           ClearAlerts, BlockOnMutex
  <1>5. CASE KillSwitch(t)
    <2>1. /\ Step(t, [IdleFrame EXCEPT !.pc = "killNext"]) /\ UNCHANGED rec
          /\ Alone(t) /\ frame[t].s = NoOne
      BY <1>5, BeginAlone DEF KillSwitch
    <2> QED
      BY <1>1, <1>2, <2>1, LoopFrames, IdleCallsKept
  <1>6. CASE Reconcile(t)
    <2>1. /\ Await(t, [IdleFrame EXCEPT !.pc = "recPositions"]) /\ UNCHANGED rec
          /\ Alone(t) /\ frame[t].s = NoOne
      BY <1>6, BeginAlone DEF Reconcile, engineVars
    <2>2. At([IdleFrame EXCEPT !.pc = "recPositions"], "recPositions", NoOne)
      BY <1>6, PassIsNotSure, PlainFrame DEF AwaitPcs, Protecting, LegPcs
    <2> QED
      BY <1>1, <1>2, <2>1, <2>2, LoopFrames, IdleCallsKept
  <1> QED
    BY <1>3, <1>4, <1>5, <1>6 DEF Calls

\* A call goes on.
LEMMA ProceedsShielded ==
    ASSUME TruthInv, TypeInv', ShieldInv, NEW t \in Tasks, Proceeds(t)
    PROVE  ShieldInv'
  <1>1. TypeInv
    BY TruthTypes
  <1>2. UNCHANGED exchangeVars
    BY DEF Proceeds, ResumePost, ResumeCancel, ResumeVerify, ResumeEcho,
           ResumeOpenOrders, ResumePlace, ResumeBalance, StartClose,
           ResumeCloseCancel, ResumeCloseVerify, ResumeExpireCancel,
           ResumeExpireGet, KillNext, ResumeKillCancel, ResumeKillVerify,
           ResumeSnapshot, FinishReconcile, VisitRecord, ResumeRefresh, CheckRecord,
           RecordDone
  <1>3. ASSUME frame[t].pc \in SetupPcs, Served(t, frame[t].s)
        PROVE  ShieldInv'
    BY <1>1, <1>2, <1>3, AtWork, ServedKept
  <1>4. CASE \/ ResumePost(t) \/ ResumeCancel(t) \/ ResumeVerify(t) \/ ResumeEcho(t)
             \/ ResumeOpenOrders(t) \/ ResumePlace(t)
    <2>1. frame[t].pc \in SetupPcs
      BY <1>4 DEF ResumePost, ResumeCancel, ResumeVerify, ResumeEcho,
                  ResumeOpenOrders, ResumePlace, Resume, SetupPcs
    <2> QED
      BY <1>1, <1>3, <1>4, <2>1, ResumePostServed, ResumeCancelServed,
         ResumeVerifyServed, ResumeEchoServed, ResumeOpenOrdersServed,
         ResumePlaceServed
  <1>5. CASE \/ ResumeBalance(t) \/ StartClose(t) \/ ResumeCloseCancel(t)
             \/ ResumeCloseVerify(t) \/ ResumeExpireCancel(t) \/ ResumeExpireGet(t)
    <2>1. frame[t].pc \in SetupPcs
      BY <1>5 DEF ResumeBalance, StartClose, ResumeCloseCancel, ResumeCloseVerify,
                  ResumeExpireCancel, ResumeExpireGet, Resume, Continue, SetupPcs
    <2> QED
      BY <1>1, <1>3, <1>5, <2>1, ResumeBalanceServed, StartCloseServed,
         ResumeCloseServed, ResumeExpireCancelServed, ResumeExpireGetServed
  <1>6. CASE \/ ResumeKillCancel(t) \/ ResumeKillVerify(t) \/ ResumeRefresh(t)
             \/ CheckRecord(t) \/ RecordDone(t)
    <2>1. frame[t].pc \in SetupPcs
      BY <1>6 DEF ResumeKillCancel, ResumeKillVerify, ResumeRefresh, CheckRecord,
                  RecordDone, Resume, Continue, SetupPcs
    <2> QED
      BY <1>1, <1>3, <1>6, <2>1, ResumeKillServed, ResumeRefreshServed,
         CheckRecordServed, RecordDoneServed
  <1>7. CASE KillNext(t)
    <2>1. /\ Alone(t) /\ frame[t].s = NoOne
          /\ (\E s \in Setups : Served(t, s)) \/ (Stop(t) /\ UNCHANGED rec)
      BY <1>1, <1>7, KillNextServed
    <2> QED
      BY <1>1, <1>2, <2>1, ServedKept, LoopFrames, IdleCallsKept
  <1>8. CASE VisitRecord(t)
    <2>1. /\ Alone(t) /\ frame[t].s = NoOne
          /\ (\E s \in Setups : Served(t, s)) \/ UNCHANGED <<rec, frame>>
      BY <1>1, <1>8, VisitRecordServed
    <2> QED
      BY <1>1, <1>2, <2>1, ServedKept, NothingKept
  <1>9. CASE ResumeSnapshot(t)
    <2>1. /\ Alone(t) /\ frame[t].s = NoOne /\ UNCHANGED rec /\ ~Sure
          /\ \E g \in Frames : Step(t, g) /\ g.s = NoOne /\ g.pc \notin SetupPcs
      BY <1>9, ResumeSnapshotIdling
    <2> QED
      BY <1>1, <1>2, <2>1, IdlingKept
  <1>10. CASE FinishReconcile(t)
    <2>1. frame[t].pc = "recNext" /\ Stop(t) /\ UNCHANGED rec
      BY <1>10 DEF FinishReconcile, Continue
    <2>2. Alone(t) /\ frame[t].s = NoOne
      BY <2>1, BetweenRecords, LoopFrames
    <2> QED
      BY <1>1, <1>2, <2>1, <2>2, LoopFrames, IdleCallsKept
  <1> QED
    BY <1>4, <1>5, <1>6, <1>7, <1>8, <1>9, <1>10 DEF Proceeds

-----------------------------------------------------------------------------
(* What the exchange does to the orders under a pair *)

\* From orders L and entry o to M and p, as far as setup s can tell: an order
\* changes but in its state, is not revived, is cancelled only when s no longer
\* holds all it got, and none of the engine's appears.
Known(L, i) == i \in LegIds /\ L[i].st # "free"

Keeps(L, M, o, p, s) ==
    /\ \A i \in LegIds : Known(L, i) =>
         /\ M[i].s = L[i].s /\ M[i].role = L[i].role
         /\ M[i].size = L[i].size /\ M[i].maker = L[i].maker
         /\ M[i].st = "open" => L[i].st = "open"
         /\ L[i].s = s /\ M[i].st = "cancelled" =>
                L[i].st = "cancelled" \/ p.pos < p.got \/ p.got = 0
    /\ o.pos < o.got => p.pos < p.got
    /\ \A i \in LegIds : ~Known(L, i) => ~EngineLeg(M, i, s)

\* An order that stands goes on standing for a size that has been filled.
LEMMA StandsKept ==
    ASSUME NEW L, NEW M, NEW o, NEW p, NEW s, NEW i, Known(L, i),
           Keeps(L, M, o, p, s), p.got \in Nat, NEW size \in Nat, 0 < size,
           size <= p.got, Stands(L, o, i, s, size)
    PROVE  Stands(M, p, i, s, size)
  BY DEF Known, Keeps, Stands

\* A pair that fits goes on fitting.
LEMMA FitsKept ==
    ASSUME NEW L, NEW M, NEW o, NEW p, NEW s, NEW r \in Records, NEW f \in Frames,
           Keeps(L, M, o, p, s), Fits(L, o, s, r, f),
           \A role \in Roles : r[role] # 0 => Known(L, r[role]),
           f.pc \in LegPcs \/ (f.pc = "place" /\ f.reply = "ok") => Known(L, f.oid),
           \A i \in f.seen : Known(L, i),
           p.got \in Nat, r.protected <= p.got, f.goal <= p.got
    PROVE  Fits(M, p, s, r, f)
  <1>1. r.protected \in Nat /\ f.goal \in Nat
    BY Bounds DEF Records, Frames
  <1>2. Shielded(L, o, s, r, f)
    BY DEF Fits
  <1>3. \A i \in LegIds : Known(L, i) => M[i].s = L[i].s /\ M[i].role = L[i].role
    BY DEF Keeps
  <1>4. Named(M, s, r)
    BY <1>2, <1>3 DEF Shielded, Named, Known
  <1>5. Real(L, o, s, r) => Real(M, p, s, r)
    BY <1>1, StandsKept DEF Real
  <1>6. ASSUME f.pc \in Protecting, NEW i, Known(L, i), Stands(L, o, i, s, f.goal)
        PROVE  Stands(M, p, i, s, f.goal)
    BY <1>1, <1>2, <1>6, StandsKept DEF Shielded
  <1>7. f.pc \in LegPcs => M[f.oid].s = s
    BY <1>2, <1>3 DEF Shielded, Known
  <1>8. f.pc = "openOrders" => \A i \in f.seen : Stands(M, p, i, s, f.goal)
    BY <1>2, <1>6 DEF Shielded, Protecting
  <1>9. f.pc = "place" /\ f.role = "tp" => r.sl # 0 /\ Stands(M, p, r.sl, s, f.goal)
    <2> SUFFICES ASSUME f.pc = "place" /\ f.role = "tp"
                 PROVE  r.sl # 0 /\ Stands(M, p, r.sl, s, f.goal)
      OBVIOUS
    <2>1. r.sl # 0 /\ Stands(L, o, r.sl, s, f.goal)
      BY <1>2 DEF Shielded
    <2>2. Known(L, r.sl)
      BY <2>1 DEF Roles
    <2> QED
      BY <1>6, <2>1, <2>2 DEF Protecting
  <1>10. f.pc = "place" /\ f.reply = "ok" =>
             Stands(M, p, f.oid, s, f.goal) /\ M[f.oid].role = f.role
    <2> SUFFICES ASSUME f.pc = "place" /\ f.reply = "ok"
                 PROVE  Stands(M, p, f.oid, s, f.goal) /\ M[f.oid].role = f.role
      OBVIOUS
    <2>1. /\ Known(L, f.oid)
          /\ Stands(L, o, f.oid, s, f.goal) /\ L[f.oid].role = f.role
      BY <1>2 DEF Shielded
    <2> QED
      BY <1>3, <1>6, <2>1 DEF Protecting, Known
  <1>11. Shielded(M, p, s, r, f)
    BY <1>2, <1>4, <1>5, <1>7, <1>8, <1>9, <1>10 DEF Shielded
  <1>12. Sure => Tracked(M, s, r, f)
    <2> SUFFICES ASSUME Sure PROVE Tracked(M, s, r, f)
      OBVIOUS
    <2>1. Tracked(L, s, r, f)
      BY DEF Fits
    <2>2. \A i \in LegIds : Known(L, i) => (M[i].st = "open" => L[i].st = "open")
      BY DEF Keeps
    <2>3. f.pc \in {"cancel", "verify"} => Known(L, f.oid)
      BY DEF LegPcs
    <2>4. f.pc = "cancel" /\ f.reply = "ok" => M[f.oid].st # "open"
      BY <2>1, <2>2, <2>3 DEF Tracked, Known
    <2>5. f.pc = "verify" /\ f.reply = "cancelled" => M[f.oid].st # "open"
      BY <2>1, <2>2, <2>3 DEF Tracked, Known
    <2>6. \A i \in LegIds : EngineLeg(M, i, s) =>
              EngineLeg(L, i, s) /\ M[i].role = L[i].role
      BY DEF Keeps, EngineLeg
    <2>7. \A i \in LegIds : EngineLeg(M, i, s) =>
             \/ i = r[M[i].role]
             \/ f.pc = "place" /\ f.reply = "ok" /\ f.oid = i
      BY <2>1, <2>6 DEF Tracked
    <2> QED
      BY <2>1, <2>4, <2>5, <2>7 DEF Tracked
  <1> QED
    BY <1>11, <1>12 DEF Fits

\* The ids of records and frames are known, and what they claim is filled.
LEMMA ClaimsAreKnown ==
    ASSUME TruthInv, TruthInv', UNCHANGED rec, NEW s \in Setups
    PROVE  /\ rec[s] \in Records
           /\ \A role \in Roles : rec[s][role] # 0 => Known(leg, rec[s][role])
           /\ ex'[s].got \in Nat /\ rec[s].protected <= ex'[s].got
           /\ rec[s].filled <= ex'[s].got /\ rec[s].filled \in Nat
  <1>1. rec[s] \in GoodRecords
    BY TruthTypes DEF TypeInv
  <1>2. TypeInv'
    BY DEF TruthInv, LockInv
  <1>3. ex'[s].got \in Nat
    BY <1>2, Bounds DEF TypeInv, GoodOrders, Orders
  <1>4. rec[s].filled <= ex'[s].got /\ rec[s].protected <= rec[s].filled
    BY DEF TruthInv, RecordsTrue, TrueRecord
  <1>5. rec[s].protected \in Nat /\ rec[s].filled \in Nat
    BY TruthTypes
  <1> QED
    BY <1>1, <1>3, <1>4, <1>5 DEF GoodRecords, Placed, Known, Roles

\* A record at rest goes on resting.
LEMMA RestsUnder ==
    ASSUME TruthInv, TruthInv', UNCHANGED rec, NEW s \in Setups,
           Keeps(leg, leg', ex[s], ex'[s], s), Rests(leg, ex[s], s, rec[s])
    PROVE  Rests(leg', ex'[s], s, rec[s])
  <1>1. /\ IdleFrame \in Frames /\ IdleFrame.pc = "idle" /\ Loose(IdleFrame)
        /\ IdleFrame.seen = {} /\ IdleFrame.goal = 0
    BY IdleIsLoose DEF IdleFrame
  <1>2. Fits(leg, ex[s], s, rec[s], IdleFrame)
    BY <1>1, RestIsFit
  <1>3. Fits(leg', ex'[s], s, rec[s], IdleFrame)
    BY <1>1, <1>2, ClaimsAreKnown, FitsKept DEF LegPcs
  <1> QED
    BY <1>1, <1>3, FitIsRest DEF LegClosers

\* A pair goes on fitting.
LEMMA FitsUnder ==
    ASSUME TruthInv, TruthInv', UNCHANGED rec, NEW t \in Tasks, frame[t].s \in Setups,
           NEW s, s = frame[t].s,
           Keeps(leg, leg', ex[s], ex'[s], s), Fits(leg, ex[s], s, rec[s], frame[t])
    PROVE  Fits(leg', ex'[s], s, rec[s], frame[t])
  <1>1. frame[t] \in GoodFrames /\ frame[t] \in Frames
    BY TruthTypes DEF TypeInv, GoodFrames
  <1>2. /\ \A i \in frame[t].seen : Known(leg, i)
        /\ frame[t].pc \in LegPcs \/ (frame[t].pc = "place" /\ frame[t].reply = "ok") =>
               Known(leg, frame[t].oid)
    BY <1>1 DEF GoodFrames, Placed, Known
  <1>3. frame[t].goal <= rec[s].filled /\ frame[t].goal \in Nat
    BY TruthTypes DEF TruthInv, FramesTrue, TrueFrame
  <1>4. frame[t].goal <= ex'[s].got
    BY <1>3, ClaimsAreKnown
  <1> QED
    BY <1>1, <1>2, <1>4, ClaimsAreKnown, FitsKept

\* The exchange moves and no call is told.
LEMMA MovesKept ==
    ASSUME TruthInv, TruthInv', ShieldInv, UNCHANGED <<rec, frame>>,
           \A s \in Setups : Keeps(leg, leg', ex[s], ex'[s], s), IdsAscend'
    PROVE  ShieldInv'
  <1>1. OneAtATime' /\ WorkNamesSetup' /\ CallsOnDuty'
    BY DEF ShieldInv, OneAtATime, WorkNamesSetup, CallsOnDuty, Sure
  <1>2. WorkFits'
    <2> SUFFICES ASSUME NEW t \in Tasks, NEW s \in Setups, frame[t].s = s
                 PROVE  Fits(leg', ex'[s], s, rec[s], frame[t])
      BY DEF WorkFits
    <2>1. Fits(leg, ex[s], s, rec[s], frame[t])
      BY DEF ShieldInv, WorkFits
    <2> QED
      BY <2>1, FitsUnder
  <1>3. RestFits'
    <2> SUFFICES ASSUME NEW s \in Setups, \A t \in Tasks : frame[t].s # s
                 PROVE  Rests(leg', ex'[s], s, rec[s])
      BY DEF RestFits
    <2> QED
      BY RestsUnder DEF ShieldInv, RestFits
  <1> QED
    BY <1>1, <1>2, <1>3 DEF ShieldInv

\* The exchange answers the one call there is.
LEMMA AnswerKept ==
    ASSUME TypeInv, ShieldInv, NEW t \in Tasks, frame[t].pc # "idle", NEW g,
           frame' = [frame EXCEPT ![t] = g],
           g.pc = frame[t].pc, g.s = frame[t].s, g.then = frame[t].then,
           UNCHANGED rec, IdsAscend',
           \A s \in Setups : frame[t].s = s => Fits(leg', ex'[s], s, rec[s], g),
           \A s \in Setups : frame[t].s # s /\ Rests(leg, ex[s], s, rec[s]) =>
               Rests(leg', ex'[s], s, rec[s])
    PROVE  ShieldInv'
  <1>1. frame'[t] = g /\ \A u \in Tasks \ {t} : frame'[u] = frame[u]
    BY DEF TypeInv
  <1>2. \A u \in Tasks \ {t} : frame[u].pc = "idle" /\ frame[u].s = NoOne
    BY DEF ShieldInv, OneAtATime, WorkNamesSetup, SetupPcs
  <1>3. \A u \in Tasks : /\ frame'[u].pc = frame[u].pc
                         /\ frame'[u].s = frame[u].s
                         /\ frame'[u].then = frame[u].then
    BY <1>1
  <1>4. OneAtATime' /\ WorkNamesSetup' /\ CallsOnDuty'
    BY <1>3 DEF ShieldInv, OneAtATime, WorkNamesSetup, CallsOnDuty, Sure
  <1>5. WorkFits'
    <2> SUFFICES ASSUME NEW u \in Tasks, NEW s \in Setups, frame'[u].s = s
                 PROVE  Fits(leg', ex'[s], s, rec[s], frame'[u])
      BY DEF WorkFits
    <2>1. u = t
      BY <1>2, <1>3, ConstantsAssumption
    <2> QED
      BY <1>1, <1>3, <2>1
  <1>6. RestFits'
    <2> SUFFICES ASSUME NEW s \in Setups, \A u \in Tasks : frame'[u].s # s
                 PROVE  Rests(leg', ex'[s], s, rec[s])
      BY DEF RestFits
    <2>1. Rests(leg, ex[s], s, rec[s]) /\ frame[t].s # s
      BY <1>3 DEF ShieldInv, RestFits
    <2> QED
      BY <2>1
  <1> QED
    BY <1>4, <1>5, <1>6 DEF ShieldInv

-----------------------------------------------------------------------------
(* The exchange moves by itself *)

\* A fill, the end of an entry, a position closed by hand.
LEMMA OrderMovesShielded ==
    ASSUME TruthInv, TruthInv', ShieldInv, NEW s \in Setups,
           FillEntry(s) \/ EntryDies(s) \/ Flatten(s)
    PROVE  ShieldInv'
  <1>1. UNCHANGED <<rec, frame, leg>>
    BY DEF FillEntry, EntryDies, Flatten, engineVars
  <1>2. ASSUME NEW x \in Setups
        PROVE  /\ ex[x].pos \in Nat /\ ex[x].got \in Nat
               /\ ex[x].pos < ex[x].got => ex'[x].pos < ex'[x].got
    <2>1. ex \in [Setups -> GoodOrders]
      BY TruthTypes DEF TypeInv
    <2>2. ex[x].pos \in Nat /\ ex[x].got \in Nat
      BY TruthTypes
    <2>3. \/ ex'[x] = ex[x]
          \/ ex'[x].got = ex[x].got + 1 /\ ex'[x].pos = ex[x].pos + 1
          \/ ex'[x].got = ex[x].got /\ ex'[x].pos = ex[x].pos
          \/ ex'[x].got = ex[x].got /\ ex'[x].pos = 0
      <3>1. PICK p \in Orders : SetOrder(s, p)
                /\ \/ p.got = ex[s].got + 1 /\ p.pos = ex[s].pos + 1
                   \/ p.got = ex[s].got /\ p.pos = ex[s].pos
                   \/ p.got = ex[s].got /\ p.pos = 0
        <4>1. ex[s] \in Orders /\ ex[s].got \in Nat /\ ex[s].pos \in Nat
          BY <2>1, TruthTypes DEF GoodOrders
        <4>2. CASE FillEntry(s)
          <5> DEFINE p == [ex[s] EXCEPT !.got = @ + 1, !.pos = @ + 1,
                             !.entry = IF ex[s].got + 1 = Qty THEN "filled" ELSE "open"]
          <5>1. ex[s].got < Qty /\ ex[s].pos <= ex[s].got
            BY <2>1, <4>2 DEF FillEntry, GoodOrders
          <5>2. ex[s].got + 1 \in Amounts /\ ex[s].pos + 1 \in Amounts
            BY <4>1, <5>1, ConstantsAssumption DEF Amounts
          <5>3. p \in Orders /\ p.got = ex[s].got + 1 /\ p.pos = ex[s].pos + 1
            BY <4>1, <5>2 DEF Orders
          <5>4. SetOrder(s, p)
            BY <4>2 DEF FillEntry
          <5> HIDE DEF p
          <5> QED
            BY <5>3, <5>4
        <4>3. CASE EntryDies(s)
          <5> DEFINE p == [ex[s] EXCEPT !.entry = "cancelled"]
          <5>1. p \in Orders /\ p.got = ex[s].got /\ p.pos = ex[s].pos
            BY <4>1 DEF Orders
          <5>2. SetOrder(s, p)
            BY <4>3 DEF EntryDies
          <5> HIDE DEF p
          <5> QED
            BY <5>1, <5>2
        <4>4. CASE Flatten(s)
          <5> DEFINE p == [ex[s] EXCEPT !.pos = 0]
          <5>1. p \in Orders /\ p.got = ex[s].got /\ p.pos = 0
            BY <4>1, Bounds DEF Orders
          <5>2. SetOrder(s, p)
            BY <4>4 DEF Flatten
          <5> HIDE DEF p
          <5> QED
            BY <5>1, <5>2
        <4> QED
          BY <4>2, <4>3, <4>4
      <3>2. ex'[x] = IF x = s THEN p ELSE ex[x]
        BY <2>1, <3>1 DEF SetOrder
      <3> QED
        BY <3>1, <3>2
    <2> QED
      BY <2>2, <2>3
  <1>3. \A x \in Setups : Keeps(leg, leg', ex[x], ex'[x], x)
    BY <1>1, <1>2 DEF Keeps, Known, EngineLeg
  <1>4. IdsAscend'
    BY <1>1 DEF ShieldInv, IdsAscend
  <1> QED
    BY <1>1, <1>3, <1>4, MovesKept

\* The attached bracket appears: two orders that are not the engine's.
LEMMA BuildBracketShielded ==
    ASSUME TruthInv, TruthInv', ShieldInv, NEW s \in Setups, BuildBracket(s)
    PROVE  ShieldInv'
  <1>1. UNCHANGED <<rec, frame, ex>>
    BY DEF BuildBracket, engineVars
  <1>2. leg \in [LegIds -> Legs] /\ LegIds \subseteq Nat
    BY TruthTypes DEF TypeInv, LegIds
  <1>3. PICK i \in LegIds, j \in LegIds :
            /\ FreshLeg(i) /\ j = i + 1
            /\ leg' = [leg EXCEPT ![i] = NewLeg(s, "sl", ex[s].pos, "exchange"),
                                  ![j] = NewLeg(s, "tp", ex[s].pos, "exchange")]
    BY DEF BuildBracket
  <1>4. leg[i].st = "free" /\ leg[j].st = "free" /\ \A k \in LegIds : k < i => leg[k].st # "free"
    BY <1>2, <1>3 DEF FreshLeg, ShieldInv, IdsAscend
  <1>5. /\ leg'[i].maker = "exchange" /\ leg'[i].st = "open"
        /\ leg'[j].maker = "exchange" /\ leg'[j].st = "open"
        /\ \A k \in LegIds \ {i, j} : leg'[k] = leg[k]
    BY <1>2, <1>3 DEF NewLeg
  <1>6. \A x \in Setups : Keeps(leg, leg', ex[x], ex'[x], x)
    <2> SUFFICES ASSUME NEW x \in Setups PROVE Keeps(leg, leg', ex[x], ex'[x], x)
      OBVIOUS
    <2>1. \A k \in LegIds : Known(leg, k) => leg'[k] = leg[k]
      BY <1>4, <1>5 DEF Known
    <2>2. \A k \in LegIds : ~Known(leg, k) => ~EngineLeg(leg', k, x)
      BY <1>5 DEF Known, EngineLeg
    <2> QED
      BY <1>1, <2>1, <2>2 DEF Keeps
  <1>7. IdsAscend'
    <2> SUFFICES ASSUME NEW k \in LegIds, NEW l \in LegIds, k < l, leg'[k].st = "free"
                 PROVE  leg'[l].st = "free"
      BY DEF IdsAscend
    <2>1. k # i /\ k # j /\ leg[k].st = "free"
      BY <1>5
    <2>2. j < k /\ leg[l].st = "free"
      BY <1>2, <1>3, <1>4, <2>1 DEF ShieldInv, IdsAscend
    <2> QED
      BY <1>2, <1>3, <1>5, <2>2
  <1> QED
    BY <1>1, <1>6, <1>7, MovesKept

\* Changing the state of an order that was placed gives out no id.
LEMMA AscendKept ==
    ASSUME TypeInv, ShieldInv, NEW i \in LegIds, leg[i].st # "free",
           NEW st, st # "free", leg' = [leg EXCEPT ![i].st = st]
    PROVE  /\ IdsAscend'
           /\ \A k \in LegIds \ {i} : leg'[k] = leg[k]
           /\ leg'[i].st = st /\ leg'[i].s = leg[i].s /\ leg'[i].role = leg[i].role
           /\ leg'[i].size = leg[i].size /\ leg'[i].maker = leg[i].maker
  <1>1. leg \in [LegIds -> Legs]
    BY DEF TypeInv
  <1>2. /\ \A k \in LegIds \ {i} : leg'[k] = leg[k]
        /\ leg'[i].st = st /\ leg'[i].s = leg[i].s /\ leg'[i].role = leg[i].role
        /\ leg'[i].size = leg[i].size /\ leg'[i].maker = leg[i].maker
    BY <1>1 DEF Legs
  <1>3. \A k \in LegIds : leg'[k].st = "free" <=> leg[k].st = "free"
    BY <1>2
  <1> QED
    BY <1>2, <1>3 DEF ShieldInv, IdsAscend

\* A leg executes, or is dropped with the position.
LEMMA LegMovesShielded ==
    ASSUME TruthInv, TruthInv', ShieldInv, NEW i \in LegIds, LegFills(i) \/ LegDropped(i)
    PROVE  ShieldInv'
  <1>1. UNCHANGED <<rec, frame>>
    BY DEF LegFills, LegDropped, engineVars
  <1>2. TypeInv /\ leg[i].st = "open"
    BY TruthTypes DEF LegFills, LegDropped
  <1>3. PICK st \in {"filled", "cancelled"} :
            /\ leg' = [leg EXCEPT ![i].st = st]
            /\ st = "cancelled" => ex[leg[i].s].pos = 0
    BY DEF LegFills, LegDropped
  <1>4. /\ IdsAscend'
        /\ \A k \in LegIds \ {i} : leg'[k] = leg[k]
        /\ leg'[i].st = st /\ leg'[i].s = leg[i].s /\ leg'[i].role = leg[i].role
        /\ leg'[i].size = leg[i].size /\ leg'[i].maker = leg[i].maker
    BY <1>2, <1>3, AscendKept
  <1>5. ASSUME NEW x \in Setups
        PROVE  /\ ex[x].pos \in Nat /\ ex[x].got \in Nat /\ ex'[x].pos \in Nat
               /\ ex'[x].got = ex[x].got /\ ex'[x].pos <= ex[x].pos
    <2>1. ex \in [Setups -> GoodOrders] /\ leg[i].size \in Nat
      BY <1>2, Bounds DEF TypeInv, Legs
    <2>2. ex[x].pos \in Nat /\ ex[x].got \in Nat
      BY TruthTypes
    <2>3. CASE LegDropped(i)
      BY <2>2, <2>3 DEF LegDropped
    <2>4. CASE LegFills(i)
      <3> DEFINE o == [ex[leg[i].s] EXCEPT
                         !.pos = IF @ > leg[i].size THEN @ - leg[i].size ELSE 0]
      <3>1. SetOrder(leg[i].s, o)
        BY <2>4 DEF LegFills
      <3>2. CASE x = leg[i].s
        <4>1. ex'[x] = o
          BY <2>1, <3>1, <3>2 DEF SetOrder
        <4>2. /\ o.got = ex[x].got
              /\ o.pos = (IF ex[x].pos > leg[i].size THEN ex[x].pos - leg[i].size ELSE 0)
          BY <2>1, <3>2 DEF GoodOrders, Orders
        <4> HIDE DEF o
        <4> QED
          BY <2>1, <2>2, <4>1, <4>2
      <3>3. CASE x # leg[i].s
        BY <2>1, <2>2, <3>1, <3>3 DEF SetOrder
      <3> QED
        BY <3>2, <3>3
    <2> QED
      BY <2>3, <2>4
  <1>6. ASSUME NEW x \in Setups PROVE Keeps(leg, leg', ex[x], ex'[x], x)
    <2>1. \A k \in LegIds : leg'[k].st = "cancelled" /\ leg[k].s = x =>
              leg[k].st = "cancelled" \/ ex'[x].pos < ex'[x].got \/ ex'[x].got = 0
      BY <1>3, <1>4, <1>5
    <2>2. /\ \A k \in LegIds : /\ leg'[k].s = leg[k].s /\ leg'[k].role = leg[k].role
                               /\ leg'[k].size = leg[k].size /\ leg'[k].maker = leg[k].maker
                               /\ leg'[k].st = "open" => leg[k].st = "open"
      BY <1>3, <1>4
    <2>3. ex[x].pos < ex[x].got => ex'[x].pos < ex'[x].got
      BY <1>5
    <2>4. \A k \in LegIds : ~Known(leg, k) => ~EngineLeg(leg', k, x)
      BY <2>2 DEF Known, EngineLeg
    <2> QED
      BY <2>1, <2>2, <2>3, <2>4 DEF Keeps
  <1> QED
    BY <1>1, <1>4, <1>6, MovesKept

-----------------------------------------------------------------------------
(* The exchange answers *)

\* An answer that places and cancels nothing leaves a pair fitting.
LEMMA ReplyFits ==
    ASSUME NEW L, NEW o, NEW s, NEW r, NEW f, NEW g, Fits(L, o, s, r, f),
           f.reply = "wait", g.pc = f.pc, g.role = f.role, g.oid = f.oid,
           g.goal = f.goal, g.then = f.then,
           f.pc \in {"place", "cancel"} => g.reply # "ok",
           f.pc = "verify" /\ g.reply = "cancelled" => L[f.oid].st # "open",
           f.pc = "openOrders" => \A i \in g.seen : Stands(L, o, i, s, f.goal)
    PROVE  Fits(L, o, s, r, g)
  BY DEF Fits, Shielded, Tracked

\* Neither an entry that is cancelled nor one that is left alone moves a pair.
LEMMA SameAmountsKeep ==
    ASSUME NEW s, UNCHANGED leg, ex'[s].got = ex[s].got, ex'[s].pos = ex[s].pos
    PROVE  Keeps(leg, leg', ex[s], ex'[s], s)
  BY DEF Keeps, Known, EngineLeg

\* Such an answer reaches the one call there is.
LEMMA ReplyShielded ==
    ASSUME TruthInv, TruthInv', ShieldInv, NEW t \in Tasks, NEW g,
           frame' = [frame EXCEPT ![t] = g], UNCHANGED <<rec, leg>>,
           \A s \in Setups : ex'[s].got = ex[s].got /\ ex'[s].pos = ex[s].pos,
           frame[t].pc # "idle", frame[t].reply = "wait",
           g.pc = frame[t].pc, g.s = frame[t].s, g.role = frame[t].role,
           g.oid = frame[t].oid, g.goal = frame[t].goal, g.then = frame[t].then,
           frame[t].pc \in {"place", "cancel"} => g.reply # "ok",
           frame[t].pc = "verify" /\ g.reply = "cancelled" =>
               leg[frame[t].oid].st # "open",
           frame[t].pc = "openOrders" =>
               \A i \in g.seen :
                   Stands(leg, ex'[frame[t].s], i, frame[t].s, frame[t].goal)
    PROVE  ShieldInv'
  <1>1. TypeInv
    BY TruthTypes
  <1>2. \A s \in Setups : Keeps(leg, leg', ex[s], ex'[s], s)
    BY SameAmountsKeep
  <1>3. ASSUME NEW s \in Setups, frame[t].s = s
        PROVE  Fits(leg', ex'[s], s, rec[s], g)
    <2>1. Fits(leg, ex[s], s, rec[s], frame[t])
      BY <1>3 DEF ShieldInv, WorkFits
    <2>2. Fits(leg', ex'[s], s, rec[s], frame[t])
      BY <1>2, <1>3, <2>1, FitsUnder
    <2> QED
      BY <1>3, <2>2, ReplyFits
  <1>4. ASSUME NEW s \in Setups, Rests(leg, ex[s], s, rec[s])
        PROVE  Rests(leg', ex'[s], s, rec[s])
    BY <1>2, <1>4, RestsUnder
  <1>5. IdsAscend'
    BY DEF ShieldInv, IdsAscend
  <1> QED
    BY <1>1, <1>3, <1>4, <1>5, AnswerKept

\* What Answer writes.
LEMMA AnswerWrites ==
    ASSUME TypeInv, NEW t \in Tasks, NEW reply, Answer(t, reply)
    PROVE  \E g :
             /\ frame' = [frame EXCEPT ![t] = g]
             /\ g.pc = frame[t].pc /\ g.s = frame[t].s /\ g.role = frame[t].role
             /\ g.oid = frame[t].oid /\ g.goal = frame[t].goal
             /\ g.then = frame[t].then /\ g.seen = frame[t].seen
             /\ g.amt = frame[t].amt /\ g.reply = reply
  <1> DEFINE g == [frame[t] EXCEPT !.reply = reply]
  <1>1. frame[t] \in Frames
    BY DEF TypeInv, GoodFrames
  <1>2. /\ g.pc = frame[t].pc /\ g.s = frame[t].s /\ g.role = frame[t].role
        /\ g.oid = frame[t].oid /\ g.goal = frame[t].goal
        /\ g.then = frame[t].then /\ g.seen = frame[t].seen
        /\ g.amt = frame[t].amt /\ g.reply = reply
    BY <1>1 DEF Frames
  <1>3. frame' = [frame EXCEPT ![t] = g]
    BY DEF Answer
  <1> HIDE DEF g
  <1> QED
    BY <1>2, <1>3

\* Errors, refusals and plain readings.
LEMMA PlainAnswersShielded ==
    ASSUME TruthInv, TruthInv', ShieldInv, NEW t \in Tasks,
           \/ AnswerError(t) \/ AnswerRefused(t) \/ RefuseEntry(t) \/ ReadEcho(t)
           \/ ReadLeg(t) \/ ReadBalance(t) \/ ReadPositions(t) \/ ReadAllOrders(t)
    PROVE  ShieldInv'
  <1>1. TypeInv /\ UNCHANGED <<rec, leg, ex>>
    BY TruthTypes
       DEF AnswerError, AnswerRefused, RefuseEntry, ReadEcho, ReadLeg, ReadBalance,
           ReadPositions, ReadAllOrders, engineVars, exchangeVars
  <1>2. /\ frame[t].pc \in AwaitPcs /\ frame[t].reply = "wait"
        /\ \E reply :
             /\ Answer(t, reply)
             /\ frame[t].pc \in {"place", "cancel"} => reply # "ok"
             /\ frame[t].pc = "verify" /\ reply = "cancelled" =>
                    leg[frame[t].oid].st # "open"
    <2>1. CASE AnswerError(t) \/ AnswerRefused(t) \/ RefuseEntry(t)
      <3>1. \E reply \in {"error", "rejected", "timeout"} : Answer(t, reply)
        BY <2>1 DEF AnswerError, AnswerRefused, RefuseEntry
      <3> QED
        BY <2>1, <3>1
           DEF AnswerError, AnswerRefused, RefuseEntry, Awaiting, AwaitPcs,
               EntryCancelPcs, LegCancelPcs
    <2>2. CASE ReadEcho(t) \/ ReadBalance(t) \/ ReadPositions(t) \/ ReadAllOrders(t)
      BY <2>2 DEF ReadEcho, ReadBalance, ReadPositions, ReadAllOrders, Awaiting, AwaitPcs
    <2>3. CASE ReadLeg(t)
      <3>1. /\ frame[t].pc \in {"verify", "closeVerify"} /\ frame[t].reply = "wait"
            /\ Answer(t, leg[frame[t].oid].st)
        BY <2>3 DEF ReadLeg, Awaiting
      <3> QED
        BY <3>1 DEF AwaitPcs
    <2> QED
      BY <2>1, <2>2, <2>3
  <1>3. PICK reply :
             /\ Answer(t, reply)
             /\ frame[t].pc \in {"place", "cancel"} => reply # "ok"
             /\ frame[t].pc = "verify" /\ reply = "cancelled" =>
                    leg[frame[t].oid].st # "open"
    BY <1>2
  <1>4. PICK g :
             /\ frame' = [frame EXCEPT ![t] = g]
             /\ g.pc = frame[t].pc /\ g.s = frame[t].s /\ g.role = frame[t].role
             /\ g.oid = frame[t].oid /\ g.goal = frame[t].goal
             /\ g.then = frame[t].then /\ g.seen = frame[t].seen
             /\ g.amt = frame[t].amt /\ g.reply = reply
    BY <1>1, <1>3, AnswerWrites
  <1>5. frame[t].pc # "idle"
    BY <1>2 DEF AwaitPcs
  <1>6. frame[t].pc = "openOrders" =>
            \A i \in g.seen : Stands(leg, ex'[frame[t].s], i, frame[t].s, frame[t].goal)
    <2> SUFFICES ASSUME frame[t].pc = "openOrders"
                 PROVE  \A i \in g.seen :
                          Stands(leg, ex'[frame[t].s], i, frame[t].s, frame[t].goal)
      OBVIOUS
    <2>1. Fits(leg, ex[frame[t].s], frame[t].s, rec[frame[t].s], frame[t])
      BY <1>1, AtWork DEF SetupPcs
    <2> QED
      BY <1>1, <1>4, <2>1 DEF Fits, Shielded
  <1> QED
    BY <1>1, <1>2, <1>3, <1>4, <1>5, <1>6, ReplyShielded

\* The open orders that could be adopted: each is of the size that is wanted.
LEMMA ReadOpenOrdersShielded ==
    ASSUME TruthInv, TruthInv', ShieldInv, NEW t \in Tasks, ReadOpenOrders(t)
    PROVE  ShieldInv'
  <1> DEFINE f == frame[t]
             seen == {i \in LegIds : AdoptableLeg(i, f.s, f.goal)}
             g == [f EXCEPT !.reply = "ok", !.seen = seen]
  <1>1. TypeInv /\ UNCHANGED <<rec, leg, ex>> /\ f.pc = "openOrders" /\ f.reply = "wait"
    BY TruthTypes DEF ReadOpenOrders, Awaiting, engineVars, exchangeVars
  <1>2. frame' = [frame EXCEPT ![t] = g]
    BY DEF ReadOpenOrders
  <1>3. f \in Frames
    BY <1>1 DEF TypeInv, GoodFrames
  <1>4. \A i \in seen : Stands(leg, ex'[f.s], i, f.s, f.goal)
    BY DEF AdoptableLeg, Stands
  <1> HIDE DEF seen
  <1>5. /\ g.pc = f.pc /\ g.s = f.s /\ g.role = f.role /\ g.oid = f.oid
        /\ g.goal = f.goal /\ g.then = f.then /\ g.seen = seen
    BY <1>3 DEF Frames
  <1> HIDE DEF g
  <1> QED
    BY <1>1, <1>2, <1>4, <1>5, ReplyShielded

\* What an entry has filled, and the cancel of one.
LEMMA EntryAnswersShielded ==
    ASSUME TruthInv, TruthInv', ShieldInv, NEW t \in Tasks,
           ReadEntry(t) \/ CancelEntry(t)
    PROVE  ShieldInv'
  <1> DEFINE f == frame[t]
  <1>1. /\ TypeInv /\ UNCHANGED <<rec, leg>>
        /\ f.pc \in {"expGet", "recGet", "killVerify", "expCancel", "killCancel"}
        /\ f.reply = "wait"
    BY TruthTypes
       DEF ReadEntry, CancelEntry, Awaiting, EntryCancelPcs, engineVars, exchangeVars
  <1>2. f \in Frames /\ f.s \in Setups
    BY <1>1, AtSetup DEF SetupPcs
  <1>3. \A s \in Setups : ex'[s].got = ex[s].got /\ ex'[s].pos = ex[s].pos
    <2>1. CASE ReadEntry(t)
      BY <2>1 DEF ReadEntry, exchangeVars
    <2>2. CASE CancelEntry(t)
      <3> DEFINE o == [ex[f.s] EXCEPT !.entry = "cancelled"]
      <3>1. SetOrder(f.s, o)
        BY <2>2 DEF CancelEntry
      <3>2. o.got = ex[f.s].got /\ o.pos = ex[f.s].pos
        BY <1>1, <1>2 DEF TypeInv, GoodOrders, Orders
      <3> HIDE DEF o
      <3> QED
        BY <1>1, <1>2, <3>1, <3>2 DEF SetOrder, TypeInv
    <2> QED
      BY <2>1, <2>2
  <1>4. \E g : /\ frame' = [frame EXCEPT ![t] = g]
               /\ g.pc = f.pc /\ g.s = f.s /\ g.role = f.role
               /\ g.oid = f.oid /\ g.goal = f.goal /\ g.then = f.then
    <2>1. CASE ReadEntry(t)
      <3> DEFINE reply == IF ex[f.s].entry # "none" THEN ex[f.s].entry ELSE "missing"
                 g == [f EXCEPT !.reply = reply, !.amt = ex[f.s].got]
      <3>1. frame' = [frame EXCEPT ![t] = g]
        BY <2>1 DEF ReadEntry
      <3>2. /\ g.pc = f.pc /\ g.s = f.s /\ g.role = f.role
            /\ g.oid = f.oid /\ g.goal = f.goal /\ g.then = f.then
        BY <1>2 DEF Frames
      <3> HIDE DEF g
      <3> QED
        BY <3>1, <3>2
    <2>2. CASE CancelEntry(t)
      BY <1>1, <2>2, AnswerWrites DEF CancelEntry, AnswerOrLose
    <2> QED
      BY <2>1, <2>2
  <1>5. /\ f.pc # "idle" /\ f.pc \notin {"place", "cancel"}
        /\ f.pc # "verify" /\ f.pc # "openOrders"
    BY <1>1
  <1>6. PICK g : /\ frame' = [frame EXCEPT ![t] = g]
                 /\ g.pc = f.pc /\ g.s = f.s /\ g.role = f.role
                 /\ g.oid = f.oid /\ g.goal = f.goal /\ g.then = f.then
    BY <1>4
  <1> QED
    BY <1>1, <1>3, <1>5, <1>6, ReplyShielded

\* A submitted entry protects nothing yet, whatever it fills at once.
LEMMA PostFits ==
    ASSUME NEW L, NEW o, NEW p, NEW s, NEW r, NEW f, NEW g, Fits(L, o, s, r, f),
           f.pc = "post", g.pc = "post", g.then = f.then
    PROVE  Fits(L, p, s, r, g)
  BY DEF Fits, Shielded, Tracked, Protecting, LegPcs

\* The entry is accepted.
LEMMA AcceptEntryShielded ==
    ASSUME TruthInv, TruthInv', ShieldInv, NEW t \in Tasks, AcceptEntry(t)
    PROVE  ShieldInv'
  <1> DEFINE f == frame[t]
  <1>1. TypeInv /\ UNCHANGED <<rec, leg>> /\ f.pc = "post" /\ f.reply = "wait"
    BY TruthTypes DEF AcceptEntry, Awaiting, engineVars
  <1>2. f \in Frames /\ f.s \in Setups /\ Fits(leg, ex[f.s], f.s, rec[f.s], f)
    BY <1>1, AtWork DEF SetupPcs
  <1>3. \A s \in Setups \ {f.s} : ex'[s] = ex[s]
    BY <1>1, AcceptEntryGood
  <1>4. \E g : frame' = [frame EXCEPT ![t] = g] /\ g.pc = f.pc /\ g.s = f.s /\ g.then = f.then
    <2> DEFINE status(n) == IF n = Qty THEN "filled" ELSE "open"
               g(n) == [f EXCEPT !.reply = status(n), !.amt = n]
    <2>1. PICK n \in Amounts :
              \/ frame' = [frame EXCEPT ![t].reply = status(n), ![t].amt = n]
              \/ \E reply \in {"timeout", "error"} : Answer(t, reply)
      BY DEF AcceptEntry
    <2>2. CASE frame' = [frame EXCEPT ![t].reply = status(n), ![t].amt = n]
      <3>1. frame' = [frame EXCEPT ![t] = g(n)]
        BY <2>2
      <3>2. g(n).pc = f.pc /\ g(n).s = f.s /\ g(n).then = f.then
        BY <1>2 DEF Frames
      <3> HIDE DEF g
      <3> QED
        BY <3>1, <3>2
    <2>3. CASE \E reply \in {"timeout", "error"} : Answer(t, reply)
      BY <1>1, <2>3, AnswerWrites
    <2> QED
      BY <2>1, <2>2, <2>3
  <1>5. PICK g : frame' = [frame EXCEPT ![t] = g] /\ g.pc = f.pc /\ g.s = f.s /\ g.then = f.then
    BY <1>4
  <1>6. Fits(leg', ex'[f.s], f.s, rec[f.s], g)
    BY <1>1, <1>2, <1>5, PostFits
  <1>7. ASSUME NEW s \in Setups, f.s # s, Rests(leg, ex[s], s, rec[s])
        PROVE  Rests(leg', ex'[s], s, rec[s])
    BY <1>1, <1>3, <1>7
  <1>8. IdsAscend' /\ f.pc # "idle"
    BY <1>1 DEF ShieldInv, IdsAscend
  <1> QED
    BY <1>1, <1>5, <1>6, <1>7, <1>8, AnswerKept

\* The order that is being cancelled is cancelled.
LEMMA CancelledFits ==
    ASSUME NEW L, NEW M, NEW o, NEW s, NEW r, NEW f, NEW g, Fits(L, o, s, r, f),
           f.pc \in {"cancel", "closeCancel"}, f.reply = "wait", Known(L, f.oid),
           M[f.oid].st = "cancelled",
           \A i \in LegIds : /\ M[i].s = L[i].s /\ M[i].role = L[i].role
                             /\ M[i].maker = L[i].maker
                             /\ M[i].st = "open" => L[i].st = "open",
           \A role \in Roles : r[role] # 0 => Known(L, r[role]),
           g.pc = f.pc, g.role = f.role, g.oid = f.oid, g.goal = f.goal, g.then = f.then
    PROVE  Fits(M, o, s, r, g)
  <1>1. Named(M, s, r)
    BY DEF Fits, Shielded, Named, Known
  <1>2. Shielded(M, o, s, r, g)
    BY <1>1 DEF Fits, Shielded, Protecting, LegClosers, LegPcs, Known
  <1>3. ASSUME Sure PROVE Tracked(M, s, r, g)
    <2>1. Tracked(L, s, r, f)
      BY <1>3 DEF Fits
    <2>2. \A i \in LegIds : EngineLeg(M, i, s) => i = r[M[i].role]
      BY <2>1 DEF Tracked, EngineLeg
    <2> QED
      BY <2>1, <2>2 DEF Tracked
  <1> QED
    BY <1>2, <1>3 DEF Fits

\* A protective order is cancelled.
LEMMA CancelLegShielded ==
    ASSUME TruthInv, TruthInv', ShieldInv, NEW t \in Tasks, CancelLeg(t)
    PROVE  ShieldInv'
  <1> DEFINE f == frame[t]
             s == f.s
  <1>1. /\ TypeInv /\ UNCHANGED <<rec, ex>>
        /\ f.pc \in {"cancel", "closeCancel"} /\ f.reply = "wait"
        /\ leg[f.oid].st = "open" /\ leg' = [leg EXCEPT ![f.oid].st = "cancelled"]
        /\ \E reply : Answer(t, reply)
    BY TruthTypes DEF CancelLeg, Awaiting, LegCancelPcs, AnswerOrLose, engineVars
  <1>2. /\ s \in Setups /\ Fits(leg, ex[s], s, rec[s], f)
        /\ f.oid \in LegIds /\ Known(leg, f.oid)
    BY <1>1, AtWork DEF SetupPcs, LegPcs, Placed, Known
  <1>3. PICK g : /\ frame' = [frame EXCEPT ![t] = g]
                 /\ g.pc = f.pc /\ g.s = f.s /\ g.role = f.role
                 /\ g.oid = f.oid /\ g.goal = f.goal /\ g.then = f.then
    BY <1>1, AnswerWrites
  <1>4. /\ IdsAscend'
        /\ \A k \in LegIds \ {f.oid} : leg'[k] = leg[k]
        /\ leg'[f.oid].st = "cancelled"
        /\ \A k \in LegIds : /\ leg'[k].s = leg[k].s /\ leg'[k].role = leg[k].role
                             /\ leg'[k].size = leg[k].size /\ leg'[k].maker = leg[k].maker
                             /\ leg'[k].st = "open" => leg[k].st = "open"
    BY <1>1, <1>2, AscendKept
  <1>5. \A role \in Roles : rec[s][role] # 0 => Known(leg, rec[s][role])
    BY <1>1, <1>2, ClaimsAreKnown
  <1> HIDE DEF s, f
  <1>6. Fits(leg', ex'[s], s, rec[s], g)
    <2>1. Fits(leg, ex'[s], s, rec[s], f)
      BY <1>1, <1>2
    <2>2. f.pc \in {"cancel", "closeCancel"} /\ f.reply = "wait" /\ Known(leg, f.oid)
      BY <1>1, <1>2
    <2>3. g.pc = f.pc /\ g.role = f.role /\ g.oid = f.oid /\ g.goal = f.goal /\ g.then = f.then
      BY <1>3
    <2>4. /\ leg'[f.oid].st = "cancelled"
          /\ \A k \in LegIds : /\ leg'[k].s = leg[k].s /\ leg'[k].role = leg[k].role
                               /\ leg'[k].maker = leg[k].maker
                               /\ leg'[k].st = "open" => leg[k].st = "open"
      BY <1>4
    <2> QED
      BY <1>5, <2>1, <2>2, <2>3, <2>4, CancelledFits
  <1>7. ASSUME NEW x \in Setups, s # x, Rests(leg, ex[x], x, rec[x])
        PROVE  Rests(leg', ex'[x], x, rec[x])
    <2>1. leg[f.oid].s = s
      BY <1>1, <1>2 DEF Fits, Shielded, LegPcs
    <2>2. Keeps(leg, leg', ex[x], ex'[x], x)
      BY <1>1, <1>4, <1>7, <2>1 DEF Keeps, Known, EngineLeg
    <2> QED
      BY <1>1, <1>7, <2>2, RestsUnder
  <1>8. f.pc # "idle"
    BY <1>1
  <1> QED
    BY <1>1, <1>3, <1>4, <1>6, <1>7, <1>8, AnswerKept DEF s, f

\* The order that is asked for is placed.
LEMMA PlacedFits ==
    ASSUME NEW L, NEW M, NEW o, NEW s, NEW r, NEW f, NEW g, Fits(L, o, s, r, f),
           f.pc = "place", f.reply = "wait", f.s = s,
           NEW i \in LegIds, ~Known(L, i),
           \A k \in LegIds \ {i} : M[k] = L[k],
           M[i] = NewLeg(s, f.role, f.goal, "engine"),
           \A role \in Roles : r[role] # 0 => Known(L, r[role]),
           g.pc = f.pc, g.role = f.role, g.goal = f.goal, g.then = f.then,
           \/ g.reply = "ok" /\ g.oid = i
           \/ ~Sure /\ g.reply # "ok"
    PROVE  Fits(M, o, s, r, g)
  <1>1. \A role \in Roles : r[role] # 0 => M[r[role]] = L[r[role]]
    BY DEF Known
  <1>2. Named(M, s, r)
    BY <1>1 DEF Fits, Shielded, Named
  <1>3. M[i].s = s /\ M[i].role = f.role /\ M[i].size = f.goal /\ M[i].st = "open"
    BY DEF NewLeg
  <1>4. r.sl # 0 => M[r.sl] = L[r.sl]
    BY <1>1 DEF Roles
  <1>5. f.role = "tp" => r.sl # 0 /\ Stands(M, o, r.sl, s, f.goal)
    BY <1>4 DEF Fits, Shielded, Stands
  <1>6. Stands(M, o, i, s, f.goal)
    BY <1>3 DEF Stands
  <1>7. Shielded(M, o, s, r, g)
    BY <1>2, <1>3, <1>5, <1>6 DEF Fits, Shielded, Protecting, LegPcs
  <1>8. ASSUME Sure PROVE Tracked(M, s, r, g)
    <2>1. Tracked(L, s, r, f)
      BY <1>8 DEF Fits
    <2>2. \A k \in LegIds : EngineLeg(M, k, s) => k = r[M[k].role] \/ k = i
      BY <2>1 DEF Tracked, EngineLeg
    <2> QED
      BY <1>8, <2>1, <2>2 DEF Tracked
  <1> QED
    BY <1>7, <1>8 DEF Fits

\* A protective order is placed.
LEMMA PlaceLegShielded ==
    ASSUME TruthInv, TruthInv', ShieldInv, NEW t \in Tasks, PlaceLeg(t)
    PROVE  ShieldInv'
  <1> DEFINE f == frame[t]
             s == f.s
             new == NewLeg(s, f.role, f.goal, "engine")
  <1>1. TypeInv /\ UNCHANGED <<rec, ex>> /\ f.pc = "place" /\ f.reply = "wait"
    BY TruthTypes DEF PlaceLeg, Awaiting, engineVars
  <1>2. f \in Frames /\ s \in Setups /\ Fits(leg, ex[s], s, rec[s], f)
    BY <1>1, AtWork DEF SetupPcs
  <1>3. PICK i \in LegIds :
            /\ FreshLeg(i)
            /\ leg' = [leg EXCEPT ![i] = new]
            /\ \/ frame' = [frame EXCEPT ![t].reply = "ok", ![t].oid = i]
               \/ Network = "lossy" /\ Answer(t, "error")
    BY DEF PlaceLeg
  <1>4. /\ leg \in [LegIds -> Legs] /\ LegIds \subseteq Nat
        /\ leg[i].st = "free" /\ \A k \in LegIds : k < i => leg[k].st # "free"
    BY <1>1, <1>3 DEF TypeInv, LegIds, FreshLeg
  <1>5. leg'[i] = new /\ new.st = "open" /\ new.s = s /\ \A k \in LegIds \ {i} : leg'[k] = leg[k]
    BY <1>3, <1>4 DEF NewLeg
  <1>6. \E g : /\ frame' = [frame EXCEPT ![t] = g]
               /\ g.pc = f.pc /\ g.s = f.s /\ g.role = f.role
               /\ g.goal = f.goal /\ g.then = f.then
               /\ \/ g.reply = "ok" /\ g.oid = i
                  \/ ~Sure /\ g.reply # "ok"
    <2>1. CASE frame' = [frame EXCEPT ![t].reply = "ok", ![t].oid = i]
      <3> DEFINE g == [f EXCEPT !.reply = "ok", !.oid = i]
      <3>1. frame' = [frame EXCEPT ![t] = g]
        BY <2>1
      <3>2. /\ g.pc = f.pc /\ g.s = f.s /\ g.role = f.role /\ g.goal = f.goal
            /\ g.then = f.then /\ g.reply = "ok" /\ g.oid = i
        BY <1>2 DEF Frames
      <3> HIDE DEF g
      <3> QED
        BY <3>1, <3>2
    <2>2. CASE Network = "lossy" /\ Answer(t, "error")
      <3>1. ~Sure
        BY <2>2 DEF Sure
      <3> QED
        BY <1>1, <2>2, <3>1, AnswerWrites
    <2> QED
      BY <1>3, <2>1, <2>2
  <1>7. PICK g : /\ frame' = [frame EXCEPT ![t] = g]
                 /\ g.pc = f.pc /\ g.s = f.s /\ g.role = f.role
                 /\ g.goal = f.goal /\ g.then = f.then
                 /\ \/ g.reply = "ok" /\ g.oid = i
                    \/ ~Sure /\ g.reply # "ok"
    BY <1>6
  <1>8. \A role \in Roles : rec[s][role] # 0 => Known(leg, rec[s][role])
    BY <1>1, <1>2, ClaimsAreKnown
  <1>9. Fits(leg', ex[s], s, rec[s], g)
    <2>1. ~Known(leg, i)
      BY <1>4 DEF Known
    <2> HIDE DEF f, s
    <2> QED
      BY <1>1, <1>2, <1>5, <1>7, <1>8, <2>1, PlacedFits DEF s
  <1>10. ASSUME NEW x \in Setups, s # x, Rests(leg, ex[x], x, rec[x])
         PROVE  Rests(leg', ex'[x], x, rec[x])
    <2>1. \A k \in LegIds : Known(leg, k) => leg'[k] = leg[k]
      BY <1>4, <1>5 DEF Known
    <2>2. \A k \in LegIds : ~Known(leg, k) => ~EngineLeg(leg', k, x)
      <3> HIDE DEF new, s
      <3> QED
        BY <1>5, <1>10 DEF Known, EngineLeg
    <2>3. Keeps(leg, leg', ex[x], ex'[x], x)
      BY <1>1, <2>1, <2>2 DEF Keeps
    <2> QED
      BY <1>1, <1>10, <2>3, RestsUnder
  <1>11. IdsAscend'
    <2> HIDE DEF new
    <2> SUFFICES ASSUME NEW k \in LegIds, NEW l \in LegIds, k < l, leg'[k].st = "free"
                 PROVE  leg'[l].st = "free"
      BY DEF IdsAscend
    <2>1. k # i /\ leg[k].st = "free"
      BY <1>5
    <2>2. i < k /\ leg[l].st = "free"
      BY <1>4, <2>1 DEF ShieldInv, IdsAscend
    <2> QED
      BY <1>4, <1>5, <2>2
  <1>12. f.pc # "idle"
    BY <1>1
  <1> HIDE DEF new
  <1> QED
    BY <1>1, <1>7, <1>9, <1>10, <1>11, <1>12, AnswerKept

-----------------------------------------------------------------------------
(* The theorems *)

\* Without overlap the invariant is inductive.
LEMMA ShieldInductive ==
    ASSUME ~Overlap, TruthInv, ShieldInv, [Next]_vars
    PROVE  ShieldInv'
  <1>1. TruthInv' /\ TypeInv'
    <2>1. TruthInv'
      BY TruthInductive
    <2> QED
      BY <2>1 DEF TruthInv, LockInv
  <1>2. CASE UNCHANGED vars
    BY <1>2, NothingKept DEF vars, engineVars
  <1>3. ASSUME NEW t \in Tasks, Calls(t) \/ Proceeds(t)
        PROVE  ShieldInv'
    BY <1>1, <1>3, CallsShielded, ProceedsShielded
  <1>4. ASSUME NEW t \in Tasks, Answers(t)
        PROVE  ShieldInv'
    BY <1>1, <1>4, PlainAnswersShielded, ReadOpenOrdersShielded, EntryAnswersShielded,
       AcceptEntryShielded, CancelLegShielded, PlaceLegShielded DEF Answers
  <1>5. CASE ExchangeMoves
    BY <1>1, <1>5, OrderMovesShielded, BuildBracketShielded, LegMovesShielded
       DEF ExchangeMoves
  <1> QED
    BY <1>2, <1>3, <1>4, <1>5 DEF Next

\* Between calls every record rests.
LEMMA QuietRests ==
    ASSUME ShieldInv, Quiet, NEW s \in Setups
    PROVE  Rests(leg, ex[s], s, rec[s])
  <1>1. \A t \in Tasks : frame[t].s = NoOne
    BY DEF Quiet, Idle, ShieldInv, WorkNamesSetup, SetupPcs
  <1> QED
    BY <1>1, ConstantsAssumption DEF ShieldInv, RestFits

\* When no call is suspended inside another, PROTECTED_POSITION is told of real
\* orders, whatever the network loses and the exchange does by itself: the two
\* ids name an SL and a TP of this trade, of the protected size, that no
\* resize, retry or closure of the engine has cancelled.
THEOREM ProtectionReal ==
    ASSUME ~Overlap
    PROVE  Spec => []ProtectionIsReal
  <1>1. Init => TruthInv /\ ShieldInv
    BY InitTrue, InitShielded
  <1>2. TruthInv /\ ShieldInv /\ [Next]_vars => TruthInv' /\ ShieldInv'
    BY TruthInductive, ShieldInductive
  <1>3. TruthInv /\ ShieldInv => ProtectionIsReal
    <2> SUFFICES ASSUME TruthInv, ShieldInv, NEW s \in active, Quiet,
                        rec[s].state = "PROTECTED_POSITION"
                 PROVE  /\ rec[s].protected > 0
                        /\ \A role \in Roles :
                             /\ rec[s][role] # 0
                             /\ leg[rec[s][role]].s = s /\ leg[rec[s][role]].role = role
                             /\ leg[rec[s][role]].size = rec[s].protected
                             /\ leg[rec[s][role]].st = "cancelled" => ex[s].pos < ex[s].got
      BY DEF ProtectionIsReal
    <2>1. s \in Setups
      BY TruthTypes DEF TypeInv
    <2>2. Rests(leg, ex[s], s, rec[s])
      BY <2>1, QuietRests
    <2> QED
      BY <2>2 DEF Rests, Named, Real, Stands
  <1> QED
    BY <1>1, <1>2, <1>3, PTL DEF Spec

\* When besides every answer arrives and no reconciliation runs, the engine
\* never loses sight of an order it placed: between calls each one that still
\* rests is one of the two ids of its record, so closing the trade cancels it.
THEOREM EngineLegsSeen ==
    ASSUME ~Overlap, Sure
    PROVE  Spec => []EngineLegsTracked
  <1>1. Init => TruthInv /\ ShieldInv
    BY InitTrue, InitShielded
  <1>2. TruthInv /\ ShieldInv /\ [Next]_vars => TruthInv' /\ ShieldInv'
    BY TruthInductive, ShieldInductive
  <1>3. TruthInv /\ ShieldInv => EngineLegsTracked
    <2> SUFFICES ASSUME TruthInv, ShieldInv, Quiet, NEW i \in LegIds, leg[i].st = "open",
                        leg[i].maker = "engine", leg[i].s \in active
                 PROVE  i = rec[leg[i].s][leg[i].role]
      BY DEF EngineLegsTracked
    <2>1. leg[i].s \in Setups
      BY TruthTypes DEF TypeInv
    <2>2. Rests(leg, ex[leg[i].s], leg[i].s, rec[leg[i].s])
      BY <2>1, QuietRests
    <2>3. EngineLeg(leg, i, leg[i].s)
      BY DEF EngineLeg
    <2> QED
      BY <2>2, <2>3 DEF Rests
  <1> QED
    BY <1>1, <1>2, <1>3, PTL DEF Spec

-----------------------------------------------------------------------------
(* What a reconciliation pass has seen *)

\* Every request is answered and the kill switch is left alone.  Otherwise a
\* cancel or a submission whose outcome stays unknown leaves a record that is
\* not resting and holds no fill, which a pass visits but never refreshes.
Reliable == Network = "reliable" /\ NoKillSwitch

\* Nothing came of an entry, and nothing more will.
Over(o) == o.entry # "open" /\ o.got = 0

\* A record that holds no fill and is not resting is of an entry that is over;
\* one that is resting and whose submission has returned knows its order.
Heeded(o, r, submitted) ==
    /\ r.state \notin RestingStates /\ r.filled = 0 => Over(o)
    /\ r.state \in RestingStates /\ submitted => r.entryId

Submitted(s) == \A t \in Tasks : frame[t].pc = "post" => frame[t].s # s

\* What a call knows of the entry it asks about.
Informed(o, r, f) ==
    /\ f.pc = "post" => f.reply \notin {"timeout", "error"}
    /\ f.pc \in {"expCancel", "expGet"} => r.entryId
    /\ f.pc = "expCancel" /\ f.reply # "wait" => o.entry # "open"
    /\ f.pc = "expGet" => o.entry # "open" /\ (f.reply # "wait" => f.amt = o.got)
    /\ f.pc \in Closers => r.filled > 0

\* Record r of s agrees with the position in the snapshot v.
Agrees(v, s, r) == v.pos[s] > 0 => BothLegs(r) /\ r.protected = v.pos[s]

InPass(f) ==
    \/ f.pc \in {"recNext", "recGet", "recCheck", "recDone"}
    \/ f.then \in {"recCheck", "recDone"}

\* A pass at work on s (or NoOne): what it has to visit is active, and every
\* record it has left behind agrees with the snapshot, or it is not clean.
Swept(a, R, v, s) ==
    /\ v.todo \subseteq a \ v.claimed
    /\ s \in Setups => s \in v.claimed /\ (s \in a \/ v.pos[s] = 0)
    /\ v.dirty \/ \A x \in v.claimed \ {s} : Agrees(v, x, R[x])

Sweeps(a, R, v, f) ==
    /\ f.then \in {"recCheck", "recDone"} => f.pc \in Protecting \cup {"recGet"}
    /\ f.pc \in {"recPositions", "recOrders"} => v.claimed = {}
    /\ InPass(f) => Swept(a, R, v, f.s)
    /\ f.pc = "recGet" =>
           /\ f.then = "recCheck"
           /\ R[f.s].state \in RestingStates
           /\ f.reply \notin {"wait", "error", "missing"} => v.pos[f.s] <= f.amt
    /\ f.pc = "recCheck" => v.pos[f.s] = 0 \/ R[f.s].filled > 0
    /\ f.then = "recDone" => f.goal = v.pos[f.s]
    /\ f.pc = "recDone" /\ R[f.s].state = "PROTECTED_POSITION" =>
           Agrees(v, f.s, R[f.s])

RecordsHeeded == \A s \in Setups : Heeded(ex[s], rec[s], Submitted(s))
CallsInformed ==
    \A t \in Tasks : frame[t].s \in Setups =>
        Informed(ex[frame[t].s], rec[frame[t].s], frame[t])
PassSweeps == \A t \in Tasks : Sweeps(active, rec, survey, frame[t])

PassInv == RecordsHeeded /\ CallsInformed /\ PassSweeps

\* At the start no entry is sent, no call is under way and no pass runs.
LEMMA InitSwept == Init => PassInv
  <1> SUFFICES ASSUME Init PROVE PassInv
    OBVIOUS
  <1>1. \A t \in Tasks : frame[t].pc = "idle" /\ frame[t].s = NoOne /\ frame[t].then = "end"
    BY DEF Init, IdleFrame
  <1>2. \A s \in Setups : rec[s].state = "NONE" /\ Over(ex[s])
    BY DEF Init, NewRecord, Over
  <1>3. RecordsHeeded
    BY <1>2 DEF RecordsHeeded, Heeded, RestingStates
  <1>4. CallsInformed /\ PassSweeps
    BY <1>1, ConstantsAssumption DEF CallsInformed, PassSweeps, Sweeps, InPass
  <1> QED
    BY <1>3, <1>4 DEF PassInv

\* A frame that is no part of a pass sweeps nothing.
LEMMA OutsideSweeps ==
    ASSUME NEW a, NEW R, NEW v, NEW f, f.pc \notin PassPcs,
           f.then \notin {"recCheck", "recDone"}
    PROVE  Sweeps(a, R, v, f)
  BY DEF Sweeps, InPass, PassPcs

\* A pass at work on s may change the record of s, and archive it when the
\* snapshot has no position of it.
LEMMA SweptOn ==
    ASSUME NEW a, NEW R, NEW v, NEW s \in Setups, Swept(a, R, v, s),
           NEW b, NEW Q, \A x \in v.claimed \ {s} : Q[x] = R[x],
           b = a \/ (b = a \ {s} /\ v.pos[s] = 0)
    PROVE  Swept(b, Q, v, s)
  BY DEF Swept, Agrees

-----------------------------------------------------------------------------
(* A step of the manager, seen from a pass *)

Passed(t, s) ==
    \E r, g :
        /\ SetRec(s, r)
        /\ Step(t, g)
        /\ g.s \in {s, NoOne}
        /\ Heeded(ex[s], r, g.pc # "post" \/ g.s # s)
        /\ g.s = s => Informed(ex[s], r, g)
        /\ Sweeps(active', rec', survey', g)

\* A step of the one call there is keeps the invariant when the record it
\* writes and the frame it leaves do.
LEMMA PassedKept ==
    ASSUME TypeInv, ShieldInv, PassInv, NEW t \in Tasks, NEW s \in Setups,
           Alone(t), frame[t].s \in {s, NoOne}, Passed(t, s), UNCHANGED ex
    PROVE  PassInv'
  <1>1. PICK r, g :
            /\ SetRec(s, r)
            /\ Step(t, g)
            /\ g.s \in {s, NoOne}
            /\ Heeded(ex[s], r, g.pc # "post" \/ g.s # s)
            /\ g.s = s => Informed(ex[s], r, g)
            /\ Sweeps(active', rec', survey', g)
    BY DEF Passed
  <1>2. rec'[s] = r /\ \A x \in Setups \ {s} : rec'[x] = rec[x]
    BY <1>1 DEF SetRec, TypeInv
  <1>3. frame'[t] = g /\ \A u \in Tasks \ {t} : frame'[u] = frame[u]
    BY <1>1 DEF Step, TypeInv
  <1>4. \A u \in Tasks \ {t} : frame[u].pc = "idle" /\ frame[u].s = NoOne
    BY DEF Alone, ShieldInv, WorkNamesSetup, SetupPcs
  <1>5. RecordsHeeded'
    <2> SUFFICES ASSUME NEW x \in Setups PROVE Heeded(ex'[x], rec'[x], Submitted(x)')
      BY DEF RecordsHeeded
    <2>1. CASE x = s
      <3>1. Submitted(s)' <=> (g.pc # "post" \/ g.s # s)
        BY <1>3, <1>4 DEF Submitted
      <3> QED
        BY <1>1, <1>2, <2>1, <3>1 DEF Heeded
    <2>2. CASE x # s
      <3>1. Heeded(ex[x], rec[x], Submitted(x))
        BY DEF PassInv, RecordsHeeded
      <3>2. Submitted(x)
        BY <1>4, <2>2, ConstantsAssumption DEF Submitted
      <3> QED
        BY <1>2, <2>2, <3>1, <3>2 DEF Heeded
    <2> QED
      BY <2>1, <2>2
  <1>6. CallsInformed'
    BY <1>1, <1>2, <1>3, <1>4, ConstantsAssumption DEF CallsInformed
  <1>7. PassSweeps'
    <2> SUFFICES ASSUME NEW u \in Tasks \ {t}
                 PROVE  Sweeps(active', rec', survey', frame'[u])
      BY <1>1, <1>3 DEF PassSweeps
    <2>1. Sweeps(active, rec, survey, frame[u]) /\ frame[u].pc = "idle"
      BY <1>4 DEF PassInv, PassSweeps
    <2>2. frame[u].then \notin {"recCheck", "recDone"} /\ frame[u].pc \notin PassPcs
      BY <2>1 DEF Sweeps, Protecting, PassPcs
    <2> QED
      BY <1>3, <2>2, OutsideSweeps
  <1> QED
    BY <1>5, <1>6, <1>7 DEF PassInv

\* A call that works for no setup and leaves the records alone.
LEMMA IdlingPassed ==
    ASSUME TypeInv, ShieldInv, PassInv, NEW t \in Tasks, Alone(t), frame[t].s = NoOne,
           NEW g, g.s = NoOne, Step(t, g), UNCHANGED <<rec, ex>>,
           Sweeps(active', rec', survey', g)
    PROVE  PassInv'
  <1>1. frame'[t] = g /\ \A u \in Tasks \ {t} : frame'[u] = frame[u]
    BY DEF Step, TypeInv
  <1>2. \A u \in Tasks \ {t} : frame[u].pc = "idle" /\ frame[u].s = NoOne
    BY DEF Alone, ShieldInv, WorkNamesSetup, SetupPcs
  <1>3. \A s \in Setups : Submitted(s)
    BY <1>2, ConstantsAssumption DEF Submitted
  <1>4. RecordsHeeded'
    BY <1>3 DEF PassInv, RecordsHeeded, Heeded
  <1>5. CallsInformed'
    BY <1>1, <1>2, ConstantsAssumption DEF CallsInformed
  <1>6. PassSweeps'
    <2> SUFFICES ASSUME NEW u \in Tasks \ {t}
                 PROVE  Sweeps(active', rec', survey', frame'[u])
      BY <1>1 DEF PassSweeps
    <2>1. Sweeps(active, rec, survey, frame[u]) /\ frame[u].pc = "idle"
      BY <1>2 DEF PassInv, PassSweeps
    <2>2. frame[u].then \notin {"recCheck", "recDone"} /\ frame[u].pc \notin PassPcs
      BY <2>1 DEF Sweeps, Protecting, PassPcs
    <2> QED
      BY <1>1, <2>2, OutsideSweeps
  <1> QED
    BY <1>4, <1>5, <1>6 DEF PassInv

\* A fill observation that works inside a pass, or outside one.
InsidePass(f) == f.then \in {"recCheck", "recDone"}

\* Protection is at work: the call is where it was, in a pass or not.
LEMMA ProtectingPassed ==
    ASSUME NEW t \in Tasks, NEW s \in Setups, NEW r, NEW g, SetRec(s, r), Step(t, g),
           g.pc \in Protecting, g.s = s, Heeded(ex[s], r, TRUE),
           InsidePass(g) => Swept(active', rec', survey', s),
           g.then = "recDone" => g.goal = survey'.pos[s]
    PROVE  Passed(t, s)
  <1>1. Informed(ex[s], r, g) /\ g.pc # "post"
    BY DEF Informed, Protecting, Closers
  <1>2. Sweeps(active', rec', survey', g)
    BY DEF Sweeps, InPass, InsidePass, Protecting
  <1> QED
    BY <1>1, <1>2 DEF Passed

\* A fill observation goes back to where it came from.
LEMMA BackPassed ==
    ASSUME TypeInv, NEW t \in Tasks, NEW f \in Frames, f.s \in Setups, NEW r,
           SetRec(f.s, r), Step(t, Back(f)), Heeded(ex[f.s], r, TRUE),
           InsidePass(f) => Swept(active', rec', survey', f.s),
           f.then = "recCheck" => survey'.pos[f.s] = 0 \/ r.filled > 0,
           f.then = "recDone" /\ r.state = "PROTECTED_POSITION" =>
               Agrees(survey', f.s, r)
    PROVE  Passed(t, f.s)
  <1> DEFINE g == Back(f)
  <1>1. /\ f.then \in {"end", "apply"} => g.pc = "idle" /\ g.s = NoOne
        /\ f.then \notin {"end", "apply"} => g.pc = f.then /\ g.s = f.s
        /\ g.then = "end"
        /\ f.then \in {"end", "apply", "recCheck", "recDone"}
    BY DEF Back, IdleFrame, Frames
  <1>2. rec'[f.s] = r
    BY DEF SetRec, TypeInv
  <1> HIDE DEF g
  <1>3. Informed(ex[f.s], r, g) /\ g.pc # "post" /\ g.s \in {f.s, NoOne}
    BY <1>1 DEF Informed, Closers
  <1>4. Sweeps(active', rec', survey', g)
    BY <1>1, <1>2 DEF Sweeps, InPass, InsidePass, Protecting
  <1>5. Step(t, g)
    BY DEF g
  <1> QED
    BY <1>3, <1>4, <1>5 DEF Passed

\* _ensure_bracket_protection begins.
LEMMA BeginProtectionPassed ==
    ASSUME NEW t \in Tasks, NEW f \in Frames, f.s \in Setups, NEW r \in Records,
           r.filled > 0, NEW goal \in Amounts, BeginProtection(t, f, r, goal),
           InsidePass(f) => Swept(active', rec', survey', f.s),
           f.then = "recDone" => goal = survey'.pos[f.s]
    PROVE  Passed(t, f.s)
  <1> DEFINE p == [r EXCEPT !.state = "PROTECTION_PENDING"]
             h == [f EXCEPT !.goal = goal, !.stale = FALSE]
             role == IF r.sl # 0 THEN "sl" ELSE "tp"
             direct == r.protected = goal \/ (r.sl = 0 /\ r.tp = 0)
             g == IF direct THEN AdoptOrPlace(h, r) ELSE CancelLegOf(h, r, role)
  <1>1. p.filled = r.filled /\ p.state = "PROTECTION_PENDING"
    BY DEF Records
  <1>2. SetRec(f.s, p) /\ Step(t, Asking(g))
    BY DEF BeginProtection, Await, Asking
  <1>3. /\ h \in Frames /\ h.s = f.s /\ h.goal = goal /\ h.then = f.then
        /\ role \in Roles /\ r[role] \in 0..MaxLegs
    BY DEF Frames, Roles, Records
  <1> HIDE DEF p, h, role
  <1>4. /\ g \in Frames /\ g.s = f.s /\ g.goal = goal /\ g.then = f.then
        /\ g.pc \in Protecting
    BY <1>3 DEF AdoptOrPlace, CancelLegOf, Frames, Protecting, AwaitPcs, Roles
  <1> HIDE DEF g
  <1>5. /\ Asking(g).s = f.s /\ Asking(g).goal = goal /\ Asking(g).then = f.then
        /\ Asking(g).pc \in Protecting
    BY <1>4, AskingKeeps
  <1>6. Heeded(ex[f.s], p, TRUE)
    BY <1>1 DEF Heeded, RestingStates
  <1> QED
    BY <1>2, <1>5, <1>6, ProtectingPassed DEF InsidePass

\* on_entry_fill and on_entry_partial_fill
LEMMA OnFillPassed ==
    ASSUME TypeInv, NEW t \in Tasks, NEW f \in Frames, f.s \in Setups,
           f.then # "recDone", NEW r \in Records, r.entryId, Heeded(ex[f.s], r, TRUE),
           NEW size \in Amounts, size > 0, NEW full \in BOOLEAN,
           InsidePass(f) =>
               Swept(active, rec, survey, f.s) /\ r.state \in RestingStates,
           OnFill(t, f, r, size, full), UNCHANGED <<active, survey>>
    PROVE  Passed(t, f.s)
  <1> DEFINE known == Larger(r.filled, size)
             now == [r EXCEPT !.filled = known,
                              !.state = IF full THEN "ENTRY_FILLED"
                                        ELSE "ENTRY_PARTIALLY_FILLED"]
  <1>1. r.filled \in Nat /\ r.protected \in Nat /\ size \in Nat
    BY Bounds DEF Records
  <1>2. known \in Amounts /\ known > 0
    BY <1>1 DEF Larger, Records
  <1>3. now \in Records /\ now.filled = known /\ now.entryId
    <2> HIDE DEF known
    <2> QED
      BY <1>2 DEF Records, States, RestingStates
  <1>4. \/ /\ f.s \notin active \/ IgnoreFill(r, size)
           /\ Return(t, f, r)
        \/ Return(t, f, now)
        \/ BeginProtection(t, f, now, known)
    BY DEF OnFill
  <1> HIDE DEF known, now
  <1>5. Heeded(ex[f.s], now, TRUE)
    BY <1>2, <1>3, <1>1 DEF Heeded
  <1>6. ASSUME NEW q, SetRec(f.s, q), InsidePass(f)
        PROVE  Swept(active', rec', survey', f.s)
    <2>1. \A x \in survey.claimed \ {f.s} : rec'[x] = rec[x]
      BY <1>6 DEF SetRec, TypeInv, Surveys
    <2> QED
      BY <1>6, <2>1, SweptOn
  <1>7. CASE (f.s \notin active \/ IgnoreFill(r, size)) /\ Return(t, f, r)
    <2>1. f.then = "recCheck" => survey'.pos[f.s] = 0 \/ r.filled > 0
      BY <1>7 DEF InsidePass, Swept, IgnoreFill, RestingStates, TerminalStates
    <2> QED
      BY <1>6, <1>7, <2>1, BackPassed DEF Return
  <1>8. CASE Return(t, f, now)
    BY <1>2, <1>3, <1>5, <1>6, <1>8, BackPassed DEF Return
  <1>9. CASE BeginProtection(t, f, now, known)
    <2>1. \E q : SetRec(f.s, q)
      BY <1>9 DEF BeginProtection
    <2> QED
      BY <1>2, <1>3, <1>6, <1>9, <2>1, BeginProtectionPassed
  <1> QED
    BY <1>4, <1>7, <1>8, <1>9

\* _apply_entry_order_state: in a pass it is told at least the fill that the
\* snapshot holds, outside one anything.
LEMMA ApplyEntryPassed ==
    ASSUME TypeInv, TruthInv', NEW t \in Tasks, NEW f \in Frames, f.s \in Setups,
           f.then # "recDone", NEW r \in Records, r.entryId, Heeded(ex[f.s], r, TRUE),
           NEW status, NEW size \in Amounts,
           InsidePass(f) => /\ Swept(active, rec, survey, f.s)
                            /\ r.state \in RestingStates
                            /\ survey.pos[f.s] <= size,
           ApplyEntry(t, f, r, status, size), UNCHANGED <<ex, survey>>
    PROVE  Passed(t, f.s)
  <1> DEFINE known == Larger(size, r.filled)
             q == [r EXCEPT !.state = "ENTRY_CANCELLED"]
  <1>1. /\ r.filled \in Nat /\ size \in Nat /\ survey.pos[f.s] \in Nat
        /\ r.filled \in Amounts
    BY Bounds DEF Records, TypeInv, Surveys
  <1>2. known \in Amounts /\ known \in Nat /\ size <= known /\ r.filled <= known
    BY <1>1 DEF Larger
  <1>3. known = size \/ known = r.filled
    BY DEF Larger
  <1>4. \/ /\ Ignorable(r, status, known)
           /\ SetRec(f.s, r) /\ Step(t, Back(f)) /\ UNCHANGED active
        \/ /\ known = 0 /\ SetRec(f.s, q) /\ active' = active \ {f.s}
           /\ Step(t, Back(f))
        \/ /\ known # 0 /\ UNCHANGED active
           /\ OnFill(t, f, r, known, status = "filled" \/ known >= Qty)
    BY DEF ApplyEntry, Finalize
  <1> HIDE DEF known
  <1>5. CASE /\ Ignorable(r, status, known)
             /\ SetRec(f.s, r) /\ Step(t, Back(f)) /\ UNCHANGED active
    <2>1. \A x \in survey.claimed \ {f.s} : rec'[x] = rec[x]
      BY <1>5 DEF SetRec, TypeInv, Surveys
    <2>2. InsidePass(f) => Swept(active', rec', survey', f.s)
      BY <1>5, <2>1, SweptOn
    <2>3. f.then = "recCheck" => survey'.pos[f.s] = 0 \/ r.filled > 0
      <3> SUFFICES ASSUME f.then = "recCheck", survey.pos[f.s] # 0
                   PROVE  r.filled > 0
        OBVIOUS
      <3>1. r.state \notin TerminalStates /\ survey.pos[f.s] <= size
        BY DEF InsidePass, RestingStates, TerminalStates
      <3>2. known > 0
        BY <1>1, <1>2, <3>1
      <3>3. NothingNew(r, known)
        BY <1>5, <3>1, <3>2, <1>2 DEF Ignorable
      <3> QED
        BY <3>2, <3>3 DEF NothingNew
    <2> QED
      BY <1>5, <2>2, <2>3, BackPassed
  <1>6. CASE /\ known = 0 /\ SetRec(f.s, q) /\ active' = active \ {f.s}
             /\ Step(t, Back(f))
    <2>1. q.state = "ENTRY_CANCELLED" /\ q.filled = r.filled
      BY DEF Records
    <2>2. rec'[f.s] = q /\ \A x \in survey.claimed \ {f.s} : rec'[x] = rec[x]
      BY <1>6 DEF SetRec, TypeInv, Surveys
    <2>3. Over(ex[f.s])
      <3>1. TrueRecord(f.s, rec[f.s])'
        BY DEF TruthInv, RecordsTrue
      <3> QED
        BY <2>1, <2>2, <3>1 DEF TrueRecord, Verdicts, Unfilled, Over
    <2>4. Heeded(ex[f.s], q, TRUE)
      BY <2>1, <2>3 DEF Heeded, RestingStates
    <2>5. InsidePass(f) => survey.pos[f.s] = 0
      BY <1>1, <1>2, <1>6
    <2>6. InsidePass(f) => Swept(active', rec', survey', f.s)
      BY <1>6, <2>2, <2>5, SweptOn
    <2> HIDE DEF q
    <2> QED
      BY <1>6, <2>1, <2>4, <2>5, <2>6, BackPassed DEF InsidePass
  <1>7. CASE /\ known # 0 /\ UNCHANGED active
             /\ OnFill(t, f, r, known, status = "filled" \/ known >= Qty)
    <2>1. known > 0 /\ (status = "filled" \/ known >= Qty) \in BOOLEAN
      BY <1>2, <1>7
    <2> QED
      BY <1>2, <1>7, <2>1, OnFillPassed
  <1> QED
    BY <1>4, <1>5, <1>6, <1>7

-----------------------------------------------------------------------------
(* Calls outside a pass *)

\* When a call begins, every submission has returned.
LEMMA BeginHeeded ==
    ASSUME ~Overlap, ShieldInv, PassInv, NEW t \in Tasks, NEW op, Begin(t, op)
    PROVE  /\ Alone(t) /\ frame[t].s = NoOne /\ frame[t].pc = "idle"
           /\ frame[t].then \notin {"recCheck", "recDone"}
           /\ \A s \in Setups : Heeded(ex[s], rec[s], TRUE)
  <1>1. \A u \in Tasks : frame[u].pc = "idle"
    BY DEF Begin, Idle
  <1>2. \A s \in Setups : Submitted(s)
    BY <1>1 DEF Submitted
  <1>3. Sweeps(active, rec, survey, frame[t])
    BY DEF PassInv, PassSweeps
  <1> QED
    BY <1>1, <1>2, <1>3, BeginAlone DEF PassInv, RecordsHeeded, Sweeps, Protecting

\* What holds of a call that is suspended at a setup, and of its record.
LEMMA AtWorkHeeded ==
    ASSUME TypeInv, ShieldInv, PassInv, NEW t \in Tasks, frame[t].pc \in SetupPcs
    PROVE  /\ Heeded(ex[frame[t].s], rec[frame[t].s], frame[t].pc # "post")
           /\ Informed(ex[frame[t].s], rec[frame[t].s], frame[t])
           /\ Sweeps(active, rec, survey, frame[t])
  <1>1. /\ frame[t].s \in Setups
        /\ \A u \in Tasks \ {t} : frame[u].pc = "idle"
    BY AtWork DEF Alone
  <1>2. frame[t].pc # "post" => Submitted(frame[t].s)
    BY <1>1 DEF Submitted
  <1> QED
    BY <1>1, <1>2
       DEF PassInv, RecordsHeeded, CallsInformed, PassSweeps, Heeded

\* A record may leave the resting states when its entry is over or it holds
\* fills.
LEMMA StateHeeded ==
    ASSUME NEW o, NEW r \in Records, Heeded(o, r, FALSE), NEW state,
           state \notin RestingStates,
           r.filled > 0 \/ r.state \notin RestingStates \/ Over(o)
    PROVE  Heeded(o, [r EXCEPT !.state = state], TRUE)
  <1>1. [r EXCEPT !.state = state].state = state /\ [r EXCEPT !.state = state].filled = r.filled
    BY DEF Records
  <1>2. r.filled \in Nat
    BY Bounds DEF Records
  <1> QED
    BY <1>1, <1>2 DEF Heeded

\* A step that leaves a call outside a pass need not look at the snapshot.
LEMMA OutsidePassed ==
    ASSUME NEW t \in Tasks, NEW s \in Setups, NEW r, NEW g, SetRec(s, r), Step(t, g),
           g.s \in {s, NoOne}, Heeded(ex[s], r, g.pc # "post" \/ g.s # s),
           g.s = s => Informed(ex[s], r, g), g.pc \notin PassPcs,
           g.then \notin {"recCheck", "recDone"}
    PROVE  Passed(t, s)
  BY OutsideSweeps DEF Passed

\* A call ends with its record written.
LEMMA StopPassed ==
    ASSUME NEW t \in Tasks, NEW s \in Setups, NEW r, SetRec(s, r), Stop(t),
           Heeded(ex[s], r, TRUE)
    PROVE  Passed(t, s)
  <1>1. /\ IdleFrame.pc = "idle" /\ IdleFrame.s = NoOne /\ IdleFrame.then = "end"
        /\ Step(t, IdleFrame)
    BY DEF IdleFrame, Stop
  <1> QED
    BY <1>1, ConstantsAssumption, OutsidePassed DEF PassPcs

\* A step that writes a record and leaves an idle task idle.
LEMMA WrittenPassed ==
    ASSUME TypeInv, NEW t \in Tasks, NEW s \in Setups, NEW r, SetRec(s, r),
           UNCHANGED frame, frame[t].pc = "idle", frame[t].s = NoOne,
           frame[t].then \notin {"recCheck", "recDone"}, Heeded(ex[s], r, TRUE)
    PROVE  Passed(t, s)
  <1>1. Step(t, frame[t])
    BY DEF Step, TypeInv
  <1> QED
    BY <1>1, ConstantsAssumption, OutsidePassed DEF PassPcs

\* A call suspends at a setup with no record written.
LEMMA AskingPassed ==
    ASSUME TypeInv, NEW t \in Tasks, NEW g \in Frames, g.s \in Setups, Await(t, g),
           SetRec(g.s, rec[g.s]), Heeded(ex[g.s], rec[g.s], TRUE), g.pc # "post",
           Informed(ex[g.s], rec[g.s], Asking(g)), g.pc \notin PassPcs,
           g.then \notin {"recCheck", "recDone"}
    PROVE  Passed(t, g.s)
  <1>1. /\ Step(t, Asking(g))
        /\ Asking(g).s = g.s /\ Asking(g).pc = g.pc /\ Asking(g).then = g.then
    BY AskingKeeps DEF Await, Asking
  <1> QED
    BY <1>1, OutsidePassed

\* An admission that is refused, or submitted.
LEMMA AdmissionPassed ==
    ASSUME ~Overlap, TruthInv, ShieldInv, PassInv, NEW t \in Tasks, NEW s \in Setups,
           RefuseAtGateway(t, s) \/ Submit(t, s)
    PROVE  Passed(t, s)
  <1>1. /\ frame[t].s = NoOne /\ frame[t].pc = "idle"
        /\ frame[t].then \notin {"recCheck", "recDone"}
        /\ Heeded(ex[s], rec[s], TRUE) /\ rec[s].state = "NONE"
    BY BeginHeeded DEF RefuseAtGateway, Submit, Admissible
  <1>2. TypeInv /\ rec[s] \in Records
    BY TruthTypes DEF TypeInv, GoodRecords
  <1>3. CASE RefuseAtGateway(t, s)
    <2>1. Heeded(ex[s], [rec[s] EXCEPT !.state = "ENTRY_REJECTED"], TRUE)
      BY <1>1, <1>2, StateHeeded DEF RestingStates, Heeded
    <2> QED
      BY <1>1, <1>2, <1>3, <2>1, WrittenPassed DEF RefuseAtGateway
  <1>4. CASE Submit(t, s)
    <2> DEFINE r == [rec[s] EXCEPT !.state = "ENTRY_SUBMITTED"]
               g == [IdleFrame EXCEPT !.pc = "post", !.s = s]
    <2>1. SetRec(s, r) /\ Step(t, Asking(g))
      BY <1>4 DEF Submit, Await, Asking
    <2>2. g \in Frames /\ g.pc = "post" /\ g.s = s /\ g.then = "end"
      BY IdleIsLoose DEF Frames, AwaitPcs, IdleFrame
    <2>3. r.state = "ENTRY_SUBMITTED"
      BY <1>2 DEF Records
    <2> HIDE DEF g, r
    <2>4. /\ Asking(g).pc = "post" /\ Asking(g).s = s /\ Asking(g).then = "end"
          /\ Asking(g).reply = "wait"
      BY <2>2, AskingKeeps
    <2>5. Heeded(ex[s], r, FALSE) /\ Informed(ex[s], r, Asking(g))
      BY <2>3, <2>4 DEF Heeded, RestingStates, Informed, Closers
    <2> QED
      BY <2>1, <2>4, <2>5, OutsidePassed DEF PassPcs
  <1> QED
    BY <1>3, <1>4

\* The id of an entry is learnt.
LEMMA IdHeeded ==
    ASSUME NEW o, NEW r \in Records, Heeded(o, r, FALSE), NEW b \in BOOLEAN,
           r.state \in RestingStates => b
    PROVE  /\ [r EXCEPT !.entryId = b] \in Records
           /\ [r EXCEPT !.entryId = b].entryId = b
           /\ [r EXCEPT !.entryId = b].state = r.state
           /\ [r EXCEPT !.entryId = b].filled = r.filled
           /\ Heeded(o, [r EXCEPT !.entryId = b], TRUE)
  BY DEF Records, Heeded

\* The answer to the submission: on a reliable network it is never lost.
LEMMA ResumePostPassed ==
    ASSUME TruthInv, ShieldInv, PassInv, NEW t \in Tasks, ResumePost(t)
    PROVE  Passed(t, frame[t].s)
  <1> DEFINE f == frame[t]
             r == [rec[f.s] EXCEPT !.entryId = TRUE]
             q == [rec[f.s] EXCEPT !.state = "ENTRY_REJECTED"]
  <1>1. TypeInv /\ f.pc = "post" /\ UNCHANGED survey
    BY TruthTypes DEF ResumePost, Resume
  <1>2. /\ f \in Frames /\ f.s \in Setups /\ rec[f.s] \in Records
        /\ f.amt \in Amounts /\ f.amt \in Nat
    BY <1>1, AtWork, TruthTypes DEF SetupPcs
  <1>3. /\ Heeded(ex[f.s], rec[f.s], FALSE)
        /\ Informed(ex[f.s], rec[f.s], f)
        /\ Sweeps(active, rec, survey, f)
    BY <1>1, AtWorkHeeded DEF SetupPcs
  <1>4. f.then \notin {"recCheck", "recDone"} /\ f.reply \notin {"timeout", "error"}
    BY <1>1, <1>3 DEF Sweeps, Informed, Protecting
  <1>5. \/ SetRec(f.s, r) /\ Stop(t)
        \/ /\ f.amt # 0 /\ OnFill(t, f, r, f.amt, f.reply = "filled")
           /\ UNCHANGED active
        \/ f.reply = "rejected" /\ SetRec(f.s, q) /\ Stop(t)
    BY <1>4 DEF ResumePost, SubmitAccepted, SubmitRejected, SubmitUnknown
  <1>6. f.reply = "rejected" => Over(ex[f.s])
    <2> SUFFICES ASSUME f.reply = "rejected" PROVE Over(ex[f.s])
      OBVIOUS
    <2>1. Untouched(f.s)
      BY <1>1 DEF TruthInv, LockInv, UnansweredIsUntouched, Submitting
    <2> QED
      BY <1>2, <2>1 DEF Untouched, TruthInv, NothingFilled, Over
  <1>7. /\ r \in Records /\ r.entryId /\ Heeded(ex[f.s], r, TRUE)
    BY <1>2, <1>3, IdHeeded
  <1>8. f.reply = "rejected" => Heeded(ex[f.s], q, TRUE)
    BY <1>2, <1>3, <1>6, StateHeeded DEF RestingStates
  <1> HIDE DEF f, r, q
  <1>9. ASSUME SetRec(f.s, r), Stop(t)
        PROVE  Passed(t, f.s)
    BY <1>2, <1>7, <1>9, StopPassed
  <1>10. ASSUME f.amt # 0, OnFill(t, f, r, f.amt, f.reply = "filled"), UNCHANGED active
         PROVE  Passed(t, f.s)
    <2>1. f.amt > 0 /\ (f.reply = "filled") \in BOOLEAN
      BY <1>2, <1>10
    <2> QED
      BY <1>1, <1>2, <1>4, <1>7, <1>10, <2>1, OnFillPassed DEF InsidePass
  <1>11. ASSUME f.reply = "rejected", SetRec(f.s, q), Stop(t)
         PROVE  Passed(t, f.s)
    BY <1>2, <1>8, <1>11, StopPassed
  <1>12. Passed(t, f.s)
    BY <1>5, <1>9, <1>10, <1>11
  <1> QED
    BY <1>12 DEF f

\* What the private stream reports of an entry.
LEMMA StreamPassed ==
    ASSUME ~Overlap, TruthInv, TruthInv', ShieldInv, PassInv, NEW t \in Tasks,
           NEW s \in Setups, OrderEvent(t, s) \/ FillEvent(t, s)
    PROVE  Passed(t, s)
  <1>1. Heeded(ex[s], rec[s], TRUE)
    BY BeginHeeded DEF OrderEvent, FillEvent
  <1>2. TypeInv /\ rec[s] \in Records /\ ex[s].got \in Amounts
    BY TruthTypes DEF TypeInv, GoodRecords
  <1> DEFINE f == StreamFrame(s)
             r == [rec[s] EXCEPT !.entryId = TRUE]
  <1>3. f \in Frames /\ f.s = s /\ f.then = "apply"
    BY IdleIsLoose DEF StreamFrame, Frames
  <1>4. /\ r \in Records /\ r.entryId /\ Heeded(ex[s], r, TRUE)
    <2>1. Heeded(ex[s], rec[s], FALSE)
      BY <1>1 DEF Heeded
    <2> QED
      BY <1>2, <2>1, IdHeeded
  <1>5. \A n \in 0..ex[s].got : n \in Amounts
    BY <1>2, ConstantsAssumption DEF Amounts
  <1>6. UNCHANGED <<ex, survey>>
    BY DEF OrderEvent, FillEvent, exchangeVars
  <1> HIDE DEF f, r
  <1>7. CASE OrderEvent(t, s)
    <2>1. PICK e \in Reports(s) : ApplyEntry(t, f, r, e.status, e.size)
      BY <1>7 DEF OrderEvent, f, r
    <2>2. ex[s].got \in Nat
      BY <1>2, Bounds
    <2>4. ex[s].got \in 0..ex[s].got
      BY <2>2
    <2>3. e.size \in Amounts
      BY <1>5, <2>4 DEF Reports
    <2> QED
      BY <1>2, <1>3, <1>4, <1>6, <2>1, <2>3, ApplyEntryPassed DEF InsidePass
  <1>8. CASE FillEvent(t, s)
    <2>1. PICK n \in 1..ex[s].got : ApplyEntry(t, f, rec[s], "unstated", n)
      BY <1>8 DEF FillEvent, f
    <2>2. n \in Amounts /\ rec[s].entryId
      BY <1>2, <1>5, <1>8, Bounds DEF FillEvent
    <2> QED
      BY <1>1, <1>2, <1>3, <1>6, <2>1, <2>2, ApplyEntryPassed DEF InsidePass
  <1> QED
    BY <1>7, <1>8

\* A closure is reported, or not believed.
LEMMA ClosureEventPassed ==
    ASSUME ~Overlap, TruthInv, ShieldInv, PassInv, NEW t \in Tasks, NEW s \in Setups,
           ClosureEvent(t, s)
    PROVE  Passed(t, s)
  <1>1. /\ frame[t].s = NoOne /\ frame[t].pc = "idle"
        /\ frame[t].then \notin {"recCheck", "recDone"}
        /\ Heeded(ex[s], rec[s], TRUE) /\ rec[s].filled > 0
    BY BeginHeeded DEF ClosureEvent
  <1>2. TypeInv /\ rec[s] \in Records
    BY TruthTypes DEF TypeInv, GoodRecords
  <1> DEFINE r == [rec[s] EXCEPT !.state = "RECONCILIATION_REQUIRED"]
             g == [IdleFrame EXCEPT !.pc = "balance", !.s = s]
  <1>3. \/ Await(t, g) /\ UNCHANGED rec
        \/ SetRec(s, r) /\ UNCHANGED frame
    BY DEF ClosureEvent
  <1>4. CASE Await(t, g) /\ UNCHANGED rec
    <2>1. g \in Frames /\ g.pc = "balance" /\ g.s = s /\ g.then = "end"
      BY IdleIsLoose DEF Frames, AwaitPcs, IdleFrame
    <2> HIDE DEF g
    <2>2. Informed(ex[s], rec[s], Asking(g))
      BY <1>1, <2>1, AskingKeeps DEF Informed
    <2> QED
      BY <1>1, <1>2, <1>4, <2>1, <2>2, SameRecWritten, AskingPassed DEF PassPcs
  <1>5. CASE SetRec(s, r) /\ UNCHANGED frame
    <2>1. Heeded(ex[s], r, TRUE)
      BY <1>1, <1>2, StateHeeded DEF RestingStates, Heeded
    <2> QED
      BY <1>1, <1>2, <1>5, <2>1, WrittenPassed
  <1> QED
    BY <1>3, <1>4, <1>5

\* An expiry begins: the record rests, so it knows its order and cancels it.
LEMMA ExpirePassed ==
    ASSUME ~Overlap, TruthInv, ShieldInv, PassInv, NEW t \in Tasks, NEW s \in Setups,
           Expire(t, s)
    PROVE  Passed(t, s)
  <1>1. Heeded(ex[s], rec[s], TRUE) /\ rec[s].state \in RestingStates
    BY BeginHeeded DEF Expire
  <1>2. TypeInv /\ UNCHANGED rec
    BY TruthTypes DEF Expire, engineVars
  <1> DEFINE g == [IdleFrame EXCEPT !.s = s, !.then = "apply", !.pc = "expCancel"]
  <1>3. Await(t, g)
    BY <1>1 DEF Expire, Heeded
  <1>4. g \in Frames /\ g.pc = "expCancel" /\ g.s = s /\ g.then = "apply"
    BY IdleIsLoose DEF Frames, AwaitPcs, IdleFrame
  <1> HIDE DEF g
  <1>5. Informed(ex[s], rec[s], Asking(g))
    BY <1>1, <1>4, AskingKeeps DEF Informed, Heeded, Closers
  <1> QED
    BY <1>1, <1>2, <1>3, <1>4, <1>5, SameRecWritten, AskingPassed DEF PassPcs

\* An expiry goes on to read the order whatever its cancel was answered: the
\* entry no longer rests by then.
LEMMA ResumeExpireCancelPassed ==
    ASSUME TypeInv, ShieldInv, PassInv, NEW t \in Tasks, ResumeExpireCancel(t)
    PROVE  Passed(t, frame[t].s)
  <1> DEFINE f == frame[t]
             g == [f EXCEPT !.pc = "expGet"]
  <1>1. /\ f.pc = "expCancel" /\ f.reply # "wait" /\ Await(t, g) /\ UNCHANGED rec
    BY DEF ResumeExpireCancel, Resume, engineVars
  <1>2. f \in Frames /\ f.s \in Setups /\ rec[f.s] \in Records
    BY <1>1, AtWork DEF SetupPcs
  <1>3. /\ Heeded(ex[f.s], rec[f.s], TRUE) /\ Informed(ex[f.s], rec[f.s], f)
        /\ Sweeps(active, rec, survey, f)
    BY <1>1, AtWorkHeeded DEF SetupPcs
  <1> HIDE DEF f
  <1>4. g \in Frames /\ g.pc = "expGet" /\ g.s = f.s /\ g.then = f.then
    BY <1>2 DEF Frames, AwaitPcs
  <1> HIDE DEF g
  <1>5. Informed(ex[f.s], rec[f.s], Asking(g))
    BY <1>1, <1>3, <1>4, AskingKeeps DEF Informed, Closers
  <1>6. g.then \notin {"recCheck", "recDone"}
    BY <1>1, <1>3, <1>4 DEF Sweeps, Protecting
  <1>7. Passed(t, f.s)
    BY <1>1, <1>2, <1>3, <1>4, <1>5, <1>6, SameRecWritten, AskingPassed DEF PassPcs
  <1> QED
    BY <1>7 DEF f

\* The order read after the cancel tells all that the entry ever got.
LEMMA ResumeExpireGetPassed ==
    ASSUME TruthInv, TruthInv', ShieldInv, PassInv, NEW t \in Tasks, ResumeExpireGet(t)
    PROVE  Passed(t, frame[t].s)
  <1> DEFINE f == frame[t]
             b == rec[f.s].entryId \/ f.reply \notin {"error", "missing"}
             r == [rec[f.s] EXCEPT !.entryId = b]
  <1>1. /\ TypeInv /\ f.pc = "expGet" /\ f.reply # "wait" /\ UNCHANGED <<ex, survey>>
    BY TruthTypes DEF ResumeExpireGet, Resume, exchangeVars
  <1>2. f \in Frames /\ f.s \in Setups /\ rec[f.s] \in Records /\ f.amt \in Amounts
    BY <1>1, AtWork, TruthTypes DEF SetupPcs
  <1>3. /\ Heeded(ex[f.s], rec[f.s], TRUE) /\ Informed(ex[f.s], rec[f.s], f)
        /\ Sweeps(active, rec, survey, f)
    BY <1>1, AtWorkHeeded DEF SetupPcs
  <1>4. /\ ex[f.s].entry # "open" /\ f.amt = ex[f.s].got
        /\ f.then \notin {"recCheck", "recDone"}
    BY <1>1, <1>3 DEF Informed, Sweeps, Protecting
  <1>5. \/ f.amt > 0 /\ ApplyEntry(t, f, r, f.reply, f.amt)
        \/ /\ ~(f.amt > 0)
           /\ \E state \in {"ENTRY_TIMEOUT", "RECONCILIATION_REQUIRED"} :
                 SetRec(f.s, [r EXCEPT !.state = state]) /\ Stop(t)
    BY DEF ResumeExpireGet, Finalize, Unverified
  <1>6. rec[f.s].entryId = TRUE
    BY <1>1, <1>2, <1>3 DEF Records, Informed
  <1>7. b = TRUE
    BY <1>6
  <1>8. Heeded(ex[f.s], rec[f.s], FALSE)
    BY <1>3 DEF Heeded
  <1> HIDE DEF b, f
  <1>9. /\ r \in Records /\ r.entryId /\ Heeded(ex[f.s], r, TRUE)
    BY <1>2, <1>7, <1>8, IdHeeded
  <1> HIDE DEF r
  <1>10. ASSUME f.amt > 0, ApplyEntry(t, f, r, f.reply, f.amt)
         PROVE  Passed(t, f.s)
    BY <1>1, <1>2, <1>4, <1>9, <1>10, ApplyEntryPassed DEF InsidePass
  <1>11. ASSUME ~(f.amt > 0), NEW state \in {"ENTRY_TIMEOUT", "RECONCILIATION_REQUIRED"},
                SetRec(f.s, [r EXCEPT !.state = state]), Stop(t)
         PROVE  Passed(t, f.s)
    <2>1. Over(ex[f.s])
      BY <1>2, <1>4, <1>11, Bounds DEF Over
    <2>2. Heeded(ex[f.s], [r EXCEPT !.state = state], TRUE)
      BY <1>9, <2>1, StateHeeded DEF RestingStates, Heeded
    <2> QED
      BY <1>2, <1>11, <2>2, StopPassed
  <1>12. Passed(t, f.s)
    BY <1>5, <1>10, <1>11
  <1> QED
    BY <1>12 DEF f

-----------------------------------------------------------------------------
(* Protection, in a pass or outside one *)

\* A call that sees to protection, and its record.
Guarding(f, r) ==
    /\ f \in Frames /\ f.s \in Setups /\ r \in Records
    /\ r.filled > 0 /\ r.state = "PROTECTION_PENDING"
    /\ InsidePass(f) => Swept(active, rec, survey, f.s)
    /\ f.then = "recDone" => f.goal = survey.pos[f.s]

\* What is known of a call suspended at a request of _ensure_bracket_protection.
LEMMA AtProtection ==
    ASSUME TruthInv, ShieldInv, PassInv, NEW t \in Tasks, frame[t].pc \in Protecting
    PROVE  Guarding(frame[t], rec[frame[t].s])
  <1> DEFINE f == frame[t]
  <1>1. TypeInv /\ f.pc \in SetupPcs
    BY TruthTypes DEF Protecting, SetupPcs
  <1>2. /\ f \in Frames /\ f.s \in Setups /\ rec[f.s] \in Records
        /\ Fits(leg, ex[f.s], f.s, rec[f.s], f)
    BY <1>1, AtWork
  <1>3. Sweeps(active, rec, survey, f)
    BY <1>1, AtWorkHeeded
  <1>4. f.goal > 0 /\ rec[f.s].state = "PROTECTION_PENDING"
    BY <1>2 DEF Fits, Shielded
  <1>5. f.goal <= rec[f.s].filled
    BY <1>2 DEF TruthInv, FramesTrue, TrueFrame
  <1>6. f.goal \in Nat /\ rec[f.s].filled \in Nat
    BY <1>2, Bounds DEF Frames, Records
  <1>7. rec[f.s].filled > 0
    BY <1>4, <1>5, <1>6
  <1> HIDE DEF f
  <1>8. Guarding(f, rec[f.s])
    BY <1>2, <1>3, <1>4, <1>7 DEF Guarding, Sweeps, InPass, InsidePass
  <1> QED
    BY <1>8 DEF f

\* Protection goes on to another request with its record written.
LEMMA GuardingOnPassed ==
    ASSUME TypeInv, NEW t \in Tasks, NEW f, NEW old, Guarding(f, old),
           NEW r, SetRec(f.s, r), r.filled = old.filled, r.state = old.state,
           NEW g \in Frames, Await(t, g), g.pc \in Protecting,
           g.s = f.s, g.then = f.then, g.goal = f.goal, UNCHANGED <<active, survey>>
    PROVE  Passed(t, f.s)
  <1>1. Step(t, Asking(g))
    BY DEF Await, Asking
  <1>2. /\ Asking(g).s = f.s /\ Asking(g).pc \in Protecting
        /\ Asking(g).then = f.then /\ Asking(g).goal = f.goal
    BY AskingKeeps
  <1>3. Heeded(ex[f.s], r, TRUE) /\ f.s \in Setups
    BY DEF Guarding, Heeded, RestingStates
  <1>4. \A x \in survey.claimed \ {f.s} : rec'[x] = rec[x]
    BY <1>3 DEF SetRec, TypeInv, Surveys
  <1>5. InsidePass(f) => Swept(active', rec', survey', f.s)
    BY <1>3, <1>4, SweptOn DEF Guarding
  <1> QED
    BY <1>1, <1>2, <1>3, <1>5, ProtectingPassed DEF InsidePass, Guarding

\* Protection ends and the call goes back to where it came from.
LEMMA GuardingBackPassed ==
    ASSUME TypeInv, NEW t \in Tasks, NEW f, NEW old, Guarding(f, old),
           NEW r, SetRec(f.s, r), r.filled = old.filled, r.state \notin RestingStates,
           r.state = "PROTECTED_POSITION" => BothLegs(r) /\ r.protected = f.goal,
           Step(t, Back(f)), UNCHANGED <<active, survey>>
    PROVE  Passed(t, f.s)
  <1>1. Heeded(ex[f.s], r, TRUE) /\ f.s \in Setups /\ f \in Frames /\ r.filled > 0
    <2>1. old.filled \in Nat /\ old.filled > 0
      BY Bounds DEF Guarding, Records
    <2> QED
      BY <2>1 DEF Guarding, Heeded
  <1>2. \A x \in survey.claimed \ {f.s} : rec'[x] = rec[x]
    BY <1>1 DEF SetRec, TypeInv, Surveys
  <1>3. InsidePass(f) => Swept(active', rec', survey', f.s)
    BY <1>1, <1>2, SweptOn DEF Guarding
  <1>4. f.then = "recDone" /\ r.state = "PROTECTED_POSITION" => Agrees(survey', f.s, r)
    BY DEF Guarding, Agrees
  <1> QED
    BY <1>1, <1>3, <1>4, BackPassed

\* A leg is found gone: its id is forgotten, and the other one goes or the pair
\* is sized anew.
LEMMA LegGonePassed ==
    ASSUME TypeInv, NEW t \in Tasks, NEW f, Guarding(f, rec[f.s]), LegGone(t, f),
           UNCHANGED <<active, survey>>
    PROVE  Passed(t, f.s)
  <1> DEFINE old == rec[f.s]
             r == [old EXCEPT ![f.role] = 0]
             none == [r EXCEPT !.protected = 0]
             stale == [f EXCEPT !.stale = TRUE]
             adopt == AdoptOrPlace(stale, none)
             cancel == CancelLegOf(f, r, "tp")
  <1>1. f \in Frames /\ f.s \in Setups /\ old \in Records /\ f.role \in Roles
    BY DEF Guarding, Frames
  <1>2. r \in Records /\ r.state = old.state /\ r.filled = old.filled
    BY <1>1, Bounds DEF Records, Roles
  <1>3. none \in Records /\ none.state = old.state /\ none.filled = old.filled
    <2> HIDE DEF r
    <2> QED
      BY <1>2, Bounds DEF Records
  <1>4. /\ adopt \in Frames /\ adopt.pc \in Protecting
        /\ adopt.s = f.s /\ adopt.goal = f.goal /\ adopt.then = f.then
    <2> HIDE DEF none
    <2> QED
      BY <1>1 DEF AdoptOrPlace, Frames, AwaitPcs, Roles, Protecting
  <1>5. /\ cancel \in Frames /\ cancel.pc \in Protecting
        /\ cancel.s = f.s /\ cancel.goal = f.goal /\ cancel.then = f.then
    <2>1. r.tp \in 0..MaxLegs
      BY <1>2 DEF Records
    <2> HIDE DEF r
    <2> QED
      BY <1>1, <2>1 DEF CancelLegOf, Frames, AwaitPcs, Roles, Protecting
  <1>6. \/ SetRec(f.s, r) /\ Await(t, cancel)
        \/ SetRec(f.s, none) /\ Await(t, adopt)
    BY DEF LegGone
  <1> HIDE DEF r, none, stale, adopt, cancel
  <1>7. ASSUME SetRec(f.s, r), Await(t, cancel)
        PROVE  Passed(t, f.s)
    BY <1>2, <1>5, <1>7, GuardingOnPassed
  <1>8. ASSUME SetRec(f.s, none), Await(t, adopt)
        PROVE  Passed(t, f.s)
    BY <1>3, <1>4, <1>8, GuardingOnPassed
  <1> QED
    BY <1>6, <1>7, <1>8

\* The answer to the cancel of a leg, and the verdict on a refused one.
LEMMA ResumeCancelPassed ==
    ASSUME TruthInv, ShieldInv, PassInv, NEW t \in Tasks,
           ResumeCancel(t) \/ ResumeVerify(t)
    PROVE  Passed(t, frame[t].s)
  <1> DEFINE f == frame[t]
             verify == [f EXCEPT !.pc = "verify"]
             failed == [rec[f.s] EXCEPT !.state = "PROTECTION_FAILED"]
  <1>1. /\ f.pc \in Protecting /\ UNCHANGED <<active, survey>>
        /\ \/ LegGone(t, f)
           \/ Await(t, verify) /\ UNCHANGED rec
           \/ SetRec(f.s, failed) /\ Step(t, Back(f))
    BY DEF ResumeCancel, ResumeVerify, Resume, Protecting
  <1>2. TypeInv /\ Guarding(f, rec[f.s])
    BY <1>1, TruthTypes, AtProtection
  <1> HIDE DEF f
  <1>3. /\ verify \in Frames /\ verify.pc \in Protecting
        /\ verify.s = f.s /\ verify.goal = f.goal /\ verify.then = f.then
    BY <1>2 DEF Guarding, Frames, AwaitPcs, Protecting
  <1>4. failed.filled = rec[f.s].filled /\ failed.state = "PROTECTION_FAILED"
    BY <1>2 DEF Guarding, Records
  <1> HIDE DEF verify, failed
  <1>5. ASSUME Await(t, verify), UNCHANGED rec
        PROVE  Passed(t, f.s)
    <2>1. f.s \in Setups
      BY <1>2 DEF Guarding
    <2>2. SetRec(f.s, rec[f.s])
      BY <1>2, <1>5, <2>1, SameRecWritten
    <2> QED
      BY <1>1, <1>2, <1>3, <1>5, <2>2, GuardingOnPassed
  <1>6. ASSUME SetRec(f.s, failed), Step(t, Back(f))
        PROVE  Passed(t, f.s)
    BY <1>1, <1>2, <1>4, <1>6, GuardingBackPassed DEF RestingStates
  <1>7. ASSUME LegGone(t, f)
        PROVE  Passed(t, f.s)
    BY <1>1, <1>2, <1>7, LegGonePassed
  <1>8. Passed(t, f.s)
    BY <1>1, <1>5, <1>6, <1>7
  <1> QED
    BY <1>8 DEF f

\* The echo of the attached bracket, and the list of resting orders.
LEMMA ResumeAdoptionPassed ==
    ASSUME TruthInv, ShieldInv, PassInv, NEW t \in Tasks,
           ResumeEcho(t) \/ ResumeOpenOrders(t)
    PROVE  Passed(t, frame[t].s)
  <1> DEFINE f == frame[t]
             look == [f EXCEPT !.pc = "openOrders"]
             place == [f EXCEPT !.pc = "place", !.role = "sl"]
             p(i, j) == [rec[f.s] EXCEPT !.sl = i, !.tp = j, !.protected = f.goal,
                                         !.state = "PROTECTED_POSITION"]
  <1>1. /\ f.pc \in Protecting /\ UNCHANGED <<active, survey>>
        /\ \/ Await(t, look) /\ UNCHANGED rec
           \/ Await(t, place) /\ UNCHANGED rec
           \/ \E i \in Adoptable(f, "sl"), j \in Adoptable(f, "tp") :
                  Return(t, f, p(i, j))
    BY DEF ResumeEcho, ResumeOpenOrders, Resume, Protecting, PlaceStopLoss
  <1>2. TypeInv /\ Guarding(f, rec[f.s])
    BY <1>1, TruthTypes, AtProtection
  <1> HIDE DEF f
  <1>3. /\ look \in Frames /\ look.pc \in Protecting
        /\ look.s = f.s /\ look.goal = f.goal /\ look.then = f.then
        /\ place \in Frames /\ place.pc \in Protecting
        /\ place.s = f.s /\ place.goal = f.goal /\ place.then = f.then
    BY <1>2 DEF Guarding, Frames, AwaitPcs, Protecting, Roles
  <1> HIDE DEF look, place
  <1>4. ASSUME NEW g \in {look, place}, Await(t, g), UNCHANGED rec
        PROVE  Passed(t, f.s)
    <2>1. f.s \in Setups
      BY <1>2 DEF Guarding
    <2>2. SetRec(f.s, rec[f.s])
      BY <1>2, <1>4, <2>1, SameRecWritten
    <2> QED
      BY <1>1, <1>2, <1>3, <1>4, <2>2, GuardingOnPassed
  <1>5. ASSUME NEW i \in Adoptable(f, "sl"), NEW j \in Adoptable(f, "tp"),
               Return(t, f, p(i, j))
        PROVE  Passed(t, f.s)
    <2> DEFINE q == p(i, j)
    <2>1. i # 0 /\ j # 0 /\ i \in 0..MaxLegs /\ j \in 0..MaxLegs
      <3>1. i \in LegIds /\ j \in LegIds
        BY <1>2 DEF Adoptable, Guarding, Frames
      <3> QED
        BY <3>1, Bounds DEF LegIds
    <2>2. /\ q.sl = i /\ q.tp = j /\ q.protected = f.goal
          /\ q.filled = rec[f.s].filled /\ q.state = "PROTECTED_POSITION"
      BY <1>2 DEF Guarding, Records
    <2>3. SetRec(f.s, q) /\ Step(t, Back(f))
      BY <1>5 DEF Return
    <2> HIDE DEF q
    <2> QED
      BY <1>1, <1>2, <2>1, <2>2, <2>3, GuardingBackPassed DEF BothLegs, RestingStates
  <1> HIDE DEF p
  <1>6. Passed(t, f.s)
    BY <1>1, <1>4, <1>5
  <1> QED
    BY <1>6 DEF f

\* The placement of a leg.
LEMMA ResumePlacePassed ==
    ASSUME TruthInv, ShieldInv, PassInv, NEW t \in Tasks, ResumePlace(t)
    PROVE  Passed(t, frame[t].s)
  <1> DEFINE f == frame[t]
             old == rec[f.s]
             failed == [old EXCEPT !.state = "PROTECTION_FAILED"]
             r == [old EXCEPT ![f.role] = f.oid]
             done == [r EXCEPT !.protected = f.goal, !.state = "PROTECTED_POSITION"]
             next == [f EXCEPT !.role = "tp"]
  <1>1. f.pc = "place" /\ f.pc \in Protecting /\ UNCHANGED <<active, survey>>
    BY DEF ResumePlace, Resume, Protecting
  <1>2. TypeInv /\ Guarding(f, old)
    BY <1>1, TruthTypes, AtProtection
  <1>3. /\ f \in GoodFrames /\ f.role \in Roles /\ old \in Records
        /\ Fits(leg, ex[f.s], f.s, old, f)
    BY <1>1, <1>2, AtWork DEF SetupPcs, Guarding, Frames
  <1>4. \/ SetRec(f.s, failed) /\ Step(t, Back(f))
        \/ f.reply = "ok" /\ f.role = "sl" /\ SetRec(f.s, r) /\ Await(t, next)
        \/ /\ f.reply = "ok" /\ f.role = "tp"
           /\ SetRec(f.s, done) /\ Step(t, Back(f))
    BY <1>3 DEF ResumePlace, PlacementFailed, Roles, Return
  <1> HIDE DEF f
  <1>5. failed.filled = old.filled /\ failed.state = "PROTECTION_FAILED"
    BY <1>3 DEF Records
  <1>6. f.reply = "ok" => f.oid # 0 /\ f.oid \in 0..MaxLegs
    BY <1>1, <1>3, Bounds DEF GoodFrames, Placed, LegIds
  <1>7. f.reply = "ok" =>
            /\ r \in Records /\ r.state = old.state /\ r.filled = old.filled
            /\ r[f.role] = f.oid
            /\ \A role \in Roles : role # f.role => r[role] = old[role]
    BY <1>3, <1>6 DEF Records, Roles
  <1> HIDE DEF failed, r
  <1>8. ASSUME SetRec(f.s, failed), Step(t, Back(f))
        PROVE  Passed(t, f.s)
    BY <1>1, <1>2, <1>5, <1>8, GuardingBackPassed DEF RestingStates
  <1>9. ASSUME f.reply = "ok", f.role = "sl", SetRec(f.s, r), Await(t, next)
        PROVE  Passed(t, f.s)
    <2>1. /\ next \in Frames /\ next.pc \in Protecting
          /\ next.s = f.s /\ next.goal = f.goal /\ next.then = f.then
      BY <1>1, <1>2 DEF Guarding, Frames, Roles
    <2> HIDE DEF next
    <2> QED
      BY <1>1, <1>2, <1>7, <1>9, <2>1, GuardingOnPassed
  <1>10. ASSUME f.reply = "ok", f.role = "tp", SetRec(f.s, done), Step(t, Back(f))
         PROVE  Passed(t, f.s)
    <2>1. old.sl # 0
      BY <1>1, <1>3, <1>10 DEF Fits, Shielded
    <2>2. r.tp # 0 /\ r.sl # 0
      BY <1>6, <1>7, <1>10, <2>1 DEF Roles
    <2>3. /\ done.sl = r.sl /\ done.tp = r.tp /\ done.protected = f.goal
          /\ done.filled = old.filled /\ done.state = "PROTECTED_POSITION"
      BY <1>7, <1>10 DEF Records
    <2> HIDE DEF done
    <2> QED
      BY <1>1, <1>2, <1>10, <2>2, <2>3, GuardingBackPassed DEF BothLegs, RestingStates
  <1>11. Passed(t, f.s)
    BY <1>4, <1>8, <1>9, <1>10
  <1> QED
    BY <1>11 DEF f

-----------------------------------------------------------------------------
(* close_position, which is no part of a pass *)

\* close_position goes on to its next request; its record holds a fill.
LEMMA ClosingOnPassed ==
    ASSUME TypeInv, NEW t \in Tasks, NEW s \in Setups, UNCHANGED rec,
           Heeded(ex[s], rec[s], TRUE), rec[s].filled > 0,
           NEW g, Step(t, g), g.s = s, g.pc \in Closers,
           g.then \notin {"recCheck", "recDone"}
    PROVE  Passed(t, s)
  <1>1. Informed(ex[s], rec[s], g) /\ g.pc # "post" /\ g.pc \notin PassPcs
    BY DEF Informed, Closers, PassPcs
  <1> QED
    BY <1>1, SameRecWritten, OutsidePassed

\* close_position ends, with its record closed or left for the operator.
LEMMA FinishClosePassed ==
    ASSUME NEW t \in Tasks, NEW f, f.s \in Setups, rec[f.s] \in Records,
           Heeded(ex[f.s], rec[f.s], TRUE), rec[f.s].filled > 0,
           FinishClose(t, f, rec[f.s])
    PROVE  Passed(t, f.s)
  <1>1. PICK state \in {"RECONCILIATION_REQUIRED", "POSITION_CLOSED"} :
            SetRec(f.s, [rec[f.s] EXCEPT !.state = state])
    BY DEF FinishClose, Finalize
  <1>2. Heeded(ex[f.s], [rec[f.s] EXCEPT !.state = state], TRUE)
    BY StateHeeded DEF RestingStates, Heeded
  <1>3. Stop(t)
    BY DEF FinishClose
  <1> QED
    BY <1>1, <1>2, <1>3, StopPassed

\* Every step of close_position keeps what a pass relies on.
LEMMA ClosurePassed ==
    ASSUME TypeInv, ShieldInv, PassInv, NEW t \in Tasks,
           \/ ResumeBalance(t) \/ StartClose(t)
           \/ ResumeCloseCancel(t) \/ ResumeCloseVerify(t)
    PROVE  Passed(t, frame[t].s)
  <1> DEFINE f == frame[t]
             r == rec[f.s]
             closing == [f EXCEPT !.pc = "closing", !.reply = "none"]
             verify == [f EXCEPT !.pc = "closeVerify"]
             h(b) == [f EXCEPT !.bad = b]
             cancel(g, role) == CloseLegOf(g, r, role)
  <1>1. f.pc \in Closers /\ f.pc \in SetupPcs /\ f.pc # "post"
    BY DEF ResumeBalance, StartClose, ResumeCloseCancel, ResumeCloseVerify, Resume,
           Continue, Closers, SetupPcs
  <1>2. /\ f \in Frames /\ f.s \in Setups /\ r \in Records
    BY <1>1, AtWork
  <1>3. /\ Heeded(ex[f.s], r, TRUE) /\ r.filled > 0
        /\ f.then \notin {"recCheck", "recDone"}
    BY <1>1, AtWorkHeeded DEF Informed, Sweeps, Protecting, Closers
  <1>4. \/ Step(t, closing) /\ UNCHANGED rec
        \/ Stop(t) /\ UNCHANGED rec
        \/ Await(t, verify) /\ UNCHANGED rec
        \/ \E b \in BOOLEAN, role \in Roles :
               r[role] # 0 /\ Await(t, cancel(h(b), role)) /\ UNCHANGED rec
        \/ \E b \in BOOLEAN : FinishClose(t, h(b), r)
    <2>1. f.bad \in BOOLEAN /\ f = h(f.bad)
      BY <1>2 DEF Frames
    <2>2. CASE ResumeBalance(t)
      BY <2>2 DEF ResumeBalance
    <2>3. CASE StartClose(t)
      <3>1. \/ Stop(t) /\ UNCHANGED rec
            \/ FinishClose(t, f, r)
            \/ /\ ~(r.sl = 0 /\ r.tp = 0)
               /\ Await(t, cancel(f, IF r.sl # 0 THEN "sl" ELSE "tp"))
               /\ UNCHANGED rec
        BY <2>3 DEF StartClose
      <3> HIDE DEF f, h, cancel
      <3> QED
        BY <2>1, <3>1 DEF Roles
    <2>4. ASSUME NEW b \in BOOLEAN, NextClose(t, h(b))
          PROVE  \/ \E role \in Roles :
                        r[role] # 0 /\ Await(t, cancel(h(b), role)) /\ UNCHANGED rec
                 \/ FinishClose(t, h(b), r)
      <3>1. h(b).s = f.s
        BY <1>2 DEF Frames
      <3> HIDE DEF h, f
      <3> QED
        BY <2>4, <3>1 DEF NextClose, Roles
    <2>5. CASE ResumeCloseCancel(t)
      <3>1. NextClose(t, f) \/ (Await(t, verify) /\ UNCHANGED rec)
        BY <2>5 DEF ResumeCloseCancel
      <3>2. NextClose(t, f) => NextClose(t, h(f.bad))
        BY <2>1
      <3> HIDE DEF h, cancel, verify, f
      <3> QED
        BY <2>1, <2>4, <3>1, <3>2
    <2>6. CASE ResumeCloseVerify(t)
      <3>1. \E b \in BOOLEAN : NextClose(t, h(b))
        BY <2>1, <2>6 DEF ResumeCloseVerify
      <3> HIDE DEF h, cancel, f
      <3> QED
        BY <2>4, <3>1
    <2> QED
      BY <2>2, <2>3, <2>5, <2>6
  <1> HIDE DEF f
  <1>5. ASSUME NEW g \in Frames, g.s = f.s, g.pc \in Closers, g.then = f.then,
               UNCHANGED rec, Step(t, g) \/ Await(t, g)
        PROVE  Passed(t, f.s)
    <2>1. /\ Asking(g).s = f.s /\ Asking(g).pc \in Closers /\ Asking(g).then = f.then
      BY <1>5, AskingKeeps
    <2>2. Await(t, g) => Step(t, Asking(g))
      BY DEF Await, Asking
    <2> HIDE DEF r
    <2>3. rec[f.s] = r
      BY DEF r
    <2> QED
      BY <1>2, <1>3, <1>5, <2>1, <2>2, <2>3, ClosingOnPassed
  <1>6. closing \in Frames /\ closing.s = f.s /\ closing.pc \in Closers
        /\ closing.then = f.then
    BY <1>2 DEF Frames, LoopPcs, Replies, Closers
  <1>7. verify \in Frames /\ verify.s = f.s /\ verify.pc \in Closers
        /\ verify.then = f.then
    BY <1>2 DEF Frames, AwaitPcs, Closers
  <1>8. \A b \in BOOLEAN : h(b) \in Frames /\ h(b).s = f.s /\ h(b).then = f.then
    BY <1>2 DEF Frames
  <1>9. ASSUME NEW b \in BOOLEAN, NEW role \in Roles
        PROVE  /\ cancel(h(b), role) \in Frames /\ cancel(h(b), role).s = f.s
               /\ cancel(h(b), role).pc \in Closers
               /\ cancel(h(b), role).then = f.then
    <2>1. r[role] \in 0..MaxLegs
      BY <1>2 DEF Records, Roles
    <2> HIDE DEF h, r
    <2> QED
      BY <1>8, <2>1 DEF CloseLegOf, Frames, AwaitPcs, Closers
  <1> HIDE DEF closing, verify, h, cancel
  <1>10. ASSUME Stop(t), UNCHANGED rec
         PROVE  Passed(t, f.s)
    BY <1>2, <1>3, <1>10, SameRecWritten, StopPassed
  <1>11. ASSUME NEW b \in BOOLEAN, FinishClose(t, h(b), r)
         PROVE  Passed(t, f.s)
    BY <1>2, <1>3, <1>8, <1>11, FinishClosePassed
  <1>12. Passed(t, f.s)
    BY <1>4, <1>5, <1>6, <1>7, <1>9, <1>10, <1>11
  <1> QED
    BY <1>12 DEF f

-----------------------------------------------------------------------------
(* The pass itself *)

\* The frame between two records.
LEMMA NextFrame ==
    LET g == [IdleFrame EXCEPT !.pc = "recNext"]
    IN  g.pc = "recNext" /\ g.s = NoOne /\ g.then = "end"
  BY DEF IdleFrame

\* A pass may leave a record behind that agrees with the snapshot.
LEMMA SweptOff ==
    ASSUME NEW a, NEW R, NEW v, NEW s, Swept(a, R, v, s), Agrees(v, s, R[s])
    PROVE  Swept(a, R, v, NoOne)
  BY ConstantsAssumption DEF Swept

\* A pass that goes on to the next record.
LEMMA NextPassed ==
    ASSUME NEW t \in Tasks, NEW s \in Setups, NEW r, SetRec(s, r),
           Heeded(ex[s], r, TRUE), Step(t, [IdleFrame EXCEPT !.pc = "recNext"]),
           Swept(active', rec', survey', NoOne)
    PROVE  Passed(t, s)
  <1> DEFINE g == [IdleFrame EXCEPT !.pc = "recNext"]
  <1>1. g.pc = "recNext" /\ g.s = NoOne /\ g.then = "end" /\ g.s # s
    BY NextFrame, ConstantsAssumption
  <1>2. Step(t, g)
    OBVIOUS
  <1> HIDE DEF g
  <1>3. Sweeps(active', rec', survey', g)
    BY <1>1 DEF Sweeps
  <1> QED
    BY <1>1, <1>2, <1>3 DEF Passed

\* A pass begins, takes its snapshot and ends.
LEMMA PassIdles ==
    ASSUME ~Overlap, TypeInv, ShieldInv, PassInv, NEW t \in Tasks,
           Reconcile(t) \/ ResumeSnapshot(t) \/ FinishReconcile(t)
    PROVE  PassInv'
  <1> DEFINE first == [IdleFrame EXCEPT !.pc = "recPositions"]
             second == [IdleFrame EXCEPT !.pc = "recOrders"]
             next == [IdleFrame EXCEPT !.pc = "recNext"]
  <1>1. Alone(t) /\ frame[t].s = NoOne
    <2>1. CASE Reconcile(t)
      BY <2>1, BeginAlone DEF Reconcile
    <2>2. CASE ResumeSnapshot(t) \/ FinishReconcile(t)
      <3>1. frame[t].pc \in {"recPositions", "recOrders", "recNext"}
        BY <2>2 DEF ResumeSnapshot, FinishReconcile, Resume, Continue
      <3> QED
        BY <3>1, BetweenRecords, LoopFrames
    <2> QED
      BY <2>1, <2>2
  <1>2. UNCHANGED <<rec, ex>>
    BY DEF Reconcile, ResumeSnapshot, FinishReconcile, engineVars, exchangeVars
  <1>3. /\ first \in Frames /\ first.pc = "recPositions" /\ first.s = NoOne
        /\ second \in Frames /\ second.pc = "recOrders" /\ second.s = NoOne
        /\ next.pc = "recNext" /\ next.s = NoOne /\ next.then = "end"
        /\ first.then = "end" /\ second.then = "end"
    BY IdleIsLoose, NextFrame DEF Frames, AwaitPcs, IdleFrame
  <1>4. Stop(t) => PassInv'
    <2>1. IdleFrame.pc = "idle" /\ IdleFrame.s = NoOne /\ IdleFrame.then = "end"
      BY DEF IdleFrame
    <2>2. Sweeps(active', rec', survey', IdleFrame)
      BY <2>1, OutsideSweeps DEF PassPcs
    <2> QED
      BY <1>1, <1>2, <2>1, <2>2, IdlingPassed DEF Stop
  <1>5. Reconcile(t) => PassInv'
    <2> SUFFICES ASSUME Reconcile(t) PROVE PassInv'
      OBVIOUS
    <2>1. Step(t, Asking(first)) /\ survey'.claimed = {}
      BY DEF Reconcile, Await, Asking, NoSurvey
    <2> HIDE DEF first
    <2>2. /\ Asking(first).pc = "recPositions" /\ Asking(first).s = NoOne
          /\ Asking(first).then = "end"
      BY <1>3, AskingKeeps
    <2>3. Sweeps(active', rec', survey', Asking(first))
      BY <2>1, <2>2 DEF Sweeps, InPass
    <2> QED
      BY <1>1, <1>2, <2>1, <2>2, <2>3, IdlingPassed
  <1>6. ResumeSnapshot(t) => PassInv'
    <2> SUFFICES ASSUME ResumeSnapshot(t) PROVE PassInv'
      OBVIOUS
    <2>1. survey.claimed = {}
      <3>1. Sweeps(active, rec, survey, frame[t])
        BY DEF PassInv, PassSweeps
      <3> QED
        BY <3>1 DEF Sweeps, ResumeSnapshot, Resume
    <2>2. \/ Stop(t)
          \/ Step(t, next) /\ survey' = [survey EXCEPT !.todo = active]
          \/ Step(t, Asking(second)) /\ survey' = survey
      BY DEF ResumeSnapshot, Await, Asking
    <2>3. active' = active
      BY DEF ResumeSnapshot
    <2> HIDE DEF next, second
    <2>4. CASE Step(t, next) /\ survey' = [survey EXCEPT !.todo = active]
      <3>1. survey'.todo = active /\ survey'.claimed = {}
        BY <2>1, <2>4 DEF TypeInv, Surveys
      <3>2. Sweeps(active', rec', survey', next)
        BY <1>3, <2>3, <3>1, ConstantsAssumption DEF Sweeps, Swept
      <3> QED
        BY <1>1, <1>2, <1>3, <2>4, <3>2, IdlingPassed
    <2>5. CASE Step(t, Asking(second)) /\ survey' = survey
      <3>1. /\ Asking(second).pc = "recOrders" /\ Asking(second).s = NoOne
            /\ Asking(second).then = "end"
        BY <1>3, AskingKeeps
      <3>2. Sweeps(active', rec', survey', Asking(second))
        BY <2>1, <2>5, <3>1 DEF Sweeps, InPass
      <3> QED
        BY <1>1, <1>2, <2>5, <3>1, <3>2, IdlingPassed
    <2> QED
      BY <1>4, <2>2, <2>4, <2>5
  <1>7. FinishReconcile(t) => Stop(t)
    BY DEF FinishReconcile
  <1> QED
    BY <1>4, <1>5, <1>6, <1>7

\* A pass visits its next record: what it has to visit is active, so none is
\* lost.
LEMMA VisitRecordPassed ==
    ASSUME TruthInv, ShieldInv, PassInv, NEW t \in Tasks, VisitRecord(t)
    PROVE  \E s \in Setups : Alone(t) /\ frame[t].s = NoOne /\ Passed(t, s)
  <1>1. /\ TypeInv /\ frame[t].pc = "recNext" /\ UNCHANGED <<active, rec, ex>>
    BY TruthTypes DEF VisitRecord, Continue, engineVars, exchangeVars
  <1>2. Alone(t) /\ frame[t].s = NoOne
    BY <1>1, BetweenRecords, LoopFrames
  <1>3. Swept(active, rec, survey, NoOne)
    BY <1>1, <1>2 DEF PassInv, PassSweeps, Sweeps, InPass
  <1> DEFINE get(s) == [IdleFrame EXCEPT !.pc = "recGet", !.s = s, !.then = "recCheck"]
             check(s) == [IdleFrame EXCEPT !.pc = "recCheck", !.s = s]
             resting(s) == rec[s].state \in RestingStates
             lost(s) == resting(s) /\ s \notin active
  <1>4. PICK s \in survey.todo :
            /\ survey' = [survey EXCEPT
                    !.todo = @ \ {s},
                    !.claimed = @ \cup {s},
                    !.claimedEntries = @ \cup {e \in {s} : rec[s].entryId},
                    !.claimedLegs = @ \cup {rec[s].sl, rec[s].tp},
                    !.dirty = @ \/ lost(s)]
            /\ IF lost(s) THEN UNCHANGED frame
               ELSE IF resting(s) THEN Await(t, get(s)) ELSE Step(t, check(s))
    BY DEF VisitRecord, NeedsRefresh
  <1>5. s \in Setups /\ s \in active /\ s \notin survey.claimed /\ ~lost(s)
    BY <1>1, <1>3 DEF Swept, TypeInv
  <1>6. /\ survey'.todo = survey.todo \ {s} /\ survey'.claimed = survey.claimed \cup {s}
        /\ survey'.pos = survey.pos /\ (survey.dirty => survey'.dirty)
    <2>1. survey.dirty \in BOOLEAN
      BY <1>1 DEF TypeInv, Surveys
    <2> HIDE DEF lost
    <2> QED
      BY <1>1, <1>4, <2>1 DEF TypeInv, Surveys
  <1>7. Swept(active', rec', survey', s)
    <2>1. \A x \in survey.claimed : survey.dirty \/ Agrees(survey, x, rec[x])
      BY <1>1, <1>3, ConstantsAssumption DEF Swept, TypeInv, Surveys
    <2> QED
      BY <1>1, <1>3, <1>5, <1>6, <2>1 DEF Swept, Agrees
  <1>8. Heeded(ex[s], rec[s], TRUE)
    <2>1. Submitted(s)
      BY <1>1, <1>2 DEF Submitted, Alone
    <2> QED
      BY <1>5, <2>1 DEF PassInv, RecordsHeeded, Heeded
  <1>9. SetRec(s, rec[s]) /\ rec[s] \in Records /\ rec'[s] = rec[s]
    BY <1>1, <1>5, SameRecWritten DEF TypeInv, GoodRecords
  <1>10. CASE resting(s)
    <2>1. get(s) \in Frames /\ get(s).pc = "recGet" /\ get(s).s = s
          /\ get(s).then = "recCheck" /\ Await(t, get(s))
      BY <1>4, <1>5, <1>10, IdleIsLoose DEF Frames, AwaitPcs
    <2> DEFINE g == get(s)
    <2> HIDE DEF g
    <2>2. /\ Asking(g).pc = "recGet" /\ Asking(g).s = s
          /\ Asking(g).then = "recCheck" /\ Asking(g).reply = "wait"
          /\ Step(t, Asking(g))
      BY <2>1, AskingKeeps DEF Await, Asking, g
    <2>3. Informed(ex[s], rec[s], Asking(g))
      BY <2>2 DEF Informed, Closers
    <2>4. Sweeps(active', rec', survey', Asking(g))
      BY <1>7, <1>9, <1>10, <2>2 DEF Sweeps
    <2> QED
      BY <1>2, <1>5, <1>8, <1>9, <2>2, <2>3, <2>4 DEF Passed
  <1>11. CASE ~resting(s)
    <2>1. check(s).pc = "recCheck" /\ check(s).s = s /\ check(s).then = "end"
          /\ Step(t, check(s))
      BY <1>4, <1>5, <1>11 DEF IdleFrame
    <2> DEFINE g == check(s)
    <2> HIDE DEF g
    <2>2. g.pc = "recCheck" /\ g.s = s /\ g.then = "end" /\ Step(t, g)
      BY <2>1 DEF g
    <2>3. rec[s].filled = 0 => survey.pos[s] = 0
      <3>1. survey.pos[s] \in Nat /\ survey.pos[s] <= ex[s].got
        BY <1>1, <1>5, Bounds DEF TypeInv, Surveys, TruthInv, SurveyTrue
      <3> QED
        BY <1>8, <1>11, <3>1 DEF Heeded, Over
    <2>4. survey'.pos[s] = 0 \/ rec'[s].filled > 0
      <3>1. rec[s].filled \in Nat
        BY <1>9, Bounds DEF Records
      <3>2. rec[s].filled = 0 \/ rec[s].filled > 0
        BY <3>1
      <3> QED
        BY <1>6, <1>9, <2>3, <3>2
    <2>5. Informed(ex[s], rec[s], g)
      BY <2>2 DEF Informed, Closers
    <2>6. Sweeps(active', rec', survey', g)
      BY <1>7, <2>2, <2>4 DEF Sweeps
    <2> QED
      BY <1>2, <1>5, <1>8, <1>9, <2>2, <2>5, <2>6 DEF Passed
  <1> QED
    BY <1>10, <1>11

\* The answer to the refresh of a resting entry: at least what the snapshot
\* holds of it.
LEMMA ResumeRefreshPassed ==
    ASSUME TruthInv, TruthInv', ShieldInv, PassInv, NEW t \in Tasks, ResumeRefresh(t)
    PROVE  Passed(t, frame[t].s)
  <1> DEFINE f == frame[t]
             r == [rec[f.s] EXCEPT !.entryId = TRUE]
             next == [IdleFrame EXCEPT !.pc = "recNext"]
  <1>1. TypeInv /\ f.pc = "recGet" /\ f.reply # "wait" /\ UNCHANGED ex
    BY TruthTypes DEF ResumeRefresh, Resume, exchangeVars
  <1>2. /\ f \in Frames /\ f.s \in Setups /\ rec[f.s] \in Records
        /\ f.amt \in Amounts
    BY <1>1, AtWork, TruthTypes DEF SetupPcs
  <1>3. Heeded(ex[f.s], rec[f.s], TRUE) /\ Sweeps(active, rec, survey, f)
    BY <1>1, AtWorkHeeded DEF SetupPcs
  <1>4. /\ f.then = "recCheck" /\ rec[f.s].state \in RestingStates
        /\ f.reply \notin {"error", "missing"} => survey.pos[f.s] <= f.amt
        /\ Swept(active, rec, survey, f.s)
    BY <1>1, <1>3 DEF Sweeps, InPass
  <1>5. \/ /\ survey' = [survey EXCEPT !.dirty = TRUE]
           /\ Step(t, next) /\ UNCHANGED <<active, rec>>
        \/ /\ f.reply \notin {"error", "missing"}
           /\ ApplyEntry(t, f, r, f.reply, f.amt) /\ UNCHANGED survey
    BY DEF ResumeRefresh
  <1>6. /\ r \in Records /\ r.entryId /\ r.state = rec[f.s].state
        /\ Heeded(ex[f.s], r, TRUE)
    <2>1. Heeded(ex[f.s], rec[f.s], FALSE)
      BY <1>3 DEF Heeded
    <2> QED
      BY <1>2, <2>1, IdHeeded
  <1> HIDE DEF f, r
  <1>7. ASSUME survey' = [survey EXCEPT !.dirty = TRUE], Step(t, next),
               UNCHANGED <<active, rec>>
        PROVE  Passed(t, f.s)
    <2>1. survey'.dirty /\ survey'.todo = survey.todo /\ survey'.claimed = survey.claimed
      BY <1>1, <1>7 DEF TypeInv, Surveys
    <2>2. Swept(active', rec', survey', NoOne)
      BY <1>4, <1>7, <2>1, ConstantsAssumption DEF Swept
    <2>3. SetRec(f.s, rec[f.s])
      BY <1>1, <1>2, <1>7, SameRecWritten
    <2> QED
      BY <1>2, <1>3, <1>7, <2>2, <2>3, NextPassed
  <1>8. ASSUME f.reply \notin {"error", "missing"},
               ApplyEntry(t, f, r, f.reply, f.amt), UNCHANGED survey
        PROVE  Passed(t, f.s)
    BY <1>1, <1>2, <1>4, <1>6, <1>8, ApplyEntryPassed DEF InsidePass
  <1> HIDE DEF next
  <1>9. Passed(t, f.s)
    BY <1>5, <1>7, <1>8
  <1> QED
    BY <1>9 DEF f

\* The check of a record against the snapshot.
LEMMA CheckRecordPassed ==
    ASSUME TypeInv, ShieldInv, PassInv, NEW t \in Tasks, CheckRecord(t)
    PROVE  Passed(t, frame[t].s)
  <1> DEFINE f == frame[t]
             r == rec[f.s]
             size == survey.pos[f.s]
             next == [IdleFrame EXCEPT !.pc = "recNext"]
             g == [IdleFrame EXCEPT !.s = f.s, !.then = "recDone"]
             lost == [r EXCEPT !.state = "RECONCILIATION_REQUIRED"]
             left == ForgetDeadLegs(r, size)
  <1>1. f.pc = "recCheck" /\ UNCHANGED active
    BY DEF CheckRecord, Continue
  <1>2. /\ f \in Frames /\ f.s \in Setups /\ r \in Records
        /\ Fits(leg, ex[f.s], f.s, r, f)
    BY <1>1, AtWork DEF SetupPcs
  <1>3. /\ Heeded(ex[f.s], r, TRUE)
        /\ Swept(active, rec, survey, f.s) /\ (size = 0 \/ r.filled > 0)
    BY <1>1, AtWorkHeeded DEF SetupPcs, Sweeps, InPass
  <1>4. size \in Amounts /\ size \in Nat /\ r.filled \in Nat /\ r.filled \in Amounts
    BY <1>2, Bounds DEF TypeInv, Surveys, Records
  <1>5. \/ /\ f.s \notin active \/ r.filled = 0 \/ ProtectionAgrees(r, size)
           /\ Step(t, next) /\ UNCHANGED <<rec, survey>>
        \/ /\ r.filled # 0 /\ SetRec(f.s, lost) /\ Step(t, next)
           /\ survey' = [survey EXCEPT !.dirty = TRUE]
        \/ /\ size # 0 /\ BeginProtection(t, g, left, size) /\ UNCHANGED survey
    BY DEF CheckRecord
  <1> HIDE DEF f, next, g, left
  <1>6. ASSUME f.s \notin active \/ r.filled = 0 \/ ProtectionAgrees(r, size),
               Step(t, next), UNCHANGED <<rec, survey>>
        PROVE  Passed(t, f.s)
    <2>1. Agrees(survey, f.s, r)
      <3>1. CASE ProtectionAgrees(r, size)
        <4>1. r.sl \in LegIds /\ r.tp \in LegIds /\ r.protected = size
          BY <3>1 DEF ProtectionAgrees, TypeInv, Surveys
        <4> QED
          BY <4>1 DEF Agrees, BothLegs, LegIds
      <3>2. CASE f.s \notin active \/ r.filled = 0
        <4>1. size = 0
          BY <1>2, <1>3, <1>4, <3>2 DEF Swept
        <4> QED
          BY <4>1 DEF Agrees
      <3> QED
        BY <1>6, <3>1, <3>2
    <2>2. Swept(active', rec', survey', NoOne)
      BY <1>1, <1>3, <1>6, <2>1, SweptOff
    <2>3. SetRec(f.s, r)
      BY <1>2, <1>6, SameRecWritten
    <2> HIDE DEF r
    <2> QED
      BY <1>2, <1>3, <1>6, <2>2, <2>3, NextPassed DEF next
  <1>7. ASSUME r.filled # 0, SetRec(f.s, lost), Step(t, next),
               survey' = [survey EXCEPT !.dirty = TRUE]
        PROVE  Passed(t, f.s)
    <2>1. Heeded(ex[f.s], lost, TRUE)
      <3>1. Heeded(ex[f.s], r, FALSE) /\ r.filled > 0
        BY <1>3, <1>4, <1>7 DEF Heeded
      <3> HIDE DEF r
      <3> QED
        BY <1>2, <3>1, StateHeeded DEF RestingStates
    <2>2. survey'.dirty /\ survey'.todo = survey.todo /\ survey'.claimed = survey.claimed
      BY <1>7 DEF TypeInv, Surveys
    <2>3. Swept(active', rec', survey', NoOne)
      BY <1>1, <1>3, <2>2, ConstantsAssumption DEF Swept
    <2> HIDE DEF lost
    <2> QED
      BY <1>2, <1>7, <2>1, <2>3, NextPassed DEF next
  <1>8. ASSUME size # 0, BeginProtection(t, g, left, size), UNCHANGED survey
        PROVE  Passed(t, f.s)
    <2>1. g \in Frames /\ g.s = f.s /\ g.then = "recDone"
      BY <1>2, IdleIsLoose DEF Frames, g
    <2>2. left \in Records
      BY <1>2, <1>4, ForgetIsNamed DEF Fits, Shielded, left
    <2>3. left.filled > 0
      <3>1. left.filled = Larger(r.filled, size)
        BY <1>2 DEF left, ForgetDeadLegs, Records
      <3> QED
        BY <1>4, <1>8, <3>1 DEF Larger
    <2>4. \E q : SetRec(f.s, q)
      BY <1>8, <2>1 DEF BeginProtection
    <2>5. \A x \in survey.claimed \ {f.s} : rec'[x] = rec[x]
      BY <1>2, <2>4 DEF SetRec, TypeInv, Surveys
    <2>6. Swept(active', rec', survey', g.s)
      BY <1>1, <1>2, <1>3, <1>8, <2>1, <2>5, SweptOn
    <2>7. size = survey'.pos[g.s]
      BY <1>8, <2>1
    <2> HIDE DEF r, size
    <2>8. Passed(t, g.s)
      BY <1>2, <1>4, <1>8, <2>1, <2>2, <2>3, <2>6, <2>7, BeginProtectionPassed
    <2> QED
      BY <2>1, <2>8
  <1> HIDE DEF lost
  <1>9. Passed(t, f.s)
    BY <1>5, <1>6, <1>7, <1>8
  <1> QED
    BY <1>9 DEF f

\* The verdict on a record whose protection was restored, or not.
LEMMA RecordDonePassed ==
    ASSUME TypeInv, ShieldInv, PassInv, NEW t \in Tasks, RecordDone(t)
    PROVE  Passed(t, frame[t].s)
  <1> DEFINE f == frame[t]
             restored == rec[f.s].state = "PROTECTED_POSITION"
             next == [IdleFrame EXCEPT !.pc = "recNext"]
  <1>1. /\ f.pc = "recDone" /\ Step(t, next) /\ UNCHANGED <<active, rec>>
        /\ survey' = [survey EXCEPT !.dirty = @ \/ ~restored]
    BY DEF RecordDone, Continue, Restored
  <1>2. f.s \in Setups
    BY <1>1, AtWork DEF SetupPcs
  <1>3. /\ Heeded(ex[f.s], rec[f.s], TRUE) /\ Swept(active, rec, survey, f.s)
        /\ restored => Agrees(survey, f.s, rec[f.s])
    BY <1>1, AtWorkHeeded DEF SetupPcs, Sweeps, InPass
  <1> HIDE DEF restored
  <1>4. /\ survey'.todo = survey.todo /\ survey'.claimed = survey.claimed
        /\ survey'.pos = survey.pos
        /\ restored => survey' = survey
        /\ ~restored => survey'.dirty
    <2>1. survey.dirty \in BOOLEAN /\ restored \in BOOLEAN
      BY DEF TypeInv, Surveys, restored
    <2> QED
      BY <1>1, <2>1 DEF TypeInv, Surveys
  <1>5. Swept(active', rec', survey', NoOne)
    <2>1. CASE restored
      BY <1>1, <1>3, <1>4, <2>1, SweptOff
    <2>2. CASE ~restored
      BY <1>1, <1>3, <1>4, <2>2, ConstantsAssumption DEF Swept
    <2> QED
      BY <2>1, <2>2
  <1> HIDE DEF f
  <1>6. SetRec(f.s, rec[f.s])
    BY <1>1, <1>2, SameRecWritten
  <1>7. Passed(t, f.s)
    BY <1>1, <1>2, <1>3, <1>5, <1>6, NextPassed
  <1> QED
    BY <1>7 DEF f

-----------------------------------------------------------------------------
(* Every step of the manager *)

\* A step that touches nothing the invariant is about.
LEMMA PassStands ==
    ASSUME PassInv, UNCHANGED <<active, rec, frame, survey, ex>>
    PROVE  PassInv'
  BY DEF PassInv, RecordsHeeded, Heeded, Over, Submitted, CallsInformed, PassSweeps

\* A call that begins keeps what a pass relies on.
LEMMA CallsPassed ==
    ASSUME ~Overlap, NoKillSwitch, TruthInv, TruthInv', ShieldInv, PassInv,
           NEW t \in Tasks, Calls(t)
    PROVE  PassInv'
  <1>1. TypeInv
    BY TruthTypes
  <1>2. ASSUME NEW s \in Setups,
               \/ RefuseAtGateway(t, s) \/ Submit(t, s) \/ OrderEvent(t, s)
               \/ FillEvent(t, s) \/ ClosureEvent(t, s) \/ Expire(t, s)
        PROVE  PassInv'
    <2>1. Passed(t, s)
      BY <1>2, AdmissionPassed, StreamPassed, ClosureEventPassed, ExpirePassed
    <2>2. Alone(t) /\ frame[t].s = NoOne
      BY <1>2, BeginAlone
         DEF RefuseAtGateway, Submit, OrderEvent, FillEvent, ClosureEvent, Expire
    <2>3. UNCHANGED ex
      BY <1>2
         DEF RefuseAtGateway, Submit, OrderEvent, FillEvent, ClosureEvent, Expire,
             exchangeVars
    <2> QED
      BY <1>1, <2>1, <2>2, <2>3, PassedKept
  <1>3. ASSUME \/ \E s \in Setups : RefuseSetup(t, s) \/ OrphanPositionEvent(t, s)
               \/ StreamIntegrityLost(t) \/ ResetKillSwitch(t) \/ ClearAlerts(t)
               \/ BlockOnMutex(t)
        PROVE  PassInv'
    BY <1>3, PassStands
       DEF RefuseSetup, OrphanPositionEvent, StreamIntegrityLost, ResetKillSwitch,
           ClearAlerts, BlockOnMutex, exchangeVars, engineVars
  <1>4. ~KillSwitch(t)
    BY DEF KillSwitch, Begin, NoKillSwitch
  <1>5. CASE Reconcile(t)
    BY <1>1, <1>5, PassIdles
  <1> QED
    BY <1>2, <1>3, <1>4, <1>5 DEF Calls

\* A call that goes on keeps what a pass relies on.
LEMMA ProceedsPassed ==
    ASSUME ~Overlap, NoKillSwitch, TruthInv, TruthInv', ShieldInv, PassInv,
           NEW t \in Tasks, Proceeds(t)
    PROVE  PassInv'
  <1>1. TypeInv
    BY TruthTypes
  <1>2. UNCHANGED ex
    BY DEF Proceeds, ResumePost, ResumeCancel, ResumeVerify, ResumeEcho,
           ResumeOpenOrders, ResumePlace, ResumeBalance, StartClose,
           ResumeCloseCancel, ResumeCloseVerify, ResumeExpireCancel,
           ResumeExpireGet, KillNext, ResumeKillCancel, ResumeKillVerify,
           ResumeSnapshot, FinishReconcile, VisitRecord, ResumeRefresh, CheckRecord,
           RecordDone, exchangeVars
  <1>3. ASSUME frame[t].pc \in SetupPcs, Passed(t, frame[t].s)
        PROVE  PassInv'
    BY <1>1, <1>2, <1>3, AtWork, PassedKept
  <1>4. CASE \/ ResumePost(t) \/ ResumeCancel(t) \/ ResumeVerify(t) \/ ResumeEcho(t)
             \/ ResumeOpenOrders(t) \/ ResumePlace(t)
    <2>1. frame[t].pc \in SetupPcs
      BY <1>4 DEF ResumePost, ResumeCancel, ResumeVerify, ResumeEcho,
                  ResumeOpenOrders, ResumePlace, Resume, SetupPcs
    <2> QED
      BY <1>3, <1>4, <2>1, ResumePostPassed, ResumeCancelPassed,
         ResumeAdoptionPassed, ResumePlacePassed
  <1>5. CASE \/ ResumeBalance(t) \/ StartClose(t) \/ ResumeCloseCancel(t)
             \/ ResumeCloseVerify(t) \/ ResumeExpireCancel(t) \/ ResumeExpireGet(t)
    <2>1. frame[t].pc \in SetupPcs
      BY <1>5 DEF ResumeBalance, StartClose, ResumeCloseCancel, ResumeCloseVerify,
                  ResumeExpireCancel, ResumeExpireGet, Resume, Continue, SetupPcs
    <2> QED
      BY <1>1, <1>3, <1>5, <2>1, ClosurePassed, ResumeExpireCancelPassed,
         ResumeExpireGetPassed
  <1>6. CASE ResumeRefresh(t) \/ CheckRecord(t) \/ RecordDone(t)
    <2>1. frame[t].pc \in SetupPcs
      BY <1>6 DEF ResumeRefresh, CheckRecord, RecordDone, Resume, Continue, SetupPcs
    <2> QED
      BY <1>1, <1>3, <1>6, <2>1, ResumeRefreshPassed, CheckRecordPassed,
         RecordDonePassed
  <1>7. ~(KillNext(t) \/ ResumeKillCancel(t) \/ ResumeKillVerify(t))
    <2>1. frame[t].pc \notin KillPcs
      BY DEF TruthInv, KillsOnDuty, NoKillSwitch
    <2> QED
      BY <2>1 DEF KillNext, ResumeKillCancel, ResumeKillVerify, Resume, Continue, KillPcs
  <1>8. CASE VisitRecord(t)
    <2>1. PICK s \in Setups : Alone(t) /\ frame[t].s = NoOne /\ Passed(t, s)
      BY <1>8, VisitRecordPassed
    <2> QED
      BY <1>1, <1>2, <2>1, PassedKept
  <1>9. CASE ResumeSnapshot(t) \/ FinishReconcile(t)
    BY <1>1, <1>9, PassIdles
  <1> QED
    BY <1>4, <1>5, <1>6, <1>7, <1>8, <1>9 DEF Proceeds

-----------------------------------------------------------------------------
(* The exchange, seen from a pass *)

\* The exchange moves and no call is told: what is over stays so, and what no
\* longer rests gets nothing more.
LEMMA MovesPassed ==
    ASSUME PassInv, UNCHANGED <<active, rec, frame, survey>>,
           \A s \in Setups : ex[s].entry # "open" =>
               ex'[s].entry # "open" /\ ex'[s].got = ex[s].got
    PROVE  PassInv'
  <1>1. RecordsHeeded'
    BY DEF PassInv, RecordsHeeded, Heeded, Over, Submitted
  <1>2. CallsInformed'
    BY DEF PassInv, CallsInformed, Informed
  <1>3. PassSweeps'
    BY DEF PassInv, PassSweeps
  <1> QED
    BY <1>1, <1>2, <1>3 DEF PassInv

\* An answer to the one call there is keeps the invariant when it tells that
\* call enough; an entry that was over may open only under a record that rests.
LEMMA AnswerPassed ==
    ASSUME TypeInv, ShieldInv, PassInv, NEW t \in Tasks, frame[t].pc # "idle", NEW g,
           frame' = [frame EXCEPT ![t] = g], g.pc = frame[t].pc, g.s = frame[t].s,
           UNCHANGED <<active, rec>>,
           \A s \in Setups :
               \/ Over(ex[s]) => Over(ex'[s])
               \/ s = frame[t].s /\ rec[s].state \in RestingStates,
           frame[t].s \in Setups => Informed(ex'[frame[t].s], rec[frame[t].s], g),
           Sweeps(active, rec, survey', g)
    PROVE  PassInv'
  <1>1. frame'[t] = g /\ \A u \in Tasks \ {t} : frame'[u] = frame[u]
    BY DEF TypeInv
  <1>2. \A u \in Tasks \ {t} : frame[u].pc = "idle" /\ frame[u].s = NoOne
    BY DEF ShieldInv, OneAtATime, WorkNamesSetup, SetupPcs
  <1>3. \A s \in Setups : Submitted(s)' <=> Submitted(s)
    BY <1>1 DEF Submitted
  <1>4. RecordsHeeded'
    BY <1>3 DEF PassInv, RecordsHeeded, Heeded
  <1>5. CallsInformed'
    BY <1>1, <1>2, ConstantsAssumption DEF CallsInformed
  <1>6. PassSweeps'
    <2> SUFFICES ASSUME NEW u \in Tasks PROVE Sweeps(active, rec, survey', frame'[u])
      BY DEF PassSweeps
    <2>1. CASE u = t
      BY <1>1, <2>1
    <2>2. CASE u # t
      <3>1. frame'[u].pc = "idle" /\ Sweeps(active, rec, survey, frame'[u])
        BY <1>1, <1>2, <2>2 DEF PassInv, PassSweeps
      <3>2. frame'[u].then \notin {"recCheck", "recDone"}
        BY <3>1 DEF Sweeps, Protecting
      <3> QED
        BY <3>1, <3>2, OutsideSweeps DEF PassPcs
    <2> QED
      BY <2>1, <2>2
  <1> QED
    BY <1>4, <1>5, <1>6 DEF PassInv

\* An answer leaves a pass where it is; one about a record tells enough.
LEMMA SweepsOn ==
    ASSUME NEW a, NEW R, NEW v, NEW f, NEW g, Sweeps(a, R, v, f),
           g.pc = f.pc, g.s = f.s, g.then = f.then, g.goal = f.goal,
           f.pc = "recGet" => v.pos[f.s] <= g.amt
    PROVE  Sweeps(a, R, v, g)
  BY DEF Sweeps, InPass

\* An answer that is not about an entry.
LEMMA OtherAnswerPassed ==
    ASSUME TypeInv, ShieldInv, PassInv, NEW t \in Tasks, frame[t].pc # "idle", NEW g,
           frame' = [frame EXCEPT ![t] = g], g.pc = frame[t].pc, g.s = frame[t].s,
           g.then = frame[t].then, g.goal = frame[t].goal,
           UNCHANGED <<active, rec, survey, ex>>,
           frame[t].pc \notin {"expGet", "recGet"},
           frame[t].pc = "post" => g.reply \notin {"timeout", "error"},
           frame[t].pc = "expCancel" => ex[frame[t].s].entry # "open"
    PROVE  PassInv'
  <1>1. frame[t].s \in Setups => Informed(ex[frame[t].s], rec[frame[t].s], frame[t])
    BY DEF PassInv, CallsInformed
  <1>2. frame[t].s \in Setups => Informed(ex'[frame[t].s], rec[frame[t].s], g)
    BY <1>1 DEF Informed
  <1>3. Sweeps(active, rec, survey, frame[t])
    BY DEF PassInv, PassSweeps
  <1>4. Sweeps(active, rec, survey', g)
    BY <1>3, SweepsOn
  <1> QED
    BY <1>2, <1>4, AnswerPassed

\* Refusals and readings of anything but an entry or the account.
LEMMA PlainAnswersPassed ==
    ASSUME Reliable, TypeInv, ShieldInv, PassInv, NEW t \in Tasks,
           \/ AnswerRefused(t) \/ RefuseEntry(t) \/ ReadEcho(t) \/ ReadLeg(t)
           \/ ReadBalance(t) \/ CancelLeg(t)
    PROVE  PassInv'
  <1>1. /\ UNCHANGED <<active, rec, survey, ex>>
        /\ frame[t].pc # "idle" /\ frame[t].pc \notin {"expGet", "recGet"}
    BY DEF AnswerRefused, RefuseEntry, ReadEcho, ReadLeg, ReadBalance, CancelLeg,
           Awaiting, EntryCancelPcs, LegCancelPcs, engineVars, exchangeVars
  <1>2. PICK reply : /\ Answer(t, reply)
                     /\ frame[t].pc = "post" => reply \notin {"timeout", "error"}
    <2>1. CASE RefuseEntry(t)
      BY <2>1 DEF RefuseEntry, Reliable
    <2>2. CASE AnswerRefused(t)
      BY <2>2 DEF AnswerRefused, Awaiting, EntryCancelPcs, LegCancelPcs
    <2>3. CASE ReadEcho(t) \/ ReadLeg(t) \/ ReadBalance(t) \/ CancelLeg(t)
      BY <2>3 DEF ReadEcho, ReadLeg, ReadBalance, CancelLeg, AnswerOrLose, Awaiting,
                  LegCancelPcs
    <2> QED
      BY <2>1, <2>2, <2>3
  <1>3. frame[t].pc = "expCancel" => ex[frame[t].s].entry # "open"
    BY DEF AnswerRefused, RefuseEntry, ReadEcho, ReadLeg, ReadBalance, CancelLeg,
           Awaiting, EntryCancelPcs, LegCancelPcs
  <1>4. PICK g : /\ frame' = [frame EXCEPT ![t] = g]
                 /\ g.pc = frame[t].pc /\ g.s = frame[t].s /\ g.then = frame[t].then
                 /\ g.goal = frame[t].goal /\ g.reply = reply
    BY <1>2, AnswerWrites
  <1> QED
    BY <1>1, <1>2, <1>3, <1>4, OtherAnswerPassed

\* The list of resting orders, and the placement of a leg.
LEMMA LegAnswersPassed ==
    ASSUME Reliable, TypeInv, ShieldInv, PassInv, NEW t \in Tasks,
           ReadOpenOrders(t) \/ PlaceLeg(t)
    PROVE  PassInv'
  <1>1. /\ UNCHANGED <<active, rec, survey, ex>>
        /\ frame[t].pc \in {"openOrders", "place"}
    BY DEF ReadOpenOrders, PlaceLeg, Awaiting, engineVars, exchangeVars
  <1>2. frame[t] \in Frames
    BY DEF TypeInv, GoodFrames
  <1>3. \E g : /\ frame' = [frame EXCEPT ![t] = g]
               /\ g.pc = frame[t].pc /\ g.s = frame[t].s /\ g.then = frame[t].then
               /\ g.goal = frame[t].goal
    <2>1. CASE ReadOpenOrders(t)
      <3> DEFINE seen == {i \in LegIds : AdoptableLeg(i, frame[t].s, frame[t].goal)}
                 g == [frame[t] EXCEPT !.reply = "ok", !.seen = seen]
      <3>1. frame' = [frame EXCEPT ![t] = g]
        BY <2>1 DEF ReadOpenOrders
      <3>2. /\ g.pc = frame[t].pc /\ g.s = frame[t].s /\ g.then = frame[t].then
            /\ g.goal = frame[t].goal
        BY <1>2 DEF Frames
      <3> HIDE DEF g
      <3> QED
        BY <3>1, <3>2
    <2>2. CASE PlaceLeg(t)
      <3>1. PICK i : frame' = [frame EXCEPT ![t].reply = "ok", ![t].oid = i]
        BY <2>2 DEF PlaceLeg, Reliable
      <3> DEFINE g == [frame[t] EXCEPT !.reply = "ok", !.oid = i]
      <3>2. frame' = [frame EXCEPT ![t] = g]
        BY <3>1
      <3>3. /\ g.pc = frame[t].pc /\ g.s = frame[t].s /\ g.then = frame[t].then
            /\ g.goal = frame[t].goal
        BY <1>2 DEF Frames
      <3> HIDE DEF g
      <3> QED
        BY <3>2, <3>3
    <2> QED
      BY <2>1, <2>2
  <1>4. PICK g : /\ frame' = [frame EXCEPT ![t] = g]
                 /\ g.pc = frame[t].pc /\ g.s = frame[t].s /\ g.then = frame[t].then
                 /\ g.goal = frame[t].goal
    BY <1>3
  <1> QED
    BY <1>1, <1>4, OtherAnswerPassed

\* The two readings of the snapshot come before any record is claimed.
LEMMA SnapshotPassed ==
    ASSUME TypeInv, ShieldInv, PassInv, NEW t \in Tasks,
           ReadPositions(t) \/ ReadAllOrders(t)
    PROVE  PassInv'
  <1>1. /\ frame[t].pc \in {"recPositions", "recOrders"} /\ Answer(t, "ok")
        /\ UNCHANGED <<active, rec, ex>>
    BY DEF ReadPositions, ReadAllOrders, Awaiting, engineVars, exchangeVars
  <1>2. survey'.claimed = survey.claimed
    BY DEF ReadPositions, ReadAllOrders, TypeInv, Surveys
  <1>3. PICK g : /\ frame' = [frame EXCEPT ![t] = g]
                 /\ g.pc = frame[t].pc /\ g.s = frame[t].s /\ g.then = frame[t].then
    BY <1>1, AnswerWrites
  <1>4. Sweeps(active, rec, survey, frame[t])
    BY DEF PassInv, PassSweeps
  <1>5. g.then \notin {"recCheck", "recDone"} /\ survey.claimed = {}
    BY <1>1, <1>3, <1>4 DEF Sweeps, Protecting
  <1>6. Sweeps(active, rec, survey', g)
    BY <1>1, <1>2, <1>3, <1>5 DEF Sweeps, InPass
  <1>7. frame[t].s \notin Setups
    BY <1>1, ConstantsAssumption DEF ShieldInv, WorkNamesSetup, SetupPcs
  <1> QED
    BY <1>1, <1>3, <1>6, <1>7, AnswerPassed

\* A read of the entry order tells all it has filled, at least the snapshot's.
LEMMA ReadEntryPassed ==
    ASSUME TruthInv, ShieldInv, PassInv, NEW t \in Tasks, ReadEntry(t)
    PROVE  PassInv'
  <1> DEFINE f == frame[t]
             reply == IF ex[f.s].entry # "none" THEN ex[f.s].entry ELSE "missing"
             g == [f EXCEPT !.reply = reply, !.amt = ex[f.s].got]
  <1>1. /\ TypeInv /\ UNCHANGED <<active, rec, survey, ex>>
        /\ f.pc \in {"expGet", "recGet", "killVerify"} /\ f.pc # "idle"
    BY TruthTypes DEF ReadEntry, Awaiting, engineVars, exchangeVars
  <1>2. f \in Frames /\ f.s \in Setups
    BY <1>1, AtWork DEF SetupPcs
  <1>3. frame' = [frame EXCEPT ![t] = g]
    BY DEF ReadEntry
  <1>4. /\ g.pc = f.pc /\ g.s = f.s /\ g.then = f.then /\ g.goal = f.goal
        /\ g.amt = ex[f.s].got
    BY <1>2 DEF Frames
  <1> HIDE DEF g
  <1>5. Informed(ex[f.s], rec[f.s], f) /\ Sweeps(active, rec, survey, f)
    BY <1>2 DEF PassInv, CallsInformed, PassSweeps
  <1>6. Informed(ex'[f.s], rec[f.s], g)
    BY <1>1, <1>4, <1>5 DEF Informed
  <1>7. survey.pos[f.s] <= g.amt
    BY <1>2, <1>4 DEF TruthInv, SurveyTrue
  <1> HIDE DEF f
  <1>8. Sweeps(active, rec, survey', g)
    BY <1>1, <1>4, <1>5, <1>7, SweepsOn
  <1> QED
    BY <1>1, <1>3, <1>4, <1>6, <1>8, AnswerPassed DEF f

\* The cancel of an entry ends it.
LEMMA CancelEntryPassed ==
    ASSUME TypeInv, ShieldInv, PassInv, NEW t \in Tasks, CancelEntry(t)
    PROVE  PassInv'
  <1> DEFINE f == frame[t]
             o == [ex[f.s] EXCEPT !.entry = "cancelled"]
  <1>1. /\ UNCHANGED <<active, rec, survey>> /\ ex[f.s].entry = "open"
        /\ f.pc \in EntryCancelPcs /\ SetOrder(f.s, o) /\ \E reply : Answer(t, reply)
    BY DEF CancelEntry, AnswerOrLose, Awaiting, engineVars
  <1>2. f.s \in Setups
    BY <1>1, AtWork DEF SetupPcs, EntryCancelPcs
  <1>3. o.entry = "cancelled"
    BY <1>2 DEF TypeInv, GoodOrders, Orders
  <1>4. ex'[f.s] = o /\ \A s \in Setups \ {f.s} : ex'[s] = ex[s]
    BY <1>1, <1>2 DEF TypeInv, SetOrder
  <1> HIDE DEF o
  <1>5. PICK g : /\ frame' = [frame EXCEPT ![t] = g]
                 /\ g.pc = f.pc /\ g.s = f.s /\ g.then = f.then /\ g.goal = f.goal
    BY <1>1, AnswerWrites
  <1>6. Informed(ex[f.s], rec[f.s], f) /\ Sweeps(active, rec, survey, f)
    BY <1>2 DEF PassInv, CallsInformed, PassSweeps
  <1>7. Informed(ex'[f.s], rec[f.s], g)
    BY <1>1, <1>3, <1>4, <1>5, <1>6 DEF Informed, EntryCancelPcs
  <1>8. \A s \in Setups : Over(ex[s]) => Over(ex'[s])
    BY <1>1, <1>4 DEF Over
  <1>9. f.pc # "idle" /\ f.pc # "recGet"
    BY <1>1 DEF EntryCancelPcs
  <1> HIDE DEF f
  <1>10. Sweeps(active, rec, survey', g)
    BY <1>1, <1>5, <1>6, <1>9, SweepsOn
  <1> QED
    BY <1>1, <1>5, <1>7, <1>8, <1>9, <1>10, AnswerPassed DEF f

\* The entry is accepted: its record rests.
LEMMA AcceptEntryPassed ==
    ASSUME Reliable, TypeInv, ShieldInv, PassInv, NEW t \in Tasks, AcceptEntry(t)
    PROVE  PassInv'
  <1> DEFINE f == frame[t]
             status(n) == IF n = Qty THEN "filled" ELSE "open"
             g(n) == [f EXCEPT !.reply = status(n), !.amt = n]
  <1>1. UNCHANGED <<active, rec, survey>> /\ f.pc = "post"
    BY DEF AcceptEntry, Awaiting, engineVars
  <1>2. f \in Frames /\ f.s \in Setups /\ rec[f.s].state = "ENTRY_SUBMITTED"
    BY <1>1, AtWork DEF SetupPcs, Fits, Shielded
  <1>3. \A s \in Setups \ {f.s} : ex'[s] = ex[s]
    BY AcceptEntryGood
  <1>4. PICK n : frame' = [frame EXCEPT ![t].reply = status(n), ![t].amt = n]
    BY DEF AcceptEntry, Reliable
  <1>5. frame' = [frame EXCEPT ![t] = g(n)]
    BY <1>4
  <1>6. /\ g(n).pc = f.pc /\ g(n).s = f.s /\ g(n).then = f.then /\ g(n).goal = f.goal
        /\ g(n).reply \notin {"timeout", "error"}
    BY <1>2 DEF Frames
  <1> HIDE DEF g
  <1>7. Informed(ex'[f.s], rec[f.s], g(n))
    BY <1>1, <1>6 DEF Informed, Closers
  <1>8. Sweeps(active, rec, survey, f)
    BY DEF PassInv, PassSweeps
  <1> HIDE DEF f
  <1>9. Sweeps(active, rec, survey', g(n))
    BY <1>1, <1>6, <1>8, SweepsOn
  <1>10. \A s \in Setups : \/ Over(ex[s]) => Over(ex'[s])
                           \/ s = f.s /\ rec[s].state \in RestingStates
    BY <1>2, <1>3 DEF RestingStates
  <1> QED
    BY <1>1, <1>5, <1>6, <1>7, <1>9, <1>10, AnswerPassed DEF f

\* Every answer of a network that loses none.
LEMMA AnswersPassed ==
    ASSUME Reliable, TruthInv, ShieldInv, PassInv, NEW t \in Tasks, Answers(t)
    PROVE  PassInv'
  <1>1. TypeInv
    BY TruthTypes
  <1>2. ~AnswerError(t)
    BY DEF AnswerError, Reliable
  <1> QED
    BY <1>1, <1>2, PlainAnswersPassed, LegAnswersPassed, SnapshotPassed,
       ReadEntryPassed, CancelEntryPassed, AcceptEntryPassed DEF Answers

\* Every move of the exchange: only an open entry fills or ends.
LEMMA ExchangeMovesPassed ==
    ASSUME TypeInv, PassInv, ExchangeMoves
    PROVE  PassInv'
  <1>1. UNCHANGED <<active, rec, frame, survey>>
    BY DEF ExchangeMoves, FillEntry, EntryDies, BuildBracket, Flatten, LegFills,
           LegDropped, engineVars
  <1>2. ASSUME NEW s \in Setups, NEW o, SetOrder(s, o),
               \/ ex[s].entry = "open"
               \/ o.entry = ex[s].entry /\ o.got = ex[s].got
        PROVE  PassInv'
    <2>1. ex'[s] = o /\ \A x \in Setups \ {s} : ex'[x] = ex[x]
      BY <1>2 DEF SetOrder, TypeInv
    <2> QED
      BY <1>1, <1>2, <2>1, MovesPassed
  <1>3. ASSUME NEW s \in Setups, NEW n
        PROVE  /\ [ex[s] EXCEPT !.pos = n].entry = ex[s].entry
               /\ [ex[s] EXCEPT !.pos = n].got = ex[s].got
    BY DEF TypeInv, GoodOrders, Orders
  <1>4. ASSUME NEW s \in Setups, FillEntry(s) \/ EntryDies(s)
        PROVE  PassInv'
    BY <1>2, <1>4 DEF FillEntry, EntryDies
  <1>5. ASSUME NEW s \in Setups, Flatten(s)
        PROVE  PassInv'
    BY <1>2, <1>3, <1>5 DEF Flatten
  <1>6. ASSUME NEW i \in LegIds, LegFills(i)
        PROVE  PassInv'
    <2> DEFINE n == IF ex[leg[i].s].pos > leg[i].size
                    THEN ex[leg[i].s].pos - leg[i].size ELSE 0
    <2>1. SetOrder(leg[i].s, [ex[leg[i].s] EXCEPT !.pos = n])
      BY <1>6 DEF LegFills
    <2> HIDE DEF n
    <2>2. CASE leg[i].s \in Setups
      BY <1>2, <1>3, <2>1, <2>2
    <2>3. CASE leg[i].s \notin Setups
      <3>1. \A x \in Setups : ex'[x] = ex[x]
        BY <2>1, <2>3 DEF SetOrder, TypeInv
      <3> QED
        BY <1>1, <3>1, MovesPassed
    <2> QED
      BY <2>2, <2>3
  <1>7. ASSUME \/ \E s \in Setups : BuildBracket(s)
               \/ \E i \in LegIds : LegDropped(i)
        PROVE  PassInv'
    BY <1>1, <1>7, PassStands DEF BuildBracket, LegDropped
  <1> QED
    BY <1>4, <1>5, <1>6, <1>7 DEF ExchangeMoves

-----------------------------------------------------------------------------
(* A pass that ends clean *)

\* Without overlap, lost answers and kill switch the invariant is inductive.
LEMMA PassInductive ==
    ASSUME ~Overlap, Reliable, TruthInv, ShieldInv, PassInv, [Next]_vars
    PROVE  PassInv'
  <1>1. TypeInv /\ TruthInv'
    <2>1. TypeInv
      BY TruthTypes
    <2>2. TruthInv'
      BY TruthInductive
    <2> QED
      BY <2>1, <2>2
  <1>2. CASE UNCHANGED vars
    BY <1>2, PassStands DEF vars, engineVars, exchangeVars
  <1>3. ASSUME NEW t \in Tasks, Calls(t) \/ Proceeds(t)
        PROVE  PassInv'
    BY <1>1, <1>3, CallsPassed, ProceedsPassed DEF Reliable
  <1>4. ASSUME NEW t \in Tasks, Answers(t)
        PROVE  PassInv'
    BY <1>4, AnswersPassed
  <1>5. CASE ExchangeMoves
    BY <1>1, <1>5, ExchangeMovesPassed
  <1> QED
    BY <1>2, <1>3, <1>4, <1>5 DEF Next

\* Only FinishReconcile ends a pass between two records.
LEMMA PassEnds ==
    ASSUME ~Overlap, TypeInv, ShieldInv, [Next]_vars, NEW t \in Tasks, EndsPass(t)
    PROVE  FinishReconcile(t)
  <1>1. frame[t].pc = "recNext" /\ frame'[t].pc = "idle"
    BY DEF EndsPass
  <1>2. frame' # frame
    BY <1>1
  <1>3. \A u \in Tasks \ {t} : frame[u].pc = "idle"
    BY <1>1 DEF ShieldInv, OneAtATime
  <1>4. ASSUME NEW u \in Tasks PROVE ~Calls(u)
    <2>1. \A op : ~Begin(u, op)
      BY <1>1 DEF Begin, Idle
    <2> QED
      BY <1>2, <2>1
         DEF Calls, RefuseSetup, RefuseAtGateway, Submit, OrderEvent, FillEvent,
             OrphanPositionEvent, ClosureEvent, Expire, StreamIntegrityLost, Reconcile,
             KillSwitch, ResetKillSwitch, ClearAlerts, BlockOnMutex
  <1>5. ASSUME NEW u \in Tasks PROVE ~Answers(u)
    <2>1. frame[u].pc \notin AwaitPcs
      BY <1>1, <1>3 DEF AwaitPcs
    <2> QED
      BY <2>1
         DEF Answers, AnswerError, AnswerRefused, RefuseEntry, AcceptEntry,
             CancelEntry, ReadEntry, ReadEcho, CancelLeg, ReadLeg, ReadOpenOrders,
             PlaceLeg, ReadBalance, ReadPositions, ReadAllOrders, Awaiting, AwaitPcs,
             EntryCancelPcs, LegCancelPcs
  <1>6. ~ExchangeMoves
    BY <1>2 DEF ExchangeMoves, FillEntry, EntryDies, BuildBracket, Flatten, LegFills,
                LegDropped
  <1>7. PICK u \in Tasks : Proceeds(u)
    BY <1>2, <1>4, <1>5, <1>6 DEF Next, vars
  <1>8. frame[u].pc \in {"idle", "recNext"}
    BY <1>1, <1>3
  <1>9. VisitRecord(u) \/ FinishReconcile(u)
    BY <1>7, <1>8
       DEF Proceeds, ResumePost, ResumeCancel, ResumeVerify, ResumeEcho,
           ResumeOpenOrders, ResumePlace, ResumeBalance, StartClose,
           ResumeCloseCancel, ResumeCloseVerify, ResumeExpireCancel,
           ResumeExpireGet, KillNext, ResumeKillCancel, ResumeKillVerify,
           ResumeSnapshot, ResumeRefresh, CheckRecord, RecordDone, Resume, Continue
  <1>10. u = t
    BY <1>3, <1>9 DEF VisitRecord, FinishReconcile, Continue
  <1>11. ~VisitRecord(t)
    <2> SUFFICES ASSUME VisitRecord(t) PROVE FALSE
      OBVIOUS
    <2> DEFINE get(s) == [IdleFrame EXCEPT !.pc = "recGet", !.s = s, !.then = "recCheck",
                                           !.reply = "wait", !.amt = 0, !.seen = {}]
               check(s) == [IdleFrame EXCEPT !.pc = "recCheck", !.s = s]
    <2>1. PICK s \in Setups : \/ frame' = [frame EXCEPT ![t] = get(s)]
                              \/ frame' = [frame EXCEPT ![t] = check(s)]
      BY <1>2 DEF VisitRecord, Await, Step, TypeInv, Surveys
    <2>2. get(s).pc = "recGet" /\ check(s).pc = "recCheck"
      BY DEF IdleFrame
    <2> HIDE DEF get, check
    <2> QED
      BY <1>1, <2>1, <2>2 DEF TypeInv
  <1> QED
    BY <1>9, <1>10, <1>11

\* A pass that ends with nothing to report has claimed every setup with a
\* position in its snapshot, and every record it claimed agrees with it.
LEMMA CleanEnd ==
    ASSUME TypeInv, PassInv, NEW t \in Tasks, frame[t].s = NoOne, FinishReconcile(t),
           ~survey.dirty, ~alerts', NEW s \in Setups, survey.pos[s] > 0
    PROVE  BothLegs(rec[s]) /\ rec[s].protected = survey.pos[s]
  <1>1. Swept(active, rec, survey, NoOne)
    BY DEF FinishReconcile, Continue, PassInv, PassSweeps, Sweeps, InPass
  <1>2. s \in survey.claimed
    BY DEF FinishReconcile, Orphans
  <1>3. Agrees(survey, s, rec[s])
    BY <1>1, <1>2, ConstantsAssumption DEF Swept
  <1> QED
    BY <1>3 DEF Agrees

\* When every request is answered, no call is suspended inside another and the
\* kill switch is left alone, a reconciliation pass that ends with the alerts
\* cleared has found or restored both protective orders, of the size of the
\* snapshot, for every position in it.
THEOREM CleanPassSees ==
    ASSUME ~Overlap, Reliable
    PROVE  Spec => CleanPassSeesProtection
  <1>1. Init => TruthInv /\ ShieldInv /\ PassInv
    BY InitTrue, InitShielded, InitSwept
  <1>2. TruthInv /\ ShieldInv /\ PassInv /\ [Next]_vars =>
            TruthInv' /\ ShieldInv' /\ PassInv'
    BY TruthInductive, ShieldInductive, PassInductive
  <1>3. TruthInv /\ ShieldInv /\ PassInv /\ [Next]_vars =>
            [\A t \in Tasks : EndsPass(t) /\ ~survey.dirty /\ ~alerts' =>
               \A s \in Setups : survey.pos[s] > 0 =>
                   BothLegs(rec[s]) /\ rec[s].protected = survey.pos[s]]_vars
    <2> SUFFICES ASSUME TruthInv, ShieldInv, PassInv, [Next]_vars, NEW t \in Tasks,
                        EndsPass(t), ~survey.dirty, ~alerts',
                        NEW s \in Setups, survey.pos[s] > 0
                 PROVE  BothLegs(rec[s]) /\ rec[s].protected = survey.pos[s]
      OBVIOUS
    <2>1. TypeInv
      BY TruthTypes
    <2>2. FinishReconcile(t)
      BY <2>1, PassEnds
    <2>3. frame[t].s = NoOne
      BY DEF EndsPass, ShieldInv, WorkNamesSetup, SetupPcs
    <2> QED
      BY <2>1, <2>2, <2>3, CleanEnd
  <1> QED
    BY <1>1, <1>2, <1>3, PTL DEF Spec, CleanPassSeesProtection
=============================================================================
