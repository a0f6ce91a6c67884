------------------------ MODULE PrivateStreamProofs ------------------------
(***************************************************************************)
(* Theorems about the private stream and the store it keeps: for every set *)
(* of orders, every quantity, any number of attempts, faults and frames on *)
(* the wire.                                                               *)
(*                                                                         *)
(* The effects of the exchange's moves and of what happens to the wire are *)
(* established once; the invariants follow from the effects.               *)
(***************************************************************************)
EXTENDS PrivateStream, SequenceTheorems, FiniteSetTheorems, TLAPS

-----------------------------------------------------------------------------
(* Types: what TypeOK rests on                                             *)

\* Trades follow one another: only the holder's entry is live, the position is
\* made of its fills, and an order never sent has none.
OneTradeAtATime ==
    /\ \A e \in Entries : xo[e].status \in Live => lock = e
    /\ xp = 0 \/ (lock \in Entries /\ xp <= xo[lock].filled)
    /\ \A o \in OrderIds : xo[o].status = "none" => xo[o].filled = 0

\* run() counts its attempts no further than one too many.
AttemptsCounted == run.pc # "ended" => run.attempt <= MaxAttempts

TypeInv == TypeOK /\ OneTradeAtATime /\ AttemptsCounted

-----------------------------------------------------------------------------
(* What a move of the exchange does                                        *)

\* What a position frame leaves in the store.
PositionOf(f) == IF IsClosure(f) THEN 0 ELSE f.n

\* The orders after a move: nothing is unsent again, what ended has ended, only
\* stops rest PENDING.
OrdersAdvance(before, after) ==
    \A o \in OrderIds :
        /\ before[o].status # "none" => after[o].status # "none"
        /\ before[o].status \in Finished => after[o].status \in Finished
        /\ after[o].status = "PENDING" => before[o].status = "PENDING" \/ o \in Stops

\* What the frames of a move say is so after it.
FramesTell(m) ==
    /\ DOMAIN m.frames \subseteq Channels
    /\ \A c \in DOMAIN m.frames : m.frames[c] \in Bodies /\ m.frames[c].ch = c
    /\ "orders" \notin DOMAIN m.frames => m.xo = xo
    /\ "orders" \in DOMAIN m.frames =>
          /\ m.frames["orders"].id \in OrderIds
          /\ m.frames["orders"].status = m.xo[m.frames["orders"].id].status
          /\ m.frames["orders"].status # "none"
          /\ \A p \in OrderIds : p # m.frames["orders"].id => m.xo[p] = xo[p]
    /\ "positions" \notin DOMAIN m.frames => m.xp = xp
    /\ "positions" \in DOMAIN m.frames => PositionOf(m.frames["positions"]) = m.xp

\* The account after a move is a sound one.
SoundMove(m) ==
    /\ m.xo \in [OrderIds -> Order]
    /\ m.xp \in Sizes
    /\ \A e \in Entries : m.xo[e].status \in Live => lock = e
    /\ m.xp = 0 \/ (lock \in Entries /\ m.xp <= m.xo[lock].filled)
    /\ \A o \in OrderIds : m.xo[o].status = "none" => m.xo[o].filled = 0
    /\ OrdersAdvance(xo, m.xo)

\* The frames of a move of one order, whichever channels announce it.
LEMMA MoveTells ==
    ASSUME AccountAssumption, AccountTypeOK, NEW o \in OrderIds, NEW ord \in Order, NEW pos \in Sizes,
           NEW chs \in {{"orders"}, Channels}, ord.status # "none",
           chs = {"orders"} => pos = xp,
           chs = Channels => ord.filled \in 1..Qty /\ (pos = 0 => xp > 0)
    PROVE  FramesTell(Move(o, ord, pos, chs))
<1>0. Channels # {"orders"}
    BY DEF Channels
<1> DEFINE m == Move(o, ord, pos, chs)
           fs == [c \in chs |->
                    IF c = "orders" THEN OrderFrame(o, ord)
                    ELSE IF c = "user_trades" THEN TradeFrame(o, ord)
                    ELSE PositionFrame(xp, pos)]
<1>1. m.xo = [xo EXCEPT ![o] = ord] /\ m.xp = pos /\ m.frames = fs
    BY DEF Move
<1>2. chs \subseteq Channels /\ DOMAIN fs = chs
    BY DEF Channels
<1>t. ord.status \in Statuses /\ ord.filled \in Sizes /\ xp \in Nat /\ pos \in Nat /\ Qty \in Nat
      /\ xp <= Qty /\ pos <= Qty
    BY DEF Order, AccountTypeOK, Sizes, AccountAssumption
<1>3. OrderFrame(o, ord) \in OrderBodies /\ OrderFrame(o, ord).ch = "orders"
      /\ OrderFrame(o, ord).id = o /\ OrderFrame(o, ord).status = ord.status
    <2>1. (ord.status \in Finished) \in BOOLEAN
        BY DEF Finished
    <2> QED BY <2>1, <1>t DEF OrderFrame, OrderBodies
<1>4. ASSUME chs = Channels
      PROVE  /\ TradeFrame(o, ord) \in TradeBodies /\ TradeFrame(o, ord).ch = "user_trades"
             /\ PositionFrame(xp, pos) \in PositionBodies /\ PositionFrame(xp, pos).ch = "positions"
    <2>1. ord.filled \in 1..Qty /\ (pos = 0 => xp > 0)
        BY <1>4
    <2>2. (pos = 0) \in BOOLEAN
        OBVIOUS
    <2>3. (IF pos = 0 THEN xp ELSE pos) \in 1..Qty
        BY <2>1, <1>t
    <2> QED BY <2>1, <2>2, <2>3 DEF TradeFrame, TradeBodies, PositionFrame, PositionBodies
<1>5. PositionOf(PositionFrame(xp, pos)) = pos
    BY <1>t DEF PositionOf, PositionFrame, IsClosure
<1>6. \A c \in chs : fs[c] \in Bodies /\ fs[c].ch = c
    <2> SUFFICES ASSUME NEW c \in chs PROVE fs[c] \in Bodies /\ fs[c].ch = c
        OBVIOUS
    <2>1. CASE c = "orders"
        BY <2>1, <1>3 DEF Bodies
    <2>2. CASE c # "orders"
        <3>1. chs = Channels
            BY <2>2
        <3>2. c = "user_trades" \/ c = "positions"
            BY <2>2, <3>1 DEF Channels
        <3> QED BY <3>1, <3>2, <2>2, <1>4 DEF Bodies
    <2> QED BY <2>1, <2>2
<1>7. m.xo[o] = ord /\ \A p \in OrderIds : p # o => m.xo[p] = xo[p]
    BY <1>1 DEF AccountTypeOK
<1>8. "orders" \in chs /\ fs["orders"] = OrderFrame(o, ord)
    BY DEF Channels
<1>9. "positions" \in chs => fs["positions"] = PositionFrame(xp, pos)
    OBVIOUS
<1>10. "positions" \notin chs => pos = xp
    BY DEF Channels
<1> HIDE DEF m, fs
<1> QED
    <2> SUFFICES FramesTell(m)
        BY DEF m
    <2> QED BY <1>1, <1>2, <1>3, <1>5, <1>6, <1>7, <1>8, <1>9, <1>10 DEF FramesTell

\* A move that gives order o a sound record and the holder a sound position.
LEMMA MoveIsSound ==
    ASSUME AccountAssumption, AccountTypeOK, OneTradeAtATime,
           NEW o \in OrderIds, NEW ord \in Order, NEW pos \in Sizes, NEW chs,
           o \in Entries /\ ord.status \in Live => lock = o,
           pos = 0 \/ (lock \in Entries /\ pos <= IF lock = o THEN ord.filled ELSE xo[lock].filled),
           ord.status # "none",
           xo[o].status \in Finished => ord.status \in Finished,
           ord.status = "PENDING" => o \in Stops
    PROVE  SoundMove(Move(o, ord, pos, chs))
<1> DEFINE m == Move(o, ord, pos, chs)
<1>1. m.xo = [xo EXCEPT ![o] = ord] /\ m.xp = pos
    BY DEF Move
<1>2. xo \in [OrderIds -> Order] /\ Entries \subseteq OrderIds
    BY DEF AccountTypeOK, OrderIds
<1>3. m.xo[o] = ord /\ (\A p \in OrderIds : p # o => m.xo[p] = xo[p])
      /\ m.xo \in [OrderIds -> Order]
    BY <1>1, <1>2
<1> HIDE DEF m
<1>4. \A e \in Entries : m.xo[e].status \in Live => lock = e
    BY <1>2, <1>3 DEF OneTradeAtATime
<1>5. m.xp = 0 \/ (lock \in Entries /\ m.xp <= m.xo[lock].filled)
    BY <1>1, <1>2, <1>3
<1>6. \A p \in OrderIds : m.xo[p].status = "none" => m.xo[p].filled = 0
    BY <1>3 DEF OneTradeAtATime
<1>7. OrdersAdvance(xo, m.xo)
    BY <1>3 DEF OrdersAdvance
<1> QED
    <2> SUFFICES SoundMove(m)
        BY DEF m
    <2> QED BY <1>1, <1>3, <1>4, <1>5, <1>6, <1>7 DEF SoundMove

\* Every move of the exchange is sound and its frames tell it.
LEMMA MoveEffect ==
    ASSUME AccountAssumption, AccountTypeOK, OneTradeAtATime, NEW m \in Moves
    PROVE  SoundMove(m) /\ FramesTell(m)
<1>t. /\ xo \in [OrderIds -> Order] /\ xp \in Nat /\ xp <= Qty /\ Qty \in Nat \ {0}
      /\ Entries \subseteq OrderIds /\ Stops \subseteq OrderIds
      /\ \A o \in OrderIds : xo[o].status \in Statuses /\ xo[o].filled \in Nat /\ xo[o].filled <= Qty
    BY DEF AccountTypeOK, AccountAssumption, OrderIds, Sizes, Order
<1>v. /\ \A n \in Nat : n <= Qty => n \in Sizes
      /\ \A s \in Statuses, n \in Sizes : [status |-> s, filled |-> n] \in Order
    BY <1>t DEF Sizes, Order
<1>x. xp \in Sizes
    BY DEF AccountTypeOK
<1>s. {"OPEN", "PENDING", "PARTIALLY_FILLED", "FILLED", "CANCELLED"} \subseteq Statuses
    BY DEF Statuses, Live, Finished
<1>1. CASE m \in Placed
    <2>1. ASSUME NEW o \in OrderIds, NEW st \in {"OPEN", "PENDING"},
                 m = Move(o, [status |-> st, filled |-> 0], xp, {"orders"}),
                 xo[o].status = "none",
                 o \in Entries => lock = o /\ st = "OPEN",
                 st = "PENDING" => o \in Stops
          PROVE  SoundMove(m) /\ FramesTell(m)
        <3> DEFINE ord == [status |-> st, filled |-> 0]
        <3>1. ord \in Order /\ ord.status = st /\ ord.filled = 0
            <4>1. st \in Statuses
                BY <1>s
            <4>2. 0 \in Sizes
                BY <1>t, <1>v
            <4> QED BY <4>1, <4>2, <1>v
        <3>2. xo[o].filled = 0 /\ xo[o].status \notin Finished
            BY <2>1 DEF OneTradeAtATime, Finished
        <3>3. xp = 0 \/ (lock \in Entries /\ xp <= IF lock = o THEN ord.filled ELSE xo[lock].filled)
            BY <3>1, <3>2 DEF OneTradeAtATime
        <3>4. m = Move(o, ord, xp, {"orders"})
            BY <2>1
        <3> HIDE DEF ord
        <3>5. SoundMove(Move(o, ord, xp, {"orders"}))
            BY <2>1, <3>1, <3>2, <3>3, <1>x, MoveIsSound
        <3>6. FramesTell(Move(o, ord, xp, {"orders"}))
            <4>1. ord.status # "none" /\ {"orders"} # Channels
                BY <2>1, <3>1 DEF Channels
            <4> QED BY <4>1, <2>1, <3>1, <1>x, MoveTells
        <3> QED BY <3>4, <3>5, <3>6
    <2>2. CASE m \in {Move(o, [status |-> "OPEN", filled |-> 0], xp, {"orders"}) :
                        o \in {e \in Entries : lock = e /\ xo[e].status = "none"}}
        <3>1. PICK o \in Entries : /\ lock = o /\ xo[o].status = "none"
                                   /\ m = Move(o, [status |-> "OPEN", filled |-> 0], xp, {"orders"})
            BY <2>2
        <3> QED BY <2>1, <3>1, <1>t
    <2>3. CASE m \in {Move(o, [status |-> "PENDING", filled |-> 0], xp, {"orders"}) :
                        o \in {s \in Stops : xp > 0 /\ xo[s].status = "none"}}
        <3>1. PICK o \in Stops : /\ xo[o].status = "none"
                                 /\ m = Move(o, [status |-> "PENDING", filled |-> 0], xp, {"orders"})
            BY <2>3
        <3>2. o \notin Entries
            BY <3>1 DEF AccountAssumption
        <3> QED BY <2>1, <3>1, <3>2, <1>t
    <2> QED BY <1>1, <2>2, <2>3 DEF Placed
<1>2. CASE m \in Executed
    <2>1. ASSUME NEW o \in Entries, NEW k \in 1..Qty,
                 xo[o].status \in Live, k > xo[o].filled,
                 m = Move(o, [status |-> IF k = Qty THEN "FILLED" ELSE "PARTIALLY_FILLED",
                              filled |-> k], xp + (k - xo[o].filled), Channels)
          PROVE  SoundMove(m) /\ FramesTell(m)
        <3> DEFINE st == IF k = Qty THEN "FILLED" ELSE "PARTIALLY_FILLED"
                   ord == [status |-> st, filled |-> k]
                   pos == xp + (k - xo[o].filled)
        <3>0. o \in OrderIds /\ lock = o /\ xo[o].filled \in Nat
            BY <2>1, <1>t DEF OneTradeAtATime
        <3>1. ord \in Order /\ ord.status = st /\ ord.filled = k
            <4>1. st \in Statuses
                BY <1>s
            <4>2. k \in Sizes
                BY <1>t, <1>v
            <4> QED BY <4>1, <4>2, <1>v
        <3>2. pos \in Nat /\ pos <= k /\ pos > 0
            BY <3>0, <2>1, <1>t DEF OneTradeAtATime
        <3>3. pos \in Sizes
            BY <3>2, <1>t, <1>v
        <3>4. xo[o].status \notin Finished /\ ord.status # "none" /\ ord.status # "PENDING"
            BY <2>1, <3>1 DEF Live, Finished
        <3>5. pos = 0 \/ (lock \in Entries /\ pos <= IF lock = o THEN ord.filled ELSE xo[lock].filled)
            BY <3>0, <3>1, <3>2
        <3>6. m = Move(o, ord, pos, Channels)
            BY <2>1
        <3>7. ord.filled \in 1..Qty /\ (pos = 0 => xp > 0)
            BY <3>1, <3>2
        <3> HIDE DEF st, ord, pos
        <3>8. SoundMove(Move(o, ord, pos, Channels))
            BY <3>0, <3>1, <3>3, <3>4, <3>5, MoveIsSound
        <3>9. FramesTell(Move(o, ord, pos, Channels))
            <4>1. {"orders"} # Channels
                BY DEF Channels
            <4> QED BY <4>1, <3>0, <3>1, <3>3, <3>4, <3>7, MoveTells
        <3> QED BY <3>6, <3>8, <3>9
    <2>2. ASSUME NEW o \in Stops, xo[o].status = "PENDING", xp > 0,
                 m = Move(o, [status |-> "FILLED", filled |-> xp], 0, Channels)
          PROVE  SoundMove(m) /\ FramesTell(m)
        <3> DEFINE ord == [status |-> "FILLED", filled |-> xp]
        <3>0. o \in OrderIds /\ o \notin Entries
            BY <1>t DEF AccountAssumption
        <3>1. ord \in Order /\ ord.status = "FILLED" /\ ord.filled = xp
            BY <1>s, <1>x, <1>v
        <3>2. 0 \in Sizes /\ xp \in 1..Qty
            BY <2>2, <1>t, <1>v
        <3>3. ord.status \in Finished
            BY <3>1 DEF Finished
        <3>4. m = Move(o, ord, 0, Channels)
            BY <2>2
        <3> HIDE DEF ord
        <3>5. SoundMove(Move(o, ord, 0, Channels))
            BY <3>0, <3>1, <3>2, <3>3, MoveIsSound
        <3>6. FramesTell(Move(o, ord, 0, Channels))
            <4>1. {"orders"} # Channels /\ ord.status # "none"
                BY <3>1 DEF Channels
            <4> QED BY <4>1, <3>0, <3>1, <3>2, <2>2, MoveTells
        <3> QED BY <3>4, <3>5, <3>6
    <2>3. \/ \E p \in {q \in Entries \X (1..Qty) :
                          xo[q[1]].status \in Live /\ q[2] > xo[q[1]].filled} :
                m = Move(p[1], [status |-> IF p[2] = Qty THEN "FILLED" ELSE "PARTIALLY_FILLED",
                                filled |-> p[2]], xp + (p[2] - xo[p[1]].filled), Channels)
          \/ \E o \in {s \in Stops : xo[s].status = "PENDING" /\ xp > 0} :
                m = Move(o, [status |-> "FILLED", filled |-> xp], 0, Channels)
        BY <1>2 DEF Executed
    <2>4. CASE \E p \in {q \in Entries \X (1..Qty) :
                          xo[q[1]].status \in Live /\ q[2] > xo[q[1]].filled} :
                m = Move(p[1], [status |-> IF p[2] = Qty THEN "FILLED" ELSE "PARTIALLY_FILLED",
                                filled |-> p[2]], xp + (p[2] - xo[p[1]].filled), Channels)
        BY <2>1, <2>4
    <2> QED BY <2>2, <2>3, <2>4
<1>3. CASE m \in Ended
    <2>1. ASSUME NEW o \in OrderIds, xo[o].status \in Live,
                 m = Move(o, [xo[o] EXCEPT !.status = "CANCELLED"], xp, {"orders"})
          PROVE  SoundMove(m) /\ FramesTell(m)
        <3> DEFINE ord == [xo[o] EXCEPT !.status = "CANCELLED"]
        <3>0. xo[o] \in Order
            BY <1>t
        <3>1. ord \in Order /\ ord.status = "CANCELLED" /\ ord.filled = xo[o].filled
            BY <3>0, <1>s DEF Order
        <3>2. ord.status \in Finished /\ ord.status \notin Live /\ ord.status # "none"
              /\ ord.status # "PENDING"
            BY <3>1 DEF Finished, Live
        <3>3. xp = 0 \/ (lock \in Entries /\ xp <= IF lock = o THEN ord.filled ELSE xo[lock].filled)
            BY <3>1 DEF OneTradeAtATime
        <3>4. m = Move(o, ord, xp, {"orders"})
            BY <2>1
        <3> HIDE DEF ord
        <3>5. SoundMove(Move(o, ord, xp, {"orders"}))
            BY <3>1, <3>2, <3>3, <1>x, MoveIsSound
        <3>6. FramesTell(Move(o, ord, xp, {"orders"}))
            <4>1. {"orders"} # Channels
                BY DEF Channels
            <4> QED BY <4>1, <3>1, <3>2, <1>x, MoveTells
        <3> QED BY <3>4, <3>5, <3>6
    <2>2. ASSUME xp # 0,
                 m = [xo |-> xo, xp |-> 0, frames |-> [c \in {"positions"} |-> PositionFrame(xp, 0)]]
          PROVE  SoundMove(m) /\ FramesTell(m)
        <3> DEFINE f == PositionFrame(xp, 0)
                   fs == [c \in {"positions"} |-> f]
        <3>1. m.xo = xo /\ m.xp = 0 /\ m.frames = fs
            BY <2>2
        <3>2. f \in PositionBodies /\ f.ch = "positions" /\ PositionOf(f) = 0
            <4>1. xp \in 1..Qty
                BY <2>2, <1>t
            <4>2. f = [ch |-> "positions", id |-> "position", status |-> "none",
                       n |-> xp, deletes |-> TRUE]
                BY DEF PositionFrame
            <4> HIDE DEF f
            <4> QED BY <4>1, <4>2 DEF PositionBodies, PositionOf, IsClosure
        <3>3. DOMAIN fs = {"positions"} /\ fs["positions"] = f
            OBVIOUS
        <3> HIDE DEF f, fs
        <3>4. SoundMove(m)
            <4>1. 0 \in Sizes
                BY <1>t, <1>v
            <4>2. OrdersAdvance(xo, m.xo)
                BY <3>1 DEF OrdersAdvance
            <4> QED BY <3>1, <1>t, <4>1, <4>2 DEF SoundMove, OneTradeAtATime
        <3>5. FramesTell(m)
            <4>1. "positions" \in Channels /\ "orders" # "positions"
                BY DEF Channels
            <4>2. f \in Bodies
                BY <3>2 DEF Bodies
            <4> QED BY <3>1, <3>2, <3>3, <4>1, <4>2 DEF FramesTell
        <3> QED BY <3>4, <3>5
    <2>3. \/ \E o \in {e \in OrderIds : xo[e].status \in Live} :
                m = Move(o, [xo[o] EXCEPT !.status = "CANCELLED"], xp, {"orders"})
          \/ xp # 0 /\ m = [xo |-> xo, xp |-> 0,
                            frames |-> [c \in {"positions"} |-> PositionFrame(xp, 0)]]
        BY <1>3 DEF Ended
    <2> QED BY <2>1, <2>2, <2>3
<1> QED BY <1>1, <1>2, <1>3 DEF Moves

-----------------------------------------------------------------------------
(* What happens to the wire                                                *)

\* The sequence s holds the elements of the set A and no others.
Holds(s, A) ==
    /\ \A i \in 1..Len(s) : s[i] \in A
    /\ \A f \in A : \E i \in 1..Len(s) : s[i] = f

\* v is w with the frames of N behind it.
Appends(w, v, N) ==
    /\ v \in Seq(Frames) /\ Len(w) <= Len(v)
    /\ \A i \in 1..Len(w) : v[i] = w[i]
    /\ \A i \in 1..Len(v) : i > Len(w) => v[i] \in N
    /\ \A f \in N : \E i \in 1..Len(v) : v[i] = f

\* v is w with one of its frames sent twice in a row.
Doubles(w, v) ==
    /\ v \in Seq(Frames) /\ Len(v) = Len(w) + 1
    /\ \E p \in 1..Len(w) : \A i \in 1..Len(v) : v[i] = w[IF i <= p THEN i ELSE i - 1]

\* v is what is left of w without its first frame.
Drops(w, v) ==
    /\ v \in Seq(Frames) /\ w # <<>> /\ Len(w) = Len(v) + 1
    /\ \A i \in 1..Len(v) : v[i] = w[i + 1]
    /\ Head(w) = w[1] /\ w[1] \in Frames

\* v is a first part of w.
Begins(w, v) ==
    /\ v \in Seq(Frames) /\ Len(v) <= Len(w)
    /\ \A i \in 1..Len(v) : v[i] = w[i]

\* A concatenation holds what its parts hold.
LEMMA HoldsBoth ==
    ASSUME NEW s \in Seq(Frames), NEW t \in Seq(Frames), NEW A, NEW B, Holds(s, A), Holds(t, B)
    PROVE  s \o t \in Seq(Frames) /\ Holds(s \o t, A \cup B)
<1> DEFINE u == s \o t
<1>1. /\ u \in Seq(Frames) /\ Len(u) = Len(s) + Len(t)
      /\ \A i \in 1..(Len(s) + Len(t)) : u[i] = IF i <= Len(s) THEN s[i] ELSE t[i - Len(s)]
    BY ConcatProperties
<1>2. Len(s) \in Nat /\ Len(t) \in Nat
    BY LenProperties
<1> HIDE DEF u
<1>3. \A i \in 1..Len(u) : u[i] \in A \cup B
    <2> SUFFICES ASSUME NEW i \in 1..Len(u) PROVE u[i] \in A \cup B
        OBVIOUS
    <2>1. CASE i <= Len(s)
        <3>1. i \in 1..Len(s)
            BY <2>1, <1>2
        <3> QED BY <1>1, <3>1, <2>1 DEF Holds
    <2>2. CASE ~(i <= Len(s))
        <3>1. i - Len(s) \in 1..Len(t)
            BY <2>2, <1>1, <1>2
        <3> QED BY <1>1, <3>1, <2>2 DEF Holds
    <2> QED BY <2>1, <2>2
<1>4. ASSUME NEW f \in A PROVE \E i \in 1..Len(u) : u[i] = f
    <2>1. PICK i \in 1..Len(s) : s[i] = f
        BY DEF Holds
    <2>2. i \in 1..Len(u) /\ i <= Len(s)
        BY <1>1, <1>2
    <2> QED BY <2>1, <2>2, <1>1
<1>5. ASSUME NEW f \in B PROVE \E i \in 1..Len(u) : u[i] = f
    <2>1. PICK i \in 1..Len(t) : t[i] = f
        BY DEF Holds
    <2>2. i + Len(s) \in 1..Len(u) /\ ~(i + Len(s) <= Len(s)) /\ (i + Len(s)) - Len(s) = i
        BY <1>1, <1>2
    <2> QED BY <2>1, <2>2, <1>1
<1> QED
    <2>1. Holds(u, A \cup B)
        BY <1>3, <1>4, <1>5 DEF Holds
    <2> QED BY <1>1, <2>1 DEF u

\* Publication puts frames behind those on the wire.
LEMMA AppendsConcat ==
    ASSUME NEW w \in Seq(Frames), NEW s \in Seq(Frames), NEW N, Holds(s, N)
    PROVE  Appends(w, w \o s, N)
<1> DEFINE u == w \o s
<1>1. /\ u \in Seq(Frames) /\ Len(u) = Len(w) + Len(s)
      /\ \A i \in 1..(Len(w) + Len(s)) : u[i] = IF i <= Len(w) THEN w[i] ELSE s[i - Len(w)]
    BY ConcatProperties
<1>2. Len(w) \in Nat /\ Len(s) \in Nat
    BY LenProperties
<1> HIDE DEF u
<1>3. Len(w) <= Len(u)
    BY <1>1, <1>2
<1>4. \A i \in 1..Len(w) : u[i] = w[i]
    BY <1>1, <1>2
<1>5. ASSUME NEW i \in 1..Len(u), i > Len(w) PROVE u[i] \in N
    <2>1. i - Len(w) \in 1..Len(s) /\ ~(i <= Len(w))
        BY <1>1, <1>2, <1>5
    <2> QED BY <1>1, <2>1 DEF Holds
<1>6. ASSUME NEW f \in N PROVE \E i \in 1..Len(u) : u[i] = f
    <2>1. PICK i \in 1..Len(s) : s[i] = f
        BY DEF Holds
    <2>2. i + Len(w) \in 1..Len(u) /\ ~(i + Len(w) <= Len(w)) /\ (i + Len(w)) - Len(w) = i
        BY <1>1, <1>2
    <2> QED BY <2>1, <2>2, <1>1
<1> QED
    <2>1. Appends(w, u, N)
        BY <1>1, <1>3, <1>4, <1>5, <1>6 DEF Appends
    <2> QED BY <2>1 DEF u

\* A repeated frame follows itself.
LEMMA RepeatDoubles ==
    ASSUME NEW w \in Seq(Frames), NEW p \in 1..Len(w)
    PROVE  Doubles(w, SubSeq(w, 1, p) \o SubSeq(w, p, Len(w)))
<1> DEFINE a == SubSeq(w, 1, p)
           b == SubSeq(w, p, Len(w))
           u == a \o b
<1>0. Len(w) \in Nat /\ p \in Nat /\ 1 <= p /\ p <= Len(w) /\ p \in Int /\ Len(w) \in Int
      /\ 1 \in Int
    BY LenProperties
<1>e. \A i \in 1..Len(w) : w[i] \in Frames
    BY ElementOfSeq
<1>1. /\ a \in Seq(Frames) /\ Len(a) = p
      /\ \A i \in 1..p : a[i] = w[i]
    <2>1. \A i \in 1..p : w[i] \in Frames
        BY <1>0, <1>e
    <2>2. /\ a \in Seq(Frames)
          /\ Len(a) = IF 1 <= p THEN p - 1 + 1 ELSE 0
          /\ \A i \in 1..(p - 1 + 1) : a[i] = w[1 + i - 1]
        BY <2>1, <1>0, SubSeqProperties
    <2>3. p - 1 + 1 = p /\ \A i \in 1..p : 1 + i - 1 = i
        BY <1>0
    <2> HIDE DEF a
    <2> QED BY <2>2, <2>3, <1>0
<1>2. /\ b \in Seq(Frames) /\ Len(b) = Len(w) - p + 1
      /\ \A i \in 1..(Len(w) - p + 1) : b[i] = w[p + i - 1]
    <2>1. \A i \in p..Len(w) : w[i] \in Frames
        BY <1>0, <1>e
    <2> QED BY <2>1, <1>0, SubSeqProperties
<1> HIDE DEF a, b
<1>3. /\ u \in Seq(Frames) /\ Len(u) = Len(a) + Len(b)
      /\ \A i \in 1..(Len(a) + Len(b)) : u[i] = IF i <= Len(a) THEN a[i] ELSE b[i - Len(a)]
    BY <1>1, <1>2, ConcatProperties
<1> HIDE DEF u
<1>4. Len(u) = Len(w) + 1
    BY <1>0, <1>1, <1>2, <1>3
<1>5. ASSUME NEW i \in 1..Len(u) PROVE u[i] = w[IF i <= p THEN i ELSE i - 1]
    <2>1. CASE i <= p
        <3>1. i \in 1..p
            BY <2>1, <1>0, <1>4
        <3> QED BY <3>1, <2>1, <1>0, <1>1, <1>3, <1>4
    <2>2. CASE ~(i <= p)
        <3>1. i - p \in 1..(Len(w) - p + 1) /\ p + (i - p) - 1 = i - 1
            BY <2>2, <1>0, <1>4
        <3>2. u[i] = b[i - p]
            BY <2>2, <1>1, <1>3
        <3> QED BY <3>1, <3>2, <2>2, <1>2
    <2> QED BY <2>1, <2>2
<1> QED
    <2>1. Doubles(w, u)
        BY <1>3, <1>4, <1>5 DEF Doubles
    <2> QED BY <2>1 DEF u, a, b

\* Handling takes the first frame.
LEMMA TailDrops ==
    ASSUME NEW w \in Seq(Frames), w # <<>>
    PROVE  Drops(w, Tail(w))
<1>1. /\ Tail(w) \in Seq(Frames) /\ Len(Tail(w)) = Len(w) - 1
      /\ \A i \in 1..Len(Tail(w)) : Tail(w)[i] = w[i + 1]
      /\ Head(w) \in Frames
    BY HeadTailProperties
<1>2. Len(w) \in Nat \ {0}
    BY EmptySeq
<1>3. Head(w) = w[1]
    OBVIOUS
<1>4. Len(w) = Len(Tail(w)) + 1
    BY <1>1, <1>2
<1> QED BY <1>1, <1>3, <1>4 DEF Drops

\* A closed socket hands out a first part of what was on the wire.
LEMMA CutBegins ==
    ASSUME NEW w \in Seq(Frames), NEW k \in 0..Len(w)
    PROVE  Begins(w, SubSeq(w, 1, k))
<1> DEFINE a == SubSeq(w, 1, k)
<1>0. Len(w) \in Nat /\ k \in Int /\ 1 \in Int /\ 0 <= k /\ k <= Len(w)
    BY LenProperties
<1>1. \A i \in 1..k : w[i] \in Frames
    BY <1>0, ElementOfSeq
<1>2. /\ a \in Seq(Frames)
      /\ Len(a) = IF 1 <= k THEN k - 1 + 1 ELSE 0
      /\ \A i \in 1..(k - 1 + 1) : a[i] = w[1 + i - 1]
    BY <1>0, <1>1, SubSeqProperties
<1> HIDE DEF a
<1>3. k - 1 + 1 = k /\ \A i \in 1..k : 1 + i - 1 = i
    BY <1>0
<1>4. Len(a) = k
    BY <1>0, <1>2, <1>3
<1>5. \A i \in 1..k : a[i] = w[i]
    BY <1>2, <1>3
<1> QED
    <2>1. Begins(w, a)
        BY <1>0, <1>2, <1>4, <1>5 DEF Begins
    <2> QED BY <2>1 DEF a

-----------------------------------------------------------------------------
(* Publication                                                             *)

\* What becomes of the frame of each channel: lost, or sent in some quality.
Fates(m) == [DOMAIN m.frames -> {"lost"} \cup Qualities]

Arriving(m, fate) ==
    {Numbered(m.frames[c], fate[c]) : c \in {d \in DOMAIN m.frames : fate[d] # "lost"}}

\* The frames of a move are published with these fates.  What stays seen was
\* interpretable, or its channel had a baseline that reveals the hole.
PublishedWith(m, fate) ==
    /\ Appends(wire, wire', Arriving(m, fate))
    /\ ~unseen' =>
          /\ ~unseen
          /\ \A c \in DOMAIN m.frames :
                /\ fate[c] \notin {"malformed", "conflict"}
                /\ fate[c] \in {"lost", "unreadable"} => HasBaseline(c)

Counted(m) ==
    issued' = [c \in Channels |-> IF c \in DOMAIN m.frames THEN issued[c] + 1 ELSE issued[c]]

\* The channels are finitely many.
LEMMA ChannelsFinite == IsFiniteSet(Channels)
<1>1. IsFiniteSet({"orders"}) /\ IsFiniteSet({"user_trades"}) /\ IsFiniteSet({"positions"})
    BY FS_Singleton
<1>2. IsFiniteSet({"orders"} \cup {"user_trades"})
    BY <1>1, FS_Union
<1>3. IsFiniteSet(({"orders"} \cup {"user_trades"}) \cup {"positions"})
    BY <1>1, <1>2, FS_Union
<1>4. Channels = ({"orders"} \cup {"user_trades"}) \cup {"positions"}
    BY DEF Channels
<1> QED BY <1>3, <1>4

\* Publish gives each frame a fate, numbers the channels and counts the faults.
LEMMA PublishEffect ==
    ASSUME TypeOK, StreamAssumption, NEW m, FramesTell(m), Publish(m.frames)
    PROVE  /\ Counted(m)
           /\ faults' \in 0..MaxFaults
           /\ unseen' \in BOOLEAN
           /\ \E fate \in Fates(m) : PublishedWith(m, fate)
<1> DEFINE fs == m.frames
           chs == DOMAIN fs
<1>f. chs \subseteq Channels /\ \A c \in chs : fs[c] \in Bodies /\ fs[c].ch = c
    BY DEF FramesTell
<1>t. /\ issued \in [Channels -> Nat] /\ wire \in Seq(Frames) /\ faults \in 0..MaxFaults
      /\ unseen \in BOOLEAN /\ MaxFaults \in Nat
    BY DEF TypeOK, StreamAssumption
<1>1. PICK lost \in SUBSET chs, garbled \in chs \cup {"none"}, q \in Qualities \ {"ok"} :
        /\ garbled \notin lost
        /\ garbled = "none" => q = "unreadable"
        /\ LET bad == Cardinality(lost \cup ({garbled} \cap chs)) IN
           /\ bad = 0 \/ faults + bad <= MaxFaults
           /\ faults' = faults + bad
        /\ wire' = wire \o Emitted(fs, lost, garbled, q)
        /\ issued' = [c \in Channels |-> IF c \in chs THEN issued[c] + 1 ELSE issued[c]]
        /\ unseen' = (unseen \/ Hidden(lost, garbled, q))
    BY DEF Publish
<1> DEFINE fate == [c \in chs |-> IF c \in lost THEN "lost"
                                  ELSE IF c = garbled THEN q ELSE "ok"]
<1>q. q \in Qualities /\ q # "ok" /\ "ok" \in Qualities /\ "lost" \notin Qualities
    BY DEF Qualities
<1>2. fate \in Fates(m)
    BY <1>q DEF Fates
<1>3. Counted(m)
    BY <1>1 DEF Counted
<1>4. faults' \in 0..MaxFaults
    <2> DEFINE X == lost \cup ({garbled} \cap chs)
    <2>1. X \subseteq Channels
        BY <1>1, <1>f
    <2>2. IsFiniteSet(X)
        BY <2>1, ChannelsFinite, FS_Subset
    <2>3. Cardinality(X) \in Nat
        BY <2>2, FS_CardinalityType
    <2>4. (Cardinality(X) = 0 \/ faults + Cardinality(X) <= MaxFaults) /\ faults' = faults + Cardinality(X)
        BY <1>1
    <2> HIDE DEF X
    <2> QED BY <2>3, <2>4, <1>t
<1>5. unseen' \in BOOLEAN
    <2>1. Hidden(lost, garbled, q) \in BOOLEAN
        BY DEF Hidden
    <2> QED BY <1>1, <1>t, <2>1
<1>6. Appends(wire, wire', Arriving(m, fate))
    <2> DEFINE A(c) == IF c \in chs \ lost THEN {Numbered(fs[c], fate[c])} ELSE {}
    <2>1. ASSUME NEW c \in Channels
          PROVE  Sent(fs, c, lost, garbled, q) \in Seq(Frames) /\ Holds(Sent(fs, c, lost, garbled, q), A(c))
        <3>1. CASE c \in chs \ lost
            <4> DEFINE f == Numbered(fs[c], IF c = garbled THEN q ELSE "ok")
            <4>1. fate[c] = IF c = garbled THEN q ELSE "ok"
                BY <3>1
            <4>2. f \in Frames
                <5>1. issued[c] + 1 \in Nat \ {0}
                    BY <1>t
                <5>2. (IF c = garbled THEN q ELSE "ok") \in Qualities
                    BY <1>q
                <5>3. fs[c] \in Bodies /\ fs[c].ch = c
                    BY <1>f, <3>1
                <5> QED BY <5>1, <5>2, <5>3 DEF Numbered, DataFrames, Frames
            <4>3. Sent(fs, c, lost, garbled, q) = <<f>>
                BY <3>1 DEF Sent
            <4>4. A(c) = {f}
                BY <3>1, <4>1
            <4> HIDE DEF f, A
            <4>5. <<f>> \in Seq(Frames) /\ Len(<<f>>) = 1 /\ <<f>>[1] = f
                BY <4>2
            <4>6. Holds(<<f>>, {f})
                BY <4>5 DEF Holds
            <4> QED BY <4>3, <4>4, <4>5, <4>6
        <3>2. CASE c \notin chs \ lost
            <4>1. Sent(fs, c, lost, garbled, q) = <<>>
                BY <3>2 DEF Sent
            <4>2. A(c) = {}
                BY <3>2
            <4>3. <<>> \in Seq(Frames) /\ Len(<<>>) = 0
                BY EmptySeq
            <4>4. Holds(<<>>, {})
                BY <4>3 DEF Holds
            <4> HIDE DEF A
            <4> QED BY <4>1, <4>2, <4>3, <4>4
        <3> QED BY <3>1, <3>2
    <2>2. (A("orders") \cup A("user_trades")) \cup A("positions") = Arriving(m, fate)
        <3>1. \A c \in chs : c = "orders" \/ c = "user_trades" \/ c = "positions"
            BY <1>f DEF Channels
        <3>2. \A c \in chs : fate[c] # "lost" <=> c \notin lost
            BY <1>q
        <3> DEFINE B == {d \in chs : fate[d] # "lost"}
        <3>3. B = chs \ lost
            BY <3>2
        <3>4. Arriving(m, fate) = {Numbered(fs[c], fate[c]) : c \in B}
            BY DEF Arriving
        <3> HIDE DEF B, fate
        <3> QED BY <3>1, <3>3, <3>4
    <2> HIDE DEF A, fate
    <2> DEFINE s1 == Sent(fs, "orders", lost, garbled, q)
               s2 == Sent(fs, "user_trades", lost, garbled, q)
               s3 == Sent(fs, "positions", lost, garbled, q)
    <2>3. /\ s1 \in Seq(Frames) /\ Holds(s1, A("orders"))
          /\ s2 \in Seq(Frames) /\ Holds(s2, A("user_trades"))
          /\ s3 \in Seq(Frames) /\ Holds(s3, A("positions"))
        BY <2>1 DEF Channels
    <2> HIDE DEF s1, s2, s3
    <2>4. s1 \o s2 \in Seq(Frames) /\ Holds(s1 \o s2, A("orders") \cup A("user_trades"))
        BY <2>3, HoldsBoth
    <2>5. /\ (s1 \o s2) \o s3 \in Seq(Frames)
          /\ Holds((s1 \o s2) \o s3, (A("orders") \cup A("user_trades")) \cup A("positions"))
        BY <2>3, <2>4, HoldsBoth
    <2>6. Emitted(fs, lost, garbled, q) = (s1 \o s2) \o s3
        BY DEF Emitted, s1, s2, s3
    <2>7. Appends(wire, wire \o ((s1 \o s2) \o s3), Arriving(m, fate))
        BY <2>2, <2>5, <1>t, AppendsConcat
    <2> QED BY <1>1, <2>6, <2>7
<1>7. ASSUME ~unseen'
      PROVE  /\ ~unseen
             /\ \A c \in chs :
                   /\ fate[c] \notin {"malformed", "conflict"}
                   /\ fate[c] \in {"lost", "unreadable"} => HasBaseline(c)
    <2>1. ~unseen /\ ~Hidden(lost, garbled, q)
        BY <1>1, <1>7
    <2>2. /\ \A c \in lost : c \in Channels => HasBaseline(c)
          /\ q = "unreadable" /\ garbled \in Channels => HasBaseline(garbled)
          /\ garbled \in Channels => q \notin {"malformed", "conflict"}
        BY <2>1 DEF Hidden
    <2> QED BY <2>1, <2>2, <1>f, <1>q
<1>8. PublishedWith(m, fate)
    BY <1>6, <1>7 DEF PublishedWith
<1> HIDE DEF fate
<1> QED BY <1>2, <1>3, <1>4, <1>5, <1>8

-----------------------------------------------------------------------------
(* Type correctness                                                        *)

\* What a frame on the wire may be, by its channel.
LEMMA FrameTypes ==
    ASSUME NEW f \in Frames
    PROVE  /\ f.body.ch = "auth" \/ f.body.ch \in Channels
           /\ f.body.ch # "auth" => /\ f \in DataFrames /\ f.body.ch \in Channels
                                    /\ f.seq \in Nat \ {0} /\ f.q \in Qualities
           /\ f.body.ch = "orders" => /\ f.body.id \in OrderIds
                                      /\ f.body.status \in Statuses \ {"none"}
                                      /\ f.body.n \in Sizes
           /\ f.body.ch = "user_trades" => f.body.id \in OrderIds /\ f.body.n \in 1..Qty
           /\ f.body.ch = "positions" => f.body.n \in 1..Qty /\ f.body.deletes \in BOOLEAN
<1>1. CASE f \in DataFrames
    <2>1. f.body \in Bodies /\ f.seq \in Nat \ {0} /\ f.q \in Qualities
        BY <1>1 DEF DataFrames
    <2>2. \/ f.body.ch = "orders" /\ f.body.id \in OrderIds
             /\ f.body.status \in Statuses \ {"none"} /\ f.body.n \in Sizes
          \/ f.body.ch = "user_trades" /\ f.body.id \in OrderIds /\ f.body.n \in 1..Qty
          \/ f.body.ch = "positions" /\ f.body.n \in 1..Qty /\ f.body.deletes \in BOOLEAN
        BY <2>1 DEF Bodies, OrderBodies, TradeBodies, PositionBodies
    <2> QED BY <1>1, <2>1, <2>2 DEF Channels
<1>2. CASE f \in AuthFrames
    BY <1>2 DEF AuthFrames, AuthBody
<1> QED BY <1>1, <1>2 DEF Frames

\* The account's part of the invariant, and the client's.
AccountInv == AccountTypeOK /\ OneTradeAtATime

ClientTypes ==
    /\ session \in [open: BOOLEAN, authenticated: BOOLEAN]
    /\ wire \in Seq(Frames)
    /\ issued \in [Channels -> Nat]
    /\ faults \in 0..MaxFaults
    /\ unseen \in BOOLEAN
    /\ run \in Runs
    /\ running \in BOOLEAN
    /\ health \in {"HEALTHY", "DEGRADED", "STALE", "OFFLINE"}
    /\ sequence \in [Channels -> Nat]
    /\ integrityOk \in BOOLEAN
    /\ opened \in BOOLEAN
    /\ processed \in SUBSET Trades
    /\ observed \in [Trades -> Nat]
    /\ blocked \in BOOLEAN
    /\ AttemptsCounted

\* The two parts are the whole.
LEMMA TypeParts == TypeInv <=> AccountInv /\ ClientTypes
BY DEF TypeInv, TypeOK, AccountInv, ClientTypes

\* Steps that leave the account alone.
LEMMA AccountKept ==
    ASSUME AccountInv, UNCHANGED accountVars
    PROVE  AccountInv'
BY DEF AccountInv, AccountTypeOK, OneTradeAtATime, accountVars

\* The head of a wire that is not empty.
LEMMA HeadTypes ==
    ASSUME TypeInv, wire # <<>>
    PROVE  Head(wire) \in Frames /\ Tail(wire) \in Seq(Frames)
BY TailDrops DEF TypeInv, TypeOK, Drops

\* Tracking keeps the types, whether it reveals a gap or not.
LEMMA TrackTypes ==
    ASSUME TypeInv, wire # <<>>, Head(wire).body.ch # "auth", run.pc = "listen",
           TrackSequence(Head(wire))
    PROVE  /\ sequence' \in [Channels -> Nat]
           /\ run' \in Runs /\ run'.attempt = run.attempt /\ run'.pc # "ended"
           /\ health' \in {"HEALTHY", "DEGRADED", "STALE", "OFFLINE"}
<1> DEFINE f == Head(wire)
<1>1. f \in Frames /\ f.body.ch \in Channels /\ f.seq \in Nat
    BY HeadTypes, FrameTypes
<1>2. sequence \in [Channels -> Nat] /\ run \in Runs
      /\ health \in {"HEALTHY", "DEGRADED", "STALE", "OFFLINE"}
    BY DEF TypeInv, TypeOK
<1>3. sequence' = [sequence EXCEPT ![f.body.ch] = IF f.seq > sequence[f.body.ch] THEN f.seq
                                                  ELSE sequence[f.body.ch]]
    BY DEF TrackSequence
<1>4. \/ run' = [run EXCEPT !.pc = "gapSync", !.stage = "positions", !.ok = TRUE]
         /\ health' = "DEGRADED"
      \/ run' = run /\ health' \in {health, "HEALTHY"}
    BY DEF TrackSequence, HealthAfter
<1> HIDE DEF f
<1>5. sequence' \in [Channels -> Nat]
    BY <1>1, <1>2, <1>3
<1>6. run' \in Runs /\ run'.attempt = run.attempt /\ run'.pc # "ended"
    BY <1>2, <1>4 DEF Runs
<1> QED BY <1>2, <1>4, <1>5, <1>6

\* The end of an iteration of run() keeps the types.
LEMMA EndSessionTypes ==
    ASSUME TypeInv, StreamAssumption, EndSession, run.pc # "ended"
    PROVE  /\ session' \in [open: BOOLEAN, authenticated: BOOLEAN]
           /\ wire' = <<>> /\ wire' \in Seq(Frames)
           /\ run' \in Runs /\ running' \in BOOLEAN
           /\ health' \in {"HEALTHY", "DEGRADED", "STALE", "OFFLINE"}
           /\ AttemptsCounted'
<1>1. run \in Runs /\ run.attempt \in 0..(MaxAttempts + 1) /\ run.attempt <= MaxAttempts
      /\ MaxAttempts \in Nat /\ running \in BOOLEAN
    BY DEF TypeInv, TypeOK, Runs, AttemptsCounted, StreamAssumption
<1>2. NextAttempt \in 0..(MaxAttempts + 1)
    BY <1>1 DEF NextAttempt
<1>3. wire' = <<>> /\ <<>> \in Seq(Frames)
      /\ session' = [open |-> FALSE, authenticated |-> FALSE]
    BY EmptySeq DEF EndSession
<1>4. CASE NextAttempt > MaxAttempts
    <2>1. run' = [run EXCEPT !.pc = "ended", !.stage = "none", !.attempt = NextAttempt]
          /\ running' = FALSE /\ health' = "OFFLINE"
        BY <1>4 DEF EndSession
    <2> QED BY <1>1, <1>2, <1>3, <2>1 DEF Runs, AttemptsCounted
<1>5. CASE ~(NextAttempt > MaxAttempts)
    <2>1. run' = [run EXCEPT !.pc = "backoff", !.stage = "none", !.attempt = NextAttempt]
          /\ running' = running /\ health' = "DEGRADED"
        BY <1>5 DEF EndSession
    <2>2. NextAttempt <= MaxAttempts
        BY <1>1, <1>2, <1>5
    <2> QED BY <1>1, <1>2, <1>3, <2>1, <2>2 DEF Runs, AttemptsCounted
<1> QED BY <1>4, <1>5

\* Initially.
LEMMA TypeInit ==
    ASSUME Init PROVE TypeInv
<1> USE AccountAssumption, StreamAssumption
<1>1. AccountInv
    <2>1. 0 \in Sizes /\ "none" \in Statuses /\ Qty \in Nat
        BY DEF Sizes, Statuses, AccountAssumption
    <2>2. NoOrder \in Order /\ NoOrder.status = "none" /\ NoOrder.filled = 0
        BY <2>1 DEF NoOrder, Order
    <2>3. "none" \notin Live
        BY DEF Live
    <2>4. xo \in [OrderIds -> Order] /\ so \in [OrderIds -> Order]
          /\ (\A o \in OrderIds : xo[o] = NoOrder) /\ xp = 0 /\ sp = 0 /\ lock = Free
        BY <2>2 DEF Init, AccountInit
    <2> QED BY <2>1, <2>2, <2>3, <2>4 DEF AccountInv, AccountTypeOK, OneTradeAtATime, OrderIds
<1>2. ClientTypes
    <2>1. MaxAttempts \in Nat /\ MaxFaults \in Nat
        BY DEF StreamAssumption
    <2>2. run \in Runs
        <3>1. 0 \in Sizes /\ 0 \in 0..(MaxAttempts + 1)
            BY <2>1 DEF Sizes, AccountAssumption
        <3> QED BY <3>1 DEF Init, Runs
    <2>3. wire \in Seq(Frames)
        BY EmptySeq DEF Init
    <2>4. AttemptsCounted
        BY <2>1 DEF Init, AttemptsCounted
    <2>5. faults \in 0..MaxFaults
        BY <2>1 DEF Init
    <2> QED BY <2>2, <2>3, <2>4, <2>5 DEF Init, ClientTypes
<1> QED BY <1>1, <1>2, TypeParts

\* Steps of the exchange.
LEMMA MovesTypes ==
    ASSUME TypeInv, AccountAssumption, StreamAssumption, ExchangeMoves
    PROVE  TypeInv'
<1>1. PICK m \in Moves :
        /\ xo' = m.xo
        /\ xp' = m.xp
        /\ IF session.open /\ session.authenticated
           THEN Publish(m.frames)
           ELSE UNCHANGED <<wire, issued, faults, unseen>>
    BY DEF ExchangeMoves
<1>2. SoundMove(m) /\ FramesTell(m)
    BY MoveEffect DEF TypeInv, TypeOK
<1>3. UNCHANGED <<so, sp, lock, session, clientVars>>
    BY DEF ExchangeMoves
<1>4. AccountInv'
    BY <1>1, <1>2, <1>3 DEF TypeInv, TypeOK, AccountInv, AccountTypeOK, OneTradeAtATime, SoundMove
<1>5. /\ wire' \in Seq(Frames) /\ issued' \in [Channels -> Nat]
      /\ faults' \in 0..MaxFaults /\ unseen' \in BOOLEAN
    <2>0. TypeOK
        BY DEF TypeInv
    <2>1. CASE session.open /\ session.authenticated
        <3>1. Publish(m.frames)
            BY <1>1, <2>1
        <3>2. /\ Counted(m) /\ faults' \in 0..MaxFaults /\ unseen' \in BOOLEAN
              /\ \E fate \in Fates(m) : PublishedWith(m, fate)
            BY <3>1, <2>0, <1>2, PublishEffect
        <3>3. wire' \in Seq(Frames)
            BY <3>2 DEF PublishedWith, Appends
        <3>4. issued \in [Channels -> Nat]
            BY <2>0 DEF TypeOK
        <3>5. issued' \in [Channels -> Nat]
            BY <3>2, <3>4 DEF Counted
        <3> QED BY <3>2, <3>3, <3>5
    <2>2. CASE ~(session.open /\ session.authenticated)
        BY <1>1, <2>0, <2>2 DEF TypeOK
    <2> QED BY <2>1, <2>2
<1>6. ClientTypes'
    BY <1>3, <1>5 DEF TypeInv, TypeOK, ClientTypes, clientVars, AttemptsCounted
<1> QED BY <1>4, <1>6 DEF TypeInv, TypeOK, AccountInv, ClientTypes

\* The lock is taken and given back around a trade.
LEMMA LockTypes ==
    ASSUME TypeInv, AccountAssumption, (Admit \/ Finish) /\ UNCHANGED <<serverVars, clientVars>>
    PROVE  TypeInv'
<1>1. ClientTypes'
    BY DEF TypeInv, TypeOK, ClientTypes, serverVars, clientVars, AttemptsCounted
<1>2. UNCHANGED <<xo, xp, so, sp>>
    BY DEF Admit, Finish
<1>3. \A e \in Entries : e \in OrderIds
    BY DEF OrderIds
<1>4. AccountInv'
    <2>1. CASE Admit
        <3>1. PICK e \in Entries : lock = Free /\ lock' = e
            BY <2>1 DEF Admit
        <3>2. Free \notin Entries
            BY DEF AccountAssumption
        <3>3. xp = 0 /\ \A d \in Entries : xo[d].status \notin Live
            BY <3>1, <3>2 DEF TypeInv, OneTradeAtATime
        <3> QED BY <3>1, <3>3, <1>2 DEF TypeInv, TypeOK, AccountInv, AccountTypeOK, OneTradeAtATime
    <2>2. CASE Finish
        <3>1. lock' = Free /\ xp = 0 /\ \A o \in OrderIds : xo[o].status \notin Live
            BY <2>2 DEF Finish
        <3> QED BY <3>1, <1>2, <1>3 DEF TypeInv, TypeOK, AccountInv, AccountTypeOK, OneTradeAtATime
    <2> QED BY <2>1, <2>2
<1> QED BY <1>1, <1>4 DEF TypeInv, TypeOK, AccountInv, ClientTypes

\* Steps of the wire and the session.
LEMMA SessionTypes ==
    ASSUME TypeInv, AccountAssumption, StreamAssumption,
           \/ RepeatFrame \/ Disconnect \/ HeartbeatTimeout \/ Close \/ Stopped
           \/ Connect \/ ConnectFails \/ BackoffElapses \/ ListenEnds
    PROVE  TypeInv'
<1>0. AccountInv /\ ClientTypes
    BY TypeParts
<1>w. wire \in Seq(Frames) /\ <<>> \in Seq(Frames)
    BY EmptySeq DEF TypeInv, TypeOK
<1>1. CASE RepeatFrame
    <2>1. PICK i \in DOMAIN wire : wire' = SubSeq(wire, 1, i) \o SubSeq(wire, i, Len(wire))
        BY <1>1 DEF RepeatFrame
    <2>2. i \in 1..Len(wire)
        BY <1>w, LenProperties
    <2>3. wire' \in Seq(Frames)
        BY <1>w, <2>1, <2>2, RepeatDoubles DEF Doubles
    <2>4. faults' \in 0..MaxFaults
        <3>1. faults \in 0..MaxFaults /\ faults < MaxFaults /\ faults' = faults + 1 /\ MaxFaults \in Nat
            BY <1>1 DEF RepeatFrame, TypeInv, TypeOK, StreamAssumption
        <3> QED BY <3>1
    <2>5. UNCHANGED <<accountVars, session, issued, unseen, clientVars>>
        BY <1>1 DEF RepeatFrame
    <2>6. AccountInv'
        BY <1>0, <2>5, AccountKept
    <2>7. ClientTypes'
        BY <1>0, <2>3, <2>4, <2>5 DEF ClientTypes, clientVars, AttemptsCounted
    <2> QED BY <2>6, <2>7 DEF TypeInv, TypeOK, AccountInv, ClientTypes
<1>2. CASE Disconnect
    <2>1. PICK k \in 0..Len(wire) : wire' = SubSeq(wire, 1, k)
        BY <1>2 DEF Disconnect
    <2>2. wire' \in Seq(Frames)
        BY <1>w, <2>1, CutBegins DEF Begins
    <2>3. UNCHANGED <<accountVars, issued, faults, unseen, clientVars>>
          /\ session' = [open |-> FALSE, authenticated |-> FALSE]
        BY <1>2 DEF Disconnect
    <2>4. AccountInv'
        BY <1>0, <2>3, AccountKept
    <2>5. ClientTypes'
        BY <1>0, <2>2, <2>3 DEF ClientTypes, clientVars, AttemptsCounted
    <2> QED BY <2>4, <2>5 DEF TypeInv, TypeOK, AccountInv, ClientTypes
<1>3. CASE HeartbeatTimeout
    <2>1. AccountInv'
        BY <1>0, <1>3, AccountKept DEF HeartbeatTimeout
    <2>2. ClientTypes'
        BY <1>0, <1>3 DEF HeartbeatTimeout, ClientTypes, AttemptsCounted
    <2> QED BY <2>1, <2>2 DEF TypeInv, TypeOK, AccountInv, ClientTypes
<1>4. CASE Close
    <2>1. AccountInv'
        BY <1>0, <1>4, AccountKept DEF Close
    <2>2. ClientTypes'
        BY <1>0, <1>w, <1>4 DEF Close, ClientTypes, AttemptsCounted
    <2> QED BY <2>1, <2>2 DEF TypeInv, TypeOK, AccountInv, ClientTypes
<1>5. CASE Stopped
    <2>1. AccountInv'
        BY <1>0, <1>5, AccountKept DEF Stopped
    <2>2. run' \in Runs /\ AttemptsCounted'
        BY <1>0, <1>5 DEF Stopped, ClientTypes, Runs, AttemptsCounted
    <2>3. ClientTypes'
        BY <1>0, <1>5, <2>2 DEF Stopped, ClientTypes, serverVars
    <2> QED BY <2>1, <2>3 DEF TypeInv, TypeOK, AccountInv, ClientTypes
<1>6. CASE Connect
    <2>1. AccountInv'
        BY <1>0, <1>6, AccountKept DEF Connect
    <2>2. run' \in Runs /\ AttemptsCounted'
        <3>1. 0 \in 0..(MaxAttempts + 1) /\ 0 <= MaxAttempts
            BY DEF StreamAssumption
        <3>2. run \in Runs
            BY <1>0 DEF ClientTypes
        <3>3. run' = [run EXCEPT !.pc = "openSync", !.stage = "positions", !.ok = TRUE, !.attempt = 0]
            BY <1>6 DEF Connect
        <3> QED BY <3>1, <3>2, <3>3 DEF Runs, AttemptsCounted
    <2>3. session' \in [open: BOOLEAN, authenticated: BOOLEAN] /\ wire' \in Seq(Frames)
        <3>1. PICK accepted \in BOOLEAN :
                /\ session' = [open |-> TRUE, authenticated |-> accepted]
                /\ wire' = <<[body |-> AuthBody, seq |-> 0,
                              q |-> IF accepted THEN "ok" ELSE "refused"]>>
            BY <1>6 DEF Connect
        <3>2. [body |-> AuthBody, seq |-> 0, q |-> IF accepted THEN "ok" ELSE "refused"] \in Frames
            BY DEF Frames, AuthFrames
        <3> QED BY <3>1, <3>2
    <2>4. issued' \in [Channels -> Nat] /\ sequence' \in [Channels -> Nat]
        BY <1>6 DEF Connect, ResetSequences
    <2>5. faults' \in 0..MaxFaults
        <3>1. faults \in 0..MaxFaults /\ MaxFaults \in Nat
            BY DEF TypeInv, TypeOK, StreamAssumption
        <3>2. faults' = faults \/ (faults < MaxFaults /\ faults' = faults + 1)
            BY <1>6 DEF Connect
        <3> QED BY <3>1, <3>2
    <2>6. ClientTypes'
        BY <1>0, <1>6, <2>2, <2>3, <2>4, <2>5 DEF Connect, ClientTypes
    <2> QED BY <2>1, <2>6 DEF TypeInv, TypeOK, AccountInv, ClientTypes
<1>7. CASE ConnectFails
    <2>0. EndSession /\ run.pc # "ended"
        BY <1>7 DEF ConnectFails
    <2>1. AccountInv'
        BY <1>0, <1>7, AccountKept DEF ConnectFails
    <2>2. ClientTypes'
        BY <1>0, <1>7, <2>0, EndSessionTypes DEF ConnectFails, ClientTypes
    <2> QED BY <2>1, <2>2 DEF TypeInv, TypeOK, AccountInv, ClientTypes
<1>8. CASE BackoffElapses
    <2>1. AccountInv'
        BY <1>0, <1>8, AccountKept DEF BackoffElapses
    <2>2. run' \in Runs /\ AttemptsCounted'
        BY <1>0, <1>8 DEF BackoffElapses, ClientTypes, Runs, AttemptsCounted
    <2>3. ClientTypes'
        BY <1>0, <1>8, <2>2 DEF BackoffElapses, ClientTypes, serverVars
    <2> QED BY <2>1, <2>3 DEF TypeInv, TypeOK, AccountInv, ClientTypes
<1>9. CASE ListenEnds
    <2>0. EndSession /\ run.pc # "ended"
        BY <1>9 DEF ListenEnds
    <2>1. AccountInv'
        BY <1>0, <1>9, AccountKept DEF ListenEnds
    <2>2. ClientTypes'
        BY <1>0, <1>9, <2>0, EndSessionTypes DEF ListenEnds, ClientTypes
    <2> QED BY <2>1, <2>2 DEF TypeInv, TypeOK, AccountInv, ClientTypes
<1> QED BY <1>1, <1>2, <1>3, <1>4, <1>5, <1>6, <1>7, <1>8, <1>9

\* Steps of a synchronization.
LEMMA SyncTypes ==
    ASSUME TypeInv, AccountAssumption, SyncPositions \/ SyncOrders \/ SyncFails \/ HookEnds
    PROVE  TypeInv'
<1>0. AccountInv /\ ClientTypes
    BY TypeParts
<1>s. run.pc # "ended" /\ run \in Runs /\ run.pos \in Sizes
    BY DEF SyncPositions, SyncOrders, SyncFails, HookEnds, Syncing, TypeInv, TypeOK, Runs
<1>1. CASE SyncPositions
    <2>1. AccountInv'
        BY <1>0, <1>1, AccountKept DEF SyncPositions
    <2>2. run' \in Runs /\ AttemptsCounted'
        <3>1. xp \in Sizes
            BY DEF TypeInv, TypeOK, AccountTypeOK
        <3> QED BY <1>0, <1>1, <1>s, <3>1 DEF SyncPositions, ClientTypes, Runs, AttemptsCounted
    <2>3. ClientTypes'
        BY <1>0, <1>1, <2>2 DEF SyncPositions, ClientTypes, serverVars
    <2> QED BY <2>1, <2>3 DEF TypeInv, TypeOK, AccountInv, ClientTypes
<1>2. CASE SyncOrders
    <2>z. 0 \in Sizes
        BY DEF Sizes, AccountAssumption
    <2>1. so' \in [OrderIds -> Order]
        <3>1. \A o \in OrderIds : OpenOrders[o] \in Order
            <4>1. "none" \in Statuses
                BY DEF Statuses
            <4>2. NoOrder \in Order
                BY <2>z, <4>1 DEF NoOrder, Order
            <4> QED BY <4>2 DEF OpenOrders, TypeInv, TypeOK, AccountTypeOK
        <3>2. \A o \in OrderIds : InferredEnd(o) \in Order
            <4>1. {"FILLED", "CANCELLED"} \subseteq Statuses
                BY DEF Statuses, Finished
            <4>2. \A o \in OrderIds : so[o] \in Order
                BY DEF TypeInv, TypeOK, AccountTypeOK
            <4> QED BY <4>1, <4>2 DEF InferredEnd, Order
        <3>3. \A o \in OrderIds : so[o] \in Order
            BY DEF TypeInv, TypeOK, AccountTypeOK
        <3>4. so' = ReconciledOrders(OpenOrders)
            BY <1>2 DEF SyncOrders
        <3> QED BY <3>1, <3>2, <3>3, <3>4 DEF ReconciledOrders
    <2>2. sp' \in Sizes
        BY <1>2, <1>s DEF SyncOrders, ReconciledPosition
    <2>3. AccountInv'
        BY <1>0, <1>2, <2>1, <2>2 DEF SyncOrders, AccountInv, AccountTypeOK, OneTradeAtATime
    <2>4. run' \in Runs /\ AttemptsCounted'
        BY <1>0, <1>2, <1>s, <2>z DEF SyncOrders, ClientTypes, Runs, AttemptsCounted
    <2>5. ClientTypes'
        BY <1>0, <1>2, <2>4 DEF SyncOrders, ClientTypes, serverVars
    <2> QED BY <2>3, <2>5 DEF TypeInv, TypeOK, AccountInv, ClientTypes
<1>3. CASE SyncFails
    <2>z. 0 \in Sizes
        BY DEF Sizes, AccountAssumption
    <2>1. AccountInv'
        BY <1>0, <1>3, AccountKept DEF SyncFails
    <2>2. run' \in Runs /\ AttemptsCounted'
        BY <1>0, <1>3, <1>s, <2>z DEF SyncFails, ClientTypes, Runs, AttemptsCounted
    <2>3. ClientTypes'
        BY <1>0, <1>3, <2>2 DEF SyncFails, ClientTypes, serverVars
    <2> QED BY <2>1, <2>3 DEF TypeInv, TypeOK, AccountInv, ClientTypes
<1>4. CASE HookEnds
    <2>1. AccountInv'
        BY <1>0, <1>4, AccountKept DEF HookEnds
    <2>2. run' \in Runs /\ AttemptsCounted'
        BY <1>0, <1>4, <1>s DEF HookEnds, ClientTypes, Runs, AttemptsCounted
    <2>3. PICK ok \in BOOLEAN : OpeningDone(ok) \/ GapDone(ok)
        <3>1. PICK hook \in {TRUE} \cup {~RestFails} :
                LET ok == run.ok /\ hook IN OpeningDone(ok) \/ GapDone(ok)
            BY <1>4 DEF HookEnds
        <3>2. (run.ok /\ hook) \in BOOLEAN
            OBVIOUS
        <3> QED BY <3>1, <3>2
    <2>4. /\ integrityOk' \in BOOLEAN /\ opened' \in BOOLEAN /\ blocked' \in BOOLEAN
          /\ health' \in {"HEALTHY", "DEGRADED", "STALE", "OFFLINE"}
        <3>1. CASE OpeningDone(ok)
            BY <1>0, <3>1 DEF OpeningDone, ClientTypes
        <3>2. CASE GapDone(ok)
            BY <1>0, <3>2 DEF GapDone, ClientTypes
        <3> QED BY <2>3, <3>1, <3>2
    <2>5. ClientTypes'
        BY <1>0, <1>4, <2>2, <2>4 DEF HookEnds, ClientTypes, serverVars
    <2> QED BY <2>1, <2>5 DEF TypeInv, TypeOK, AccountInv, ClientTypes
<1> QED BY <1>1, <1>2, <1>3, <1>4

\* Steps that handle a frame.
LEMMA HandlingTypes ==
    ASSUME TypeInv,
           \/ AuthFrame \/ UnreadableFrame \/ UnknownFrame \/ RejectedFrame
           \/ OrderEvent \/ PositionEvent \/ FillEvent
    PROVE  TypeInv'
<1>0. AccountInv /\ ClientTypes
    BY TypeParts
<1> DEFINE f == Head(wire)
<1>h. /\ wire # <<>> /\ wire' = Tail(wire) /\ run.pc = "listen" /\ run.pc # "ended"
      /\ UNCHANGED <<xo, xp, lock, session, issued, faults, unseen, running, opened>>
    BY DEF AuthFrame, UnreadableFrame, UnknownFrame, RejectedFrame, OrderEvent, PositionEvent,
           FillEvent, DataFrame, Handling, accountVars
<1>w. wire' \in Seq(Frames) /\ f \in Frames
    BY <1>h, HeadTypes
<1>1. CASE AuthFrame
    <2>1. AccountInv'
        BY <1>0, <1>1, AccountKept DEF AuthFrame
    <2>2. ClientTypes'
        BY <1>0, <1>1, <1>h, <1>w DEF AuthFrame, ClientTypes, AttemptsCounted
    <2> QED BY <2>1, <2>2 DEF TypeInv, TypeOK, AccountInv, ClientTypes
<1>2. CASE UnreadableFrame
    <2>1. UNCHANGED accountVars
        BY <1>2, <1>h DEF UnreadableFrame, accountVars
    <2>2. AccountInv'
        BY <1>0, <2>1, AccountKept
    <2>3. ClientTypes'
        BY <1>0, <1>2, <1>h, <1>w DEF UnreadableFrame, ClientTypes, AttemptsCounted
    <2> QED BY <2>2, <2>3 DEF TypeInv, TypeOK, AccountInv, ClientTypes
<1>3. CASE UnknownFrame
    <2>1. UNCHANGED accountVars
        BY <1>3, <1>h DEF UnknownFrame, accountVars
    <2>2. AccountInv'
        BY <1>0, <2>1, AccountKept
    <2>3. ClientTypes'
        BY <1>0, <1>3, <1>h, <1>w DEF UnknownFrame, ClientTypes, AttemptsCounted
    <2> QED BY <2>2, <2>3 DEF TypeInv, TypeOK, AccountInv, ClientTypes
<1>4. ASSUME RejectedFrame \/ OrderEvent \/ PositionEvent \/ FillEvent
      PROVE  /\ f.body.ch # "auth"
             /\ sequence' \in [Channels -> Nat]
             /\ run' \in Runs /\ AttemptsCounted'
             /\ health' \in {"HEALTHY", "DEGRADED", "STALE", "OFFLINE"}
    <2>1. f.body.ch # "auth" /\ TrackSequence(f)
        BY <1>4 DEF RejectedFrame, OrderEvent, PositionEvent, FillEvent, DataFrame
    <2>2. /\ sequence' \in [Channels -> Nat]
          /\ run' \in Runs /\ run'.attempt = run.attempt /\ run'.pc # "ended"
          /\ health' \in {"HEALTHY", "DEGRADED", "STALE", "OFFLINE"}
        BY <1>h, <2>1, TrackTypes
    <2>3. AttemptsCounted'
        BY <1>0, <1>h, <2>2 DEF ClientTypes, AttemptsCounted
    <2> QED BY <2>1, <2>2, <2>3
<1>5. CASE RejectedFrame
    <2>1. UNCHANGED accountVars
        BY <1>5, <1>h DEF RejectedFrame, accountVars
    <2>2. AccountInv'
        BY <1>0, <2>1, AccountKept
    <2>3. UNCHANGED <<integrityOk, processed, observed, blocked>>
        BY <1>5 DEF RejectedFrame
    <2>4. ClientTypes'
        BY <1>0, <1>4, <1>5, <1>h, <1>w, <2>3 DEF ClientTypes
    <2> QED BY <2>2, <2>4 DEF TypeInv, TypeOK, AccountInv, ClientTypes
<1>6. CASE OrderEvent
    <2>1. UNCHANGED <<sp, integrityOk, processed, observed, blocked>>
          /\ f.body.ch = "orders" /\ so' = [so EXCEPT ![f.body.id] = OrderAfter(f.body)]
        BY <1>6 DEF OrderEvent
    <2>2. /\ f.body.id \in OrderIds /\ f.body.status \in Statuses /\ f.body.n \in Sizes
        BY <1>w, <2>1, FrameTypes
    <2>3. so \in [OrderIds -> Order]
        BY DEF TypeInv, TypeOK, AccountTypeOK
    <2>4. OrderAfter(f.body) \in Order
        BY <2>2, <2>3 DEF OrderAfter, Order
    <2> HIDE DEF f
    <2>5. so' \in [OrderIds -> Order]
        BY <2>1, <2>3, <2>4
    <2>6. AccountInv'
        BY <1>0, <1>h, <2>1, <2>5 DEF AccountInv, AccountTypeOK, OneTradeAtATime
    <2>7. ClientTypes'
        BY <1>0, <1>4, <1>6, <1>h, <1>w, <2>1 DEF ClientTypes
    <2> QED BY <2>6, <2>7 DEF TypeInv, TypeOK, AccountInv, ClientTypes
<1>7. CASE PositionEvent
    <2>1. UNCHANGED <<so, integrityOk, processed, observed, blocked>>
          /\ f.body.ch = "positions" /\ sp' = IF IsClosure(f.body) THEN 0 ELSE f.body.n
        BY <1>7 DEF PositionEvent
    <2>2. f.body.n \in 1..Qty
        BY <1>w, <2>1, FrameTypes
    <2> HIDE DEF f
    <2>3. sp' \in Sizes
        BY <2>1, <2>2, AccountAssumption DEF Sizes, AccountAssumption
    <2>4. AccountInv'
        BY <1>0, <1>h, <2>1, <2>3 DEF AccountInv, AccountTypeOK, OneTradeAtATime
    <2>5. ClientTypes'
        BY <1>0, <1>4, <1>7, <1>h, <1>w, <2>1 DEF ClientTypes
    <2> QED BY <2>4, <2>5 DEF TypeInv, TypeOK, AccountInv, ClientTypes
<1>8. CASE FillEvent
    <2> DEFINE t == <<f.body.id, f.body.n>>
    <2>1. UNCHANGED <<so, sp, integrityOk, blocked>> /\ f.body.ch = "user_trades"
          /\ \/ UNCHANGED <<processed, observed>>
             \/ processed' = processed \cup {t} /\ observed' = [observed EXCEPT ![t] = @ + 1]
        BY <1>8 DEF FillEvent
    <2>2. t \in Trades
        BY <1>w, <2>1, FrameTypes DEF Trades
    <2> HIDE DEF f, t
    <2>3. processed' \in SUBSET Trades /\ observed' \in [Trades -> Nat]
        <3>1. processed \in SUBSET Trades /\ observed \in [Trades -> Nat]
            BY <1>0 DEF ClientTypes
        <3>2. CASE UNCHANGED <<processed, observed>>
            BY <3>1, <3>2
        <3>3. CASE processed' = processed \cup {t} /\ observed' = [observed EXCEPT ![t] = @ + 1]
            <4>1. observed[t] + 1 \in Nat
                BY <3>1, <2>2
            <4>2. observed' = [observed EXCEPT ![t] = observed[t] + 1]
                BY <3>3
            <4>3. observed' \in [Trades -> Nat]
                BY <4>1, <4>2, <3>1, <2>2
            <4>4. processed' \in SUBSET Trades
                BY <3>1, <3>3, <2>2
            <4> QED BY <4>3, <4>4
        <3> QED BY <2>1, <3>2, <3>3
    <2>4. UNCHANGED accountVars
        BY <1>h, <2>1 DEF accountVars
    <2>5. AccountInv'
        BY <1>0, <2>4, AccountKept
    <2>6. ClientTypes'
        BY <1>0, <1>4, <1>8, <1>h, <1>w, <2>1, <2>3 DEF ClientTypes
    <2> QED BY <2>5, <2>6 DEF TypeInv, TypeOK, AccountInv, ClientTypes
<1> QED BY <1>1, <1>2, <1>3, <1>5, <1>6, <1>7, <1>8

\* Every step keeps the types.
LEMMA TypeStep ==
    ASSUME TypeInv, [Next]_vars PROVE TypeInv'
<1> USE AccountAssumption, StreamAssumption
<1>1. CASE UNCHANGED vars
    BY <1>1 DEF vars, accountVars, serverVars, clientVars, TypeInv, TypeOK, AccountTypeOK,
                OneTradeAtATime, AttemptsCounted
<1>2. CASE ExchangeMoves
    BY <1>2, MovesTypes
<1>3. CASE (Admit \/ Finish) /\ UNCHANGED <<serverVars, clientVars>>
    BY <1>3, LockTypes
<1>4. CASE \/ RepeatFrame \/ Disconnect \/ HeartbeatTimeout \/ Close \/ Stopped
           \/ Connect \/ ConnectFails \/ BackoffElapses \/ ListenEnds
    BY <1>4, SessionTypes
<1>5. CASE SyncPositions \/ SyncOrders \/ SyncFails \/ HookEnds
    BY <1>5, SyncTypes
<1>6. CASE \/ AuthFrame \/ UnreadableFrame \/ UnknownFrame \/ RejectedFrame
           \/ OrderEvent \/ PositionEvent \/ FillEvent
    BY <1>6, HandlingTypes
<1> QED BY <1>1, <1>2, <1>3, <1>4, <1>5, <1>6 DEF Next, RunSteps, Environment

\* Type correctness (LocalStateStore, _sequence_state, run()): whatever frames are
\* lost, garbled or repeated, the store never holds a size beyond the quantity
\* of a trade, and run() never counts past its last attempt.
THEOREM TypeCorrect == Spec => []TypeOK
<1>1. TypeInv => TypeOK
    BY DEF TypeInv
<1> QED BY <1>1, TypeInit, TypeStep, PTL DEF Spec

-----------------------------------------------------------------------------
(* Executions                                                              *)

\* The observers were told once of what was processed, and of nothing else.
ToldWhatWasProcessed ==
    \A t \in Trades : observed[t] = IF t \in processed THEN 1 ELSE 0

\* Only an execution not processed before is announced, in the step that processes it.
LEMMA FillStep ==
    ASSUME TypeInv, ToldWhatWasProcessed, [Next]_vars
    PROVE  ToldWhatWasProcessed'
<1>1. CASE UNCHANGED <<processed, observed>>
    BY <1>1 DEF ToldWhatWasProcessed
<1>2. CASE FillEvent
    <2> DEFINE t == <<Head(wire).body.id, Head(wire).body.n>>
    <2>1. \/ UNCHANGED <<processed, observed>>
          \/ t \notin processed /\ processed' = processed \cup {t}
             /\ observed' = [observed EXCEPT ![t] = observed[t] + 1]
        BY <1>2 DEF FillEvent, IsProcessed
    <2> HIDE DEF t
    <2>2. observed \in [Trades -> Nat]
        BY DEF TypeInv, TypeOK
    <2> QED BY <1>1, <2>1, <2>2 DEF ToldWhatWasProcessed
<1>3. CASE UNCHANGED vars
    BY <1>1, <1>3 DEF vars, clientVars
<1>4. ASSUME Next, ~FillEvent PROVE UNCHANGED <<processed, observed>>
    BY <1>4 DEF Next, RunSteps, Environment, clientVars, serverVars, ExchangeMoves, RepeatFrame, Disconnect,
        HeartbeatTimeout, Close, Connect, ConnectFails, BackoffElapses, ListenEnds, Stopped,
        SyncPositions, SyncOrders, SyncFails, HookEnds, AuthFrame, UnreadableFrame, UnknownFrame,
        RejectedFrame, OrderEvent, PositionEvent
<1> QED BY <1>1, <1>2, <1>3, <1>4

\* _processed_fill_ids (_apply_fill_event): through any number of reconnections,
\* repeated frames and resynchronizations, no execution is observed twice.
THEOREM FillsObservedOnce == Spec => []FillObservedOnce
<1>1. Init => ToldWhatWasProcessed
    BY DEF Init, ToldWhatWasProcessed
<1>2. TypeInv /\ ToldWhatWasProcessed => FillObservedOnce
    BY DEF ToldWhatWasProcessed, FillObservedOnce
<1> QED BY <1>1, <1>2, TypeInit, TypeStep, FillStep, PTL DEF Spec

-----------------------------------------------------------------------------
(* What the store says was once so                                         *)

\* What a frame of an order says was so when it was sent, and orders only
\* advance from there.
WasSo(f) ==
    /\ xo[f.id].status # "none"
    /\ f.status \in Finished => xo[f.id].status \in Finished
    /\ f.status = "PENDING" => f.id \in Stops

HistoryInv ==
    /\ FinishedOrdersHaveEnded
    /\ \A o \in OrderIds : so[o].status # "none" => xo[o].status # "none"
    /\ \A o \in OrderIds : so[o].status = "PENDING" \/ xo[o].status = "PENDING" => o \in Stops
    /\ \A i \in 1..Len(wire) : wire[i].body.ch = "orders" => WasSo(wire[i].body)

\* Every frame of an order on v is on w.
OrderFramesKept(w, v) ==
    \A i \in 1..Len(v) : v[i].body.ch = "orders" => \E j \in 1..Len(w) : v[i] = w[j]

\* Dropping, doubling and cutting keep the frames.
LEMMA FramesKept ==
    ASSUME NEW w \in Seq(Frames), NEW v \in Seq(Frames),
           Drops(w, v) \/ Doubles(w, v) \/ Begins(w, v) \/ v = w
    PROVE  OrderFramesKept(w, v)
<1>0. Len(w) \in Nat /\ Len(v) \in Nat
    BY LenProperties
<1> SUFFICES ASSUME NEW i \in 1..Len(v) PROVE \E j \in 1..Len(w) : v[i] = w[j]
    BY DEF OrderFramesKept
<1>1. CASE Drops(w, v)
    <2>1. i + 1 \in 1..Len(w) /\ v[i] = w[i + 1]
        BY <1>0, <1>1 DEF Drops
    <2> QED BY <2>1
<1>2. CASE Doubles(w, v)
    <2>1. PICK p \in 1..Len(w) : \A k \in 1..Len(v) : v[k] = w[IF k <= p THEN k ELSE k - 1]
        BY <1>2 DEF Doubles
    <2>2. Len(v) = Len(w) + 1
        BY <1>2 DEF Doubles
    <2>3. CASE i <= p
        <3>1. i \in 1..Len(w) /\ v[i] = w[i]
            BY <1>0, <2>1, <2>3
        <3> QED BY <3>1
    <2>4. CASE ~(i <= p)
        <3>1. i - 1 \in 1..Len(w) /\ v[i] = w[i - 1]
            BY <1>0, <2>1, <2>2, <2>4
        <3> QED BY <3>1
    <2> QED BY <2>3, <2>4
<1>3. CASE Begins(w, v)
    <2>1. i \in 1..Len(w) /\ v[i] = w[i]
        BY <1>0, <1>3 DEF Begins
    <2> QED BY <2>1
<1>4. CASE v = w
    BY <1>4
<1> QED BY <1>1, <1>2, <1>3, <1>4

\* Steps that neither move an order nor write the store.
LEMMA HistoryKept ==
    ASSUME TypeInv, HistoryInv, UNCHANGED <<xo, so>>, OrderFramesKept(wire, wire')
    PROVE  HistoryInv'
<1>1. ASSUME NEW i \in 1..Len(wire'), wire'[i].body.ch = "orders" PROVE WasSo(wire[i].body)'
    <2>1. PICK j \in 1..Len(wire) : wire'[i] = wire[j]
        BY <1>1 DEF OrderFramesKept
    <2> QED BY <1>1, <2>1 DEF HistoryInv, WasSo
<1> QED BY <1>1 DEF HistoryInv, FinishedOrdersHaveEnded

\* The exchange moves on.
LEMMA HistoryMoves ==
    ASSUME TypeInv, HistoryInv, ExchangeMoves
    PROVE  HistoryInv'
<1> USE AccountAssumption, StreamAssumption
<1>1. PICK m \in Moves :
        /\ xo' = m.xo
        /\ IF session.open /\ session.authenticated
           THEN Publish(m.frames)
           ELSE UNCHANGED <<wire, issued, faults, unseen>>
    BY DEF ExchangeMoves
<1>2. SoundMove(m) /\ FramesTell(m)
    BY MoveEffect DEF TypeInv, TypeOK
<1>3. so' = so
    BY DEF ExchangeMoves
<1>4. OrdersAdvance(xo, xo')
    BY <1>1, <1>2 DEF SoundMove
<1>5. ASSUME NEW f, f.id \in OrderIds, WasSo(f)
      PROVE  /\ xo'[f.id].status # "none"
             /\ f.status \in Finished => xo'[f.id].status \in Finished
             /\ f.status = "PENDING" => f.id \in Stops
    BY <1>4, <1>5 DEF WasSo, OrdersAdvance
<1>w. wire \in Seq(Frames) /\ Len(wire) \in Nat
    BY LenProperties DEF TypeInv, TypeOK
<1>6. ASSUME NEW i \in 1..Len(wire'), wire'[i].body.ch = "orders" PROVE WasSo(wire[i].body)'
    <2>1. ASSUME NEW j \in 1..Len(wire), wire'[i] = wire[j] PROVE WasSo(wire[i].body)'
        <3> DEFINE f == wire[j].body
        <3>1. f.id \in OrderIds
            <4>1. wire[j] \in Frames
                BY <1>w, ElementOfSeq
            <4> QED BY <4>1, <1>6, <2>1, FrameTypes
        <3>2. WasSo(f)
            BY <1>6, <2>1 DEF HistoryInv
        <3>3. /\ xo'[f.id].status # "none"
              /\ f.status \in Finished => xo'[f.id].status \in Finished
              /\ f.status = "PENDING" => f.id \in Stops
            BY <3>1, <3>2, <1>5
        <3> QED BY <2>1, <3>3 DEF WasSo
    <2>2. CASE session.open /\ session.authenticated
        <3>0. TypeOK
            BY DEF TypeInv
        <3>1. PICK fate \in Fates(m) : PublishedWith(m, fate)
            BY <1>1, <1>2, <2>2, <3>0, PublishEffect
        <3>2. Appends(wire, wire', Arriving(m, fate))
            BY <3>1 DEF PublishedWith
        <3>3. CASE i <= Len(wire)
            <4>1. i \in 1..Len(wire) /\ wire'[i] = wire[i]
                BY <1>w, <3>2, <3>3 DEF Appends
            <4> QED BY <4>1, <2>1
        <3>4. CASE ~(i <= Len(wire))
            <4>1. wire'[i] \in Arriving(m, fate)
                BY <1>w, <3>2, <3>4 DEF Appends
            <4>2. PICK c \in DOMAIN m.frames : wire'[i].body = m.frames[c]
                BY <4>1 DEF Arriving, Numbered
            <4>3. c = "orders"
                BY <4>2, <1>2, <1>6 DEF FramesTell
            <4> DEFINE f == m.frames["orders"]
            <4>4. f.id \in OrderIds /\ f.status = xo'[f.id].status /\ f.status # "none"
                BY <4>2, <4>3, <1>1, <1>2 DEF FramesTell
            <4>5. f.status = "PENDING" => f.id \in Stops
                BY <4>4, <1>4 DEF OrdersAdvance, HistoryInv
            <4> HIDE DEF f
            <4>6. wire'[i].body = f
                BY <4>2, <4>3 DEF f
            <4> QED BY <4>4, <4>5, <4>6 DEF WasSo
        <3> QED BY <3>3, <3>4
    <2>3. CASE ~(session.open /\ session.authenticated)
        <3>1. wire' = wire
            BY <1>1, <2>3
        <3> QED BY <2>1, <3>1
    <2> QED BY <2>2, <2>3
<1>7. FinishedOrdersHaveEnded'
    BY <1>3, <1>4 DEF HistoryInv, FinishedOrdersHaveEnded, OrdersAdvance
<1> QED BY <1>3, <1>4, <1>6, <1>7 DEF HistoryInv, OrdersAdvance

\* What the store becomes when the open orders are known.
LEMMA Reconciled ==
    ASSUME TypeInv, HistoryInv, NEW o \in OrderIds
    PROVE  /\ ReconciledOrders(OpenOrders)[o].status = so[o].status
              \/ ReconciledOrders(OpenOrders)[o].status = xo[o].status
              \/ (ReconciledOrders(OpenOrders)[o].status \in Finished /\ so[o].status # "none"
                  /\ xo[o].status \in Finished)
           /\ ReconciledOrders(OpenOrders)[o].status = so[o].status =>
                 \/ so[o].status = xo[o].status
                 \/ so[o].status \in {"none", "PENDING"} \cup Finished /\ xo[o].status \in Finished
<1> DEFINE r == ReconciledOrders(OpenOrders)[o]
<1>t. so[o] \in Order /\ xo[o] \in Order /\ so[o].status \in Statuses /\ xo[o].status \in Statuses
    BY DEF TypeInv, TypeOK, AccountTypeOK, Order
<1>1. OpenOrders[o] = IF xo[o].status \in Live THEN xo[o] ELSE NoOrder
    BY DEF OpenOrders, ListedStates
<1>2. r = IF OpenOrders[o].status # "none" THEN OpenOrders[o]
          ELSE IF VanishedFromBook(o, OpenOrders) THEN InferredEnd(o) ELSE so[o]
    BY DEF ReconciledOrders
<1> HIDE DEF r
<1>3. NoOrder.status = "none" /\ "none" \notin Live /\ "none" \notin Finished
    BY DEF NoOrder, Live, Finished
<1>4. so[o].status # "none" => xo[o].status # "none"
    BY DEF HistoryInv
<1>5. CASE xo[o].status \in Live
    <2>1. r = xo[o]
        BY <1>1, <1>2, <1>3, <1>5
    <2> QED BY <2>1 DEF r
<1>6. CASE xo[o].status \notin Live
    <2>1. OpenOrders[o].status = "none"
        BY <1>1, <1>3, <1>6
    <2>2. so[o].status # "none" => xo[o].status \in Finished
        BY <1>t, <1>4, <1>6 DEF Statuses
    <2>3. xo[o].status = "none" \/ xo[o].status \in Finished
        BY <1>t, <1>6 DEF Statuses
    <2>4. CASE VanishedFromBook(o, OpenOrders)
        <3>1. so[o].status \in {"OPEN", "PARTIALLY_FILLED"}
            BY <2>4 DEF VanishedFromBook
        <3>2. r.status \in Finished
            BY <1>2, <1>t, <2>1, <2>4 DEF InferredEnd, Order, Finished
        <3> QED BY <3>1, <3>2, <2>2 DEF r, Finished
    <2>5. CASE ~VanishedFromBook(o, OpenOrders)
        <3>1. r = so[o]
            BY <1>2, <2>1, <2>5
        <3>2. so[o].status \notin {"OPEN", "PARTIALLY_FILLED"}
            BY <2>1, <2>5 DEF VanishedFromBook
        <3>3. so[o].status \in {"none", "PENDING"} \cup Finished
            BY <3>2, <1>t DEF Statuses, Live
        <3> QED BY <3>1, <3>3, <2>2, <2>3 DEF r
    <2> QED BY <2>4, <2>5
<1> QED BY <1>5, <1>6

\* A synchronization writes the store.
LEMMA HistorySync ==
    ASSUME TypeInv, HistoryInv, SyncOrders
    PROVE  HistoryInv'
<1>1. so' = ReconciledOrders(OpenOrders) /\ xo' = xo /\ wire' = wire
    BY DEF SyncOrders, serverVars
<1>2. ASSUME NEW o \in OrderIds
      PROVE  /\ so'[o].status \in Finished => xo'[o].status \in Finished
             /\ so'[o].status # "none" => xo'[o].status # "none"
             /\ so'[o].status = "PENDING" \/ xo'[o].status = "PENDING" => o \in Stops
    <2>1. "none" \notin Finished /\ "PENDING" \notin Finished
        BY DEF Finished
    <2> QED BY <1>1, <2>1, Reconciled DEF HistoryInv, FinishedOrdersHaveEnded
<1>3. \A i \in 1..Len(wire') : wire'[i].body.ch = "orders" => WasSo(wire[i].body)'
    BY <1>1 DEF HistoryInv, WasSo
<1> QED BY <1>2, <1>3 DEF HistoryInv, FinishedOrdersHaveEnded

\* An order event writes the store.
LEMMA HistoryEvent ==
    ASSUME TypeInv, HistoryInv, OrderEvent
    PROVE  HistoryInv'
<1> DEFINE f == Head(wire).body
<1>1. /\ wire # <<>> /\ wire' = Tail(wire) /\ xo' = xo /\ f.ch = "orders"
      /\ so' = [so EXCEPT ![f.id] = OrderAfter(f)]
    BY DEF OrderEvent, DataFrame, Handling
<1>w. wire \in Seq(Frames)
    BY DEF TypeInv, TypeOK
<1>2. Drops(wire, wire')
    BY <1>1, <1>w, TailDrops
<1>3. OrderFramesKept(wire, wire')
    <2>1. wire' \in Seq(Frames)
        BY <1>2 DEF Drops
    <2> QED BY <1>2, <1>w, <2>1, FramesKept
<1>4. WasSo(f) /\ f.id \in OrderIds
    <2>1. Head(wire) = wire[1] /\ wire[1] \in Frames
        BY <1>2 DEF Drops
    <2>2. 1 \in 1..Len(wire)
        <3>1. Len(wire) \in Nat \ {0}
            BY <1>1, <1>w, EmptySeq
        <3> QED BY <3>1
    <2> QED BY <1>1, <2>1, <2>2, FrameTypes DEF HistoryInv
<1>5. OrderAfter(f).status = so[f.id].status \/ OrderAfter(f).status = f.status
    BY DEF OrderAfter
<1>6. so \in [OrderIds -> Order]
    BY DEF TypeInv, TypeOK, AccountTypeOK
<1> DEFINE a == OrderAfter(f)
<1> HIDE DEF f, a
<1>7. so' = [so EXCEPT ![f.id] = a] /\ (a.status = so[f.id].status \/ a.status = f.status)
    BY <1>1, <1>5 DEF a, f
<1>8. \A o \in OrderIds : so'[o].status = so[o].status \/ (o = f.id /\ so'[o].status = f.status)
    BY <1>4, <1>6, <1>7
<1>9. ASSUME NEW o \in OrderIds
      PROVE  /\ so'[o].status \in Finished => xo'[o].status \in Finished
             /\ so'[o].status # "none" => xo'[o].status # "none"
             /\ so'[o].status = "PENDING" \/ xo'[o].status = "PENDING" => o \in Stops
    BY <1>1, <1>4, <1>8 DEF HistoryInv, FinishedOrdersHaveEnded, WasSo
<1>10. ASSUME NEW i \in 1..Len(wire'), wire'[i].body.ch = "orders" PROVE WasSo(wire[i].body)'
    <2>1. PICK j \in 1..Len(wire) : wire'[i] = wire[j]
        BY <1>3, <1>10 DEF OrderFramesKept
    <2> QED BY <1>1, <1>10, <2>1 DEF HistoryInv, WasSo
<1> QED BY <1>9, <1>10 DEF HistoryInv, FinishedOrdersHaveEnded

\* What a step does to the wire, the orders and the store.
LEMMA WireSteps ==
    ASSUME TypeInv, [Next]_vars
    PROVE  \/ ExchangeMoves \/ SyncOrders \/ OrderEvent
           \/ UNCHANGED <<xo, so>> /\ OrderFramesKept(wire, wire')
<1>w. wire \in Seq(Frames) /\ <<>> \in Seq(Frames) /\ Len(<<>>) = 0
    BY EmptySeq DEF TypeInv, TypeOK
<1>s. OrderFramesKept(wire, wire)
    BY DEF OrderFramesKept
<1>1. CASE UNCHANGED <<xo, so, wire>>
    BY <1>1, <1>s
<1>2. CASE RepeatFrame
    <2>1. PICK i \in DOMAIN wire : wire' = SubSeq(wire, 1, i) \o SubSeq(wire, i, Len(wire))
        BY <1>2 DEF RepeatFrame
    <2>2. i \in 1..Len(wire)
        BY <1>w, LenProperties
    <2>3. Doubles(wire, wire')
        BY <1>w, <2>1, <2>2, RepeatDoubles
    <2>4. wire' \in Seq(Frames)
        BY <2>3 DEF Doubles
    <2> QED BY <1>w, <2>3, <2>4, <1>2, FramesKept DEF RepeatFrame, accountVars
<1>3. CASE Disconnect
    <2>1. PICK k \in 0..Len(wire) : wire' = SubSeq(wire, 1, k)
        BY <1>3 DEF Disconnect
    <2>2. Begins(wire, wire')
        BY <1>w, <2>1, CutBegins
    <2>3. wire' \in Seq(Frames)
        BY <2>2 DEF Begins
    <2> QED BY <1>w, <2>2, <2>3, <1>3, FramesKept DEF Disconnect, accountVars
<1>4. CASE ConnectFails \/ ListenEnds \/ Close
    <2>1. wire' = <<>> /\ UNCHANGED <<xo, so>>
        BY <1>4 DEF ConnectFails, ListenEnds, Close, EndSession, accountVars
    <2>2. OrderFramesKept(wire, wire')
        BY <1>w, <2>1 DEF OrderFramesKept
    <2> QED BY <2>1, <2>2
<1>5. CASE Connect
    <2>1. PICK accepted \in BOOLEAN :
            wire' = <<[body |-> AuthBody, seq |-> 0, q |-> IF accepted THEN "ok" ELSE "refused"]>>
        BY <1>5 DEF Connect
    <2> DEFINE f == [body |-> AuthBody, seq |-> 0, q |-> IF accepted THEN "ok" ELSE "refused"]
    <2>2. f.body.ch = "auth"
        BY DEF AuthBody
    <2> HIDE DEF f
    <2>3. wire' = <<f>>
        BY <2>1 DEF f
    <2>4. Len(wire') = 1 /\ wire'[1] = f
        BY <2>3
    <2>5. OrderFramesKept(wire, wire')
        BY <2>2, <2>4 DEF OrderFramesKept
    <2> QED BY <1>5, <2>5 DEF Connect, accountVars
<1>6. CASE AuthFrame \/ UnreadableFrame \/ UnknownFrame \/ RejectedFrame \/ PositionEvent \/ FillEvent
    <2>1. wire # <<>> /\ wire' = Tail(wire) /\ UNCHANGED <<xo, so>>
        BY <1>6 DEF AuthFrame, UnreadableFrame, UnknownFrame, RejectedFrame, PositionEvent, FillEvent,
                    DataFrame, Handling, accountVars
    <2>2. Drops(wire, wire')
        BY <1>w, <2>1, TailDrops
    <2>3. wire' \in Seq(Frames)
        BY <2>2 DEF Drops
    <2> QED BY <1>w, <2>1, <2>2, <2>3, FramesKept
<1>7. CASE \/ UNCHANGED vars \/ HeartbeatTimeout \/ Stopped \/ BackoffElapses \/ SyncPositions
           \/ SyncFails \/ HookEnds
           \/ (Admit \/ Finish) /\ UNCHANGED <<serverVars, clientVars>>
    <2>1. UNCHANGED <<xo, so, wire>>
        BY <1>7 DEF vars, HeartbeatTimeout, Stopped, BackoffElapses, SyncPositions, SyncFails,
                    HookEnds, Admit, Finish, accountVars, serverVars
    <2> QED BY <1>1, <2>1
<1> QED BY <1>2, <1>3, <1>4, <1>5, <1>6, <1>7 DEF Next, RunSteps, Environment

\* No step, of the exchange, the wire or a reader, makes the history of an order untrue.
LEMMA HistoryStep ==
    ASSUME TypeInv, HistoryInv, [Next]_vars
    PROVE  HistoryInv'
BY WireSteps, HistoryKept, HistoryMoves, HistorySync, HistoryEvent

\* At the start no order exists anywhere.
LEMMA HistoryInit ==
    ASSUME Init PROVE HistoryInv
<1>1. /\ \A o \in OrderIds : so[o].status = "none" /\ xo[o].status = "none"
      /\ wire = <<>>
    BY DEF Init, AccountInit, NoOrder
<1>2. Len(wire) = 0 /\ "none" \notin Finished
    BY <1>1, EmptySeq DEF Finished
<1> QED BY <1>1, <1>2 DEF HistoryInv, FinishedOrdersHaveEnded

\* Inference from absence and stale frames (_reconcile_orders, _apply_order_event): an
\* order the store holds as finished has ended on the exchange, whichever frames
\* were lost, repeated or older than the snapshot they followed.
THEOREM FinishedHaveEnded == Spec => []FinishedOrdersHaveEnded
<1>1. HistoryInv => FinishedOrdersHaveEnded
    BY DEF HistoryInv
<1> QED BY <1>1, TypeInit, TypeStep, HistoryInit, HistoryStep, PTL DEF Spec

-----------------------------------------------------------------------------
(* Why a settled store is true                                             *)

IsOk(f, c) == f.body.ch = c /\ f.q = "ok"

\* A usable frame of channel c numbered n, of order o numbered n, is on the wire.
OkOnWire(w, c, n) == \E i \in 1..Len(w) : IsOk(w[i], c) /\ w[i].seq = n
OkFor(w, o, n) ==
    \E i \in 1..Len(w) : IsOk(w[i], "orders") /\ w[i].seq = n /\ w[i].body.id = o

\* Frames come in the order of their numbers, the client's before those on the
\* wire and these up to the last issued; frames of one number are one frame.
Ordered(w, seen, last) ==
    /\ \A c \in Channels : seen[c] <= last[c]
    /\ \A i \in 1..Len(w) : w[i].body.ch \in Channels =>
          seen[w[i].body.ch] <= w[i].seq /\ w[i].seq <= last[w[i].body.ch]
    /\ \A i, j \in 1..Len(w) :
          i < j /\ w[i].body.ch \in Channels /\ w[i].body.ch = w[j].body.ch => w[i].seq <= w[j].seq
    /\ \A i, j \in 1..Len(w) :
          /\ w[i].body.ch \in Channels
          /\ w[i].body.ch = w[j].body.ch
          /\ w[i].seq = w[j].seq
          => w[i] = w[j]

WireOrdered == Ordered(wire, sequence, issued)

\* A session that announces the account's moves and has lost nothing for good.
Seen == session.open /\ session.authenticated /\ ~unseen

\* The last position frame tells the position; an order frame tells the order,
\* or something newer about it is coming or missing.
Newer(w, last, o, k) ==
    \E n \in 1..last["orders"] : n > k /\ (OkFor(w, o, n) \/ ~OkOnWire(w, "orders", n))

WireTrue ==
    /\ \A i \in 1..Len(wire) : wire[i].q \notin {"malformed", "conflict"}
    /\ \A i \in 1..Len(wire) :
          IsOk(wire[i], "positions") /\ wire[i].seq = issued["positions"]
          => PositionOf(wire[i].body) = xp
    /\ \A i \in 1..Len(wire) : IsOk(wire[i], "orders") =>
          \/ wire[i].body.status = xo[wire[i].body.id].status
          \/ Newer(wire, issued, wire[i].body.id, wire[i].seq)

\* The position in the store, once the last frame was handled or, while there
\* was none, once a synchronization has succeeded.
PositionTrue ==
    /\ sequence["positions"] = issued["positions"] /\ issued["positions"] # 0 =>
          sp = xp /\ (Syncing /\ run.stage = "orders" => run.pos = xp)
    /\ issued["positions"] = 0 =>
          /\ Syncing /\ run.stage = "orders" => run.pos = xp
          /\ opened \/ (Syncing /\ run.stage = "hook" /\ run.ok) => sp = xp

\* The store agrees about an order, or a frame about it is coming, or there is a
\* hole that a later frame will reveal.
Revealed(w, seen, n) ==
    /\ ~OkOnWire(w, "orders", n)
    /\ seen["orders"] # 0 \/ \E b \in 1..n : b < n /\ OkOnWire(w, "orders", b)

Pending(w, seen, last, o) ==
    \E n \in 1..last["orders"] : n > seen["orders"] /\ (OkFor(w, o, n) \/ Revealed(w, seen, n))

\* The client relies on its store: nothing has happened to it since a
\* synchronization succeeded that it has not noticed.
Relying ==
    \/ run.pc = "listen" /\ opened /\ integrityOk
    \/ Syncing /\ run.stage = "hook" /\ run.ok

OrdersTrue ==
    Relying =>
        \/ \E i \in 1..Len(wire) : wire[i].q = "unknown"
        \/ \A o \in OrderIds : Agrees(o) \/ Pending(wire, sequence, issued, o)

SettledInv == WireOrdered /\ (Seen => WireTrue /\ PositionTrue /\ OrdersTrue)

\* The elements of a wire are frames.
LEMMA WireFrames ==
    ASSUME NEW w \in Seq(Frames)
    PROVE  /\ Len(w) \in Nat
           /\ \A i \in 1..Len(w) : /\ w[i] \in Frames
                                   /\ w[i].body.ch \in Channels => w[i].seq \in Nat \ {0}
<1>1. \A i \in 1..Len(w) : w[i] \in Frames
    BY ElementOfSeq
<1>2. \A i \in 1..Len(w) : w[i].body.ch \in Channels => w[i].seq \in Nat \ {0}
    BY <1>1, FrameTypes DEF Channels
<1> QED BY <1>1, <1>2, LenProperties

\* A first part of a wire in order is in order.
LEMMA BeginsOrdered ==
    ASSUME NEW w \in Seq(Frames), NEW v, NEW seen, NEW last,
           Begins(w, v), Ordered(w, seen, last)
    PROVE  Ordered(v, seen, last)
<1>1. Len(w) \in Nat /\ Len(v) \in Nat /\ Len(v) <= Len(w)
    BY LenProperties DEF Begins
<1>2. \A i \in 1..Len(v) : i \in 1..Len(w) /\ v[i] = w[i]
    BY <1>1 DEF Begins
<1> QED BY <1>2 DEF Ordered

\* The same frames are on w and on v.
SameFrames(w, v) ==
    /\ \A i \in 1..Len(v) : \E j \in 1..Len(w) : v[i] = w[j]
    /\ \A j \in 1..Len(w) : \E i \in 1..Len(v) : v[i] = w[j]

\* A frame sent twice in a row leaves a wire in order, with the same frames.
LEMMA DoublesOrdered ==
    ASSUME NEW w \in Seq(Frames), NEW v, NEW seen \in [Channels -> Nat], NEW last \in [Channels -> Nat],
           Doubles(w, v), Ordered(w, seen, last)
    PROVE  Ordered(v, seen, last) /\ SameFrames(w, v)
<1>0. Len(w) \in Nat /\ Len(v) = Len(w) + 1
    BY LenProperties DEF Doubles
<1>1. PICK p \in 1..Len(w) : \A i \in 1..Len(v) : v[i] = w[IF i <= p THEN i ELSE i - 1]
    BY DEF Doubles
<1> DEFINE at(i) == IF i <= p THEN i ELSE i - 1
<1>2. \A i \in 1..Len(v) : at(i) \in 1..Len(w) /\ v[i] = w[at(i)]
    BY <1>0, <1>1
<1>3. \A i, j \in 1..Len(v) : i < j => at(i) <= at(j)
    BY <1>0
<1>4. \A j \in 1..Len(w) : \E i \in 1..Len(v) : v[i] = w[j]
    <2> SUFFICES ASSUME NEW j \in 1..Len(w) PROVE \E i \in 1..Len(v) : v[i] = w[j]
        OBVIOUS
    <2>1. CASE j <= p
        <3>1. j \in 1..Len(v) /\ at(j) = j
            BY <1>0, <2>1
        <3> QED BY <3>1, <1>2
    <2>2. CASE ~(j <= p)
        <3>1. j + 1 \in 1..Len(v) /\ at(j + 1) = j
            BY <1>0, <2>2
        <3> QED BY <3>1, <1>2
    <2> QED BY <2>1, <2>2
<1> HIDE DEF at
<1>5. \A i \in 1..Len(v) : \E j \in 1..Len(w) : v[i] = w[j]
    BY <1>2
<1>6. Ordered(v, seen, last)
    <2>1. \A i \in 1..Len(v) : v[i].body.ch \in Channels =>
             seen[v[i].body.ch] <= v[i].seq /\ v[i].seq <= last[v[i].body.ch]
        BY <1>2 DEF Ordered
    <2>2. ASSUME NEW i \in 1..Len(v), NEW j \in 1..Len(v), i < j,
                 v[i].body.ch \in Channels, v[i].body.ch = v[j].body.ch
          PROVE  v[i].seq <= v[j].seq
        <3>1. at(i) \in 1..Len(w) /\ at(j) \in 1..Len(w) /\ at(i) <= at(j)
              /\ v[i] = w[at(i)] /\ v[j] = w[at(j)]
            BY <1>2, <1>3, <2>2
        <3>2. CASE at(i) = at(j)
            <4>1. v[i] = v[j]
                BY <3>1, <3>2
            <4>2. v[i].seq \in Nat
                BY <3>1, <2>2, WireFrames
            <4> QED BY <4>1, <4>2
        <3>3. CASE at(i) # at(j)
            <4>1. at(i) < at(j)
                BY <3>1, <3>3
            <4> QED BY <3>1, <4>1, <2>2 DEF Ordered
        <3> QED BY <3>2, <3>3
    <2>3. ASSUME NEW i \in 1..Len(v), NEW j \in 1..Len(v),
                 v[i].body.ch \in Channels, v[i].body.ch = v[j].body.ch, v[i].seq = v[j].seq
          PROVE  v[i] = v[j]
        <3>1. at(i) \in 1..Len(w) /\ at(j) \in 1..Len(w) /\ v[i] = w[at(i)] /\ v[j] = w[at(j)]
            BY <1>2, <2>3
        <3> QED BY <3>1, <2>3 DEF Ordered
    <2>4. \A c \in Channels : seen[c] <= last[c]
        BY DEF Ordered
    <2> QED BY <2>1, <2>2, <2>3, <2>4 DEF Ordered
<1> QED BY <1>4, <1>5, <1>6 DEF SameFrames

\* Handling the first frame leaves a wire in order, whether its number is noted
\* or not.
LEMMA DropsOrdered ==
    ASSUME NEW w \in Seq(Frames), NEW v, NEW seen \in [Channels -> Nat], NEW last \in [Channels -> Nat],
           NEW next, Drops(w, v), Ordered(w, seen, last),
           \/ next = seen
           \/ w[1].body.ch \in Channels /\ next = [seen EXCEPT ![w[1].body.ch] = w[1].seq]
    PROVE  Ordered(v, next, last)
<1>0. Len(w) \in Nat /\ Len(v) \in Nat /\ Len(w) = Len(v) + 1
    BY LenProperties DEF Drops
<1>1. /\ 1 \in 1..Len(w)
      /\ \A i \in 1..Len(v) : i + 1 \in 1..Len(w) /\ v[i] = w[i + 1] /\ 1 < i + 1
      /\ \A i, j \in 1..Len(v) : i < j => i + 1 < j + 1
    BY <1>0 DEF Drops
<1>2. \A c \in Channels : next[c] <= last[c]
    <2>1. CASE next = seen
        BY <2>1 DEF Ordered
    <2>2. CASE w[1].body.ch \in Channels /\ next = [seen EXCEPT ![w[1].body.ch] = w[1].seq]
        BY <1>1, <2>2 DEF Ordered
    <2> QED BY <2>1, <2>2
<1>3. ASSUME NEW i \in 1..Len(v), v[i].body.ch \in Channels
      PROVE  next[v[i].body.ch] <= v[i].seq /\ v[i].seq <= last[v[i].body.ch]
    <2>1. seen[v[i].body.ch] <= v[i].seq /\ v[i].seq <= last[v[i].body.ch]
        BY <1>1, <1>3 DEF Ordered
    <2>2. CASE next = seen
        BY <2>1, <2>2
    <2>3. CASE w[1].body.ch \in Channels /\ next = [seen EXCEPT ![w[1].body.ch] = w[1].seq]
        <3>1. w[1].body.ch = v[i].body.ch => w[1].seq <= v[i].seq
            <4>1. 1 \in 1..Len(w) /\ i + 1 \in 1..Len(w) /\ 1 < i + 1 /\ v[i] = w[i + 1]
                BY <1>1, <1>3
            <4> QED BY <4>1, <2>3 DEF Ordered
        <3> QED BY <2>1, <2>3, <3>1, <1>3
    <2> QED BY <2>2, <2>3
<1>4. \A i, j \in 1..Len(v) :
          i < j /\ v[i].body.ch \in Channels /\ v[i].body.ch = v[j].body.ch => v[i].seq <= v[j].seq
    BY <1>1 DEF Ordered
<1>5. \A i, j \in 1..Len(v) :
          /\ v[i].body.ch \in Channels
          /\ v[i].body.ch = v[j].body.ch
          /\ v[i].seq = v[j].seq
          => v[i] = v[j]
    BY <1>1 DEF Ordered
<1> QED BY <1>2, <1>3, <1>4, <1>5 DEF Ordered

\* Published frames come behind the others, numbered on.
LEMMA AppendsOrdered ==
    ASSUME NEW w \in Seq(Frames), NEW v, NEW seen \in [Channels -> Nat], NEW last \in [Channels -> Nat],
           NEW next \in [Channels -> Nat], NEW N,
           Appends(w, v, N), Ordered(w, seen, last),
           \A c \in Channels : last[c] <= next[c],
           \A f \in N : /\ f.body.ch \in Channels
                        /\ f.seq = last[f.body.ch] + 1
                        /\ next[f.body.ch] = last[f.body.ch] + 1,
           \A f, g \in N : f.body.ch = g.body.ch => f = g
    PROVE  Ordered(v, seen, next)
<1>0. Len(w) \in Nat /\ Len(v) \in Nat
    BY LenProperties DEF Appends
<1>1. \A i \in 1..Len(v) : (i \in 1..Len(w) /\ v[i] = w[i]) \/ (i > Len(w) /\ v[i] \in N)
    BY <1>0 DEF Appends
<1>2. \A c \in Channels : seen[c] <= next[c]
    BY DEF Ordered
<1>3. ASSUME NEW i \in 1..Len(v), v[i].body.ch \in Channels
      PROVE  seen[v[i].body.ch] <= v[i].seq /\ v[i].seq <= next[v[i].body.ch]
    <2>1. CASE i \in 1..Len(w) /\ v[i] = w[i]
        <3>1. seen[v[i].body.ch] <= v[i].seq /\ v[i].seq <= last[v[i].body.ch]
            BY <1>3, <2>1 DEF Ordered
        <3>2. v[i].seq \in Nat
            BY <1>3, <2>1, WireFrames
        <3> QED BY <3>1, <3>2, <1>3
    <2>2. CASE v[i] \in N
        <3>1. seen[v[i].body.ch] <= last[v[i].body.ch]
            BY <1>3 DEF Ordered
        <3> QED BY <3>1, <2>2, <1>3
    <2> QED BY <1>1, <2>1, <2>2
<1>4. ASSUME NEW i \in 1..Len(v), NEW j \in 1..Len(v), v[i].body.ch \in Channels,
             v[i].body.ch = v[j].body.ch
      PROVE  /\ i < j => v[i].seq <= v[j].seq
             /\ v[i].seq = v[j].seq => v[i] = v[j]
    <2>1. CASE i \in 1..Len(w) /\ v[i] = w[i] /\ j \in 1..Len(w) /\ v[j] = w[j]
        BY <1>4, <2>1 DEF Ordered
    <2>2. CASE i \in 1..Len(w) /\ v[i] = w[i] /\ j > Len(w) /\ v[j] \in N
        <3>1. v[i].seq <= last[v[i].body.ch] /\ v[i].seq \in Nat
            BY <1>4, <2>2, WireFrames DEF Ordered
        <3>2. v[j].seq = last[v[i].body.ch] + 1
            BY <1>4, <2>2
        <3> QED BY <3>1, <3>2, <1>4
    <2>3. CASE i > Len(w) /\ v[i] \in N /\ j \in 1..Len(w) /\ v[j] = w[j]
        <3>1. v[j].seq <= last[v[i].body.ch] /\ v[j].seq \in Nat
            BY <1>4, <2>3, WireFrames DEF Ordered
        <3>2. v[i].seq = last[v[i].body.ch] + 1
            BY <1>4, <2>3
        <3>3. ~(i < j)
            BY <1>0, <2>3
        <3> QED BY <3>1, <3>2, <3>3, <1>4
    <2>4. CASE v[i] \in N /\ v[j] \in N
        <3>1. v[i] = v[j]
            BY <2>4, <1>4
        <3>2. v[i].seq = last[v[i].body.ch] + 1
            BY <1>4, <2>4
        <3> QED BY <3>1, <3>2, <1>4
    <2> QED BY <1>1, <2>1, <2>2, <2>3, <2>4
<1> QED BY <1>2, <1>3, <1>4 DEF Ordered

\* Behind a publication, what is said of the numbers issued before still is.
LEMMA AppendsSame ==
    ASSUME NEW w \in Seq(Frames), NEW v, NEW N, NEW k \in Nat,
           Appends(w, v, N), \A f \in N : f.body.ch = "orders" => f.seq = k + 1,
           NEW n \in 1..k
    PROVE  /\ OkOnWire(w, "orders", n) => OkOnWire(v, "orders", n)
           /\ OkOnWire(v, "orders", n) => OkOnWire(w, "orders", n)
           /\ \A o : OkFor(w, o, n) => OkFor(v, o, n)
<1>0. Len(w) \in Nat /\ Len(v) \in Nat /\ Len(w) <= Len(v)
    BY LenProperties DEF Appends
<1>1. \A i \in 1..Len(w) : i \in 1..Len(v) /\ v[i] = w[i]
    BY <1>0 DEF Appends
<1>2. OkOnWire(w, "orders", n) => OkOnWire(v, "orders", n)
    BY <1>1 DEF OkOnWire
<1>3. \A o : OkFor(w, o, n) => OkFor(v, o, n)
    BY <1>1 DEF OkFor
<1>4. ASSUME OkOnWire(v, "orders", n) PROVE OkOnWire(w, "orders", n)
    <2>1. PICK i \in 1..Len(v) : IsOk(v[i], "orders") /\ v[i].seq = n
        BY <1>4 DEF OkOnWire
    <2>2. ~(v[i] \in N)
        BY <2>1 DEF IsOk
    <2>3. i \in 1..Len(w)
        BY <1>0, <2>2 DEF Appends
    <2> QED BY <2>1, <2>3, <1>1 DEF OkOnWire
<1> QED BY <1>2, <1>3, <1>4

\* The same of a wire with a frame doubled.
LEMMA DoublesSame ==
    ASSUME NEW w, NEW v, NEW n, SameFrames(w, v)
    PROVE  /\ OkOnWire(w, "orders", n) => OkOnWire(v, "orders", n)
           /\ OkOnWire(v, "orders", n) => OkOnWire(w, "orders", n)
           /\ \A o : OkFor(w, o, n) => OkFor(v, o, n)
<1>1. OkOnWire(w, "orders", n) => OkOnWire(v, "orders", n)
    BY DEF OkOnWire, SameFrames
<1>2. OkOnWire(v, "orders", n) => OkOnWire(w, "orders", n)
    BY DEF OkOnWire, SameFrames
<1>3. \A o : OkFor(w, o, n) => OkFor(v, o, n)
    BY DEF OkFor, SameFrames
<1> QED BY <1>1, <1>2, <1>3

\* And of a wire without its first frame, for every number but that frame's, or
\* for every number when that frame is not a usable one about an order.
LEMMA DropsSame ==
    ASSUME NEW w \in Seq(Frames), NEW v, NEW n, Drops(w, v),
           ~IsOk(w[1], "orders") \/ w[1].seq # n
    PROVE  /\ OkOnWire(w, "orders", n) => OkOnWire(v, "orders", n)
           /\ OkOnWire(v, "orders", n) => OkOnWire(w, "orders", n)
           /\ \A o : OkFor(w, o, n) => OkFor(v, o, n)
<1>0. Len(w) \in Nat /\ Len(v) \in Nat /\ Len(w) = Len(v) + 1
    BY LenProperties DEF Drops
<1>1. \A i \in 1..Len(v) : i + 1 \in 1..Len(w) /\ v[i] = w[i + 1]
    BY <1>0 DEF Drops
<1>2. \A j \in 1..Len(w) : j # 1 => j - 1 \in 1..Len(v) /\ v[j - 1] = w[j]
    <2> SUFFICES ASSUME NEW j \in 1..Len(w), j # 1 PROVE j - 1 \in 1..Len(v) /\ v[j - 1] = w[j]
        OBVIOUS
    <2>1. j - 1 \in 1..Len(v) /\ (j - 1) + 1 = j
        BY <1>0
    <2> QED BY <2>1, <1>1
<1>3. OkOnWire(v, "orders", n) => OkOnWire(w, "orders", n)
    BY <1>1 DEF OkOnWire
<1>4. OkOnWire(w, "orders", n) => OkOnWire(v, "orders", n)
    BY <1>2 DEF OkOnWire
<1>5. \A o : OkFor(w, o, n) => OkFor(v, o, n)
    BY <1>2 DEF OkFor
<1> QED BY <1>3, <1>4, <1>5

-----------------------------------------------------------------------------
(* The invariant is inductive                                              *)

\* The types and orders the steps below rely on.
LEMMA WireFacts ==
    ASSUME TypeInv
    PROVE  /\ wire \in Seq(Frames) /\ Len(wire) \in Nat
           /\ sequence \in [Channels -> Nat] /\ issued \in [Channels -> Nat]
           /\ "orders" \in Channels /\ "positions" \in Channels /\ "user_trades" \in Channels
           /\ "auth" \notin Channels
           /\ xo \in [OrderIds -> Order] /\ so \in [OrderIds -> Order]
           /\ \A i \in 1..Len(wire) : wire[i] \in Frames
BY LenProperties, ElementOfSeq DEF TypeInv, TypeOK, AccountTypeOK, Channels

\* At the start nothing is settled that the exchange does not hold.
LEMMA SettledInit == ASSUME Init PROVE SettledInv
<1>1. wire = <<>> /\ Len(wire) = 0
    BY EmptySeq DEF Init
<1>2. WireOrdered
    BY <1>1 DEF Init, WireOrdered, Ordered
<1>3. ~Seen
    BY DEF Init, Seen
<1> QED BY <1>2, <1>3 DEF SettledInv

\* The steps of the coroutine that leave the wire, the orders and the numbers
\* alone.
LEMMA QuietSettles ==
    ASSUME SettledInv, UNCHANGED <<xo, xp, so, wire, issued, sequence, session, unseen>>,
           Relying' => Relying,
           PositionTrue => PositionTrue'
    PROVE  SettledInv'
<1>1. WireOrdered'
    BY DEF SettledInv, WireOrdered, Ordered
<1>2. Seen' => Seen
    BY DEF Seen
<1>3. WireTrue => WireTrue'
    BY DEF WireTrue, Newer, OkFor, OkOnWire
<1>4. OrdersTrue => OrdersTrue'
    BY DEF OrdersTrue, Agrees, Pending, Revealed, OkFor, OkOnWire
<1> QED BY <1>1, <1>2, <1>3, <1>4 DEF SettledInv

\* The steps that end the session.
LEMMA EndedSettles ==
    ASSUME TypeInv, SettledInv, UNCHANGED <<issued, sequence>>, ~session'.open,
           wire' = wire \/ wire' = <<>> \/ Begins(wire, wire')
    PROVE  SettledInv'
<1>1. Ordered(wire, sequence, issued)
    BY DEF SettledInv, WireOrdered
<1>2. Ordered(wire', sequence, issued)
    <2>1. CASE wire' = wire
        BY <1>1, <2>1
    <2>2. CASE wire' = <<>>
        <3>1. Len(wire') = 0
            BY <2>2, EmptySeq
        <3> QED BY <1>1, <3>1 DEF Ordered
    <2>3. CASE Begins(wire, wire')
        BY <1>1, <2>3, WireFacts, BeginsOrdered
    <2> QED BY <2>1, <2>2, <2>3
<1>3. WireOrdered'
    BY <1>2 DEF WireOrdered
<1>4. ~Seen'
    BY DEF Seen
<1> QED BY <1>3, <1>4 DEF SettledInv

\* A new session starts with nothing but the answer to its authentication.
LEMMA ConnectSettles ==
    ASSUME TypeInv, SettledInv, Connect
    PROVE  SettledInv'
<1>1. PICK accepted \in BOOLEAN :
        /\ session' = [open |-> TRUE, authenticated |-> accepted]
        /\ wire' = <<[body |-> AuthBody, seq |-> 0, q |-> IF accepted THEN "ok" ELSE "refused"]>>
    BY DEF Connect
<1> DEFINE f == [body |-> AuthBody, seq |-> 0, q |-> IF accepted THEN "ok" ELSE "refused"]
<1>2. f.body.ch = "auth" /\ f.q \in {"ok", "refused"} /\ "auth" \notin Channels
      /\ "auth" # "orders" /\ "auth" # "positions"
    BY DEF AuthBody, Channels
<1>3. wire' = <<f>>
    BY <1>1
<1> HIDE DEF f
<1>4. Len(wire') = 1 /\ \A i \in 1..Len(wire') : wire'[i] = f
    BY <1>3
<1>5. /\ issued' = [c \in Channels |-> 0] /\ sequence' = [c \in Channels |-> 0]
      /\ opened' = FALSE
      /\ run' = [run EXCEPT !.pc = "openSync", !.stage = "positions", !.ok = TRUE, !.attempt = 0]
    BY DEF Connect, ResetSequences
<1>6. run'.pc = "openSync" /\ run'.stage = "positions"
    BY <1>5 DEF TypeInv, TypeOK, Runs
<1>7. WireOrdered'
    BY <1>2, <1>4, <1>5 DEF WireOrdered, Ordered
<1>8. WireTrue'
    BY <1>2, <1>4 DEF WireTrue, IsOk
<1>9. PositionTrue'
    BY <1>5, <1>6 DEF PositionTrue, Channels
<1>10. OrdersTrue'
    BY <1>6 DEF OrdersTrue, Relying
<1> QED BY <1>7, <1>8, <1>9, <1>10 DEF SettledInv

\* A synchronization writes the store it read.
LEMMA SyncSettles ==
    ASSUME TypeInv, HistoryInv, SettledInv, SyncOrders
    PROVE  SettledInv'
<1>1. /\ so' = ReconciledOrders(OpenOrders) /\ sp' = run.pos
      /\ UNCHANGED <<xo, xp, wire, issued, sequence, session, unseen, opened>>
      /\ Syncing /\ run.stage = "orders"
      /\ run' = [run EXCEPT !.stage = "hook", !.pos = 0]
    BY DEF SyncOrders, ReconciledPosition, serverVars
<1>2. run'.stage = "hook"
    BY <1>1 DEF TypeInv, TypeOK, Runs
<1>3. WireOrdered' /\ (Seen' => Seen) /\ (WireTrue => WireTrue')
    BY <1>1 DEF SettledInv, WireOrdered, Ordered, Seen, WireTrue, Newer, OkFor, OkOnWire
<1>4. PositionTrue => PositionTrue'
    BY <1>1, <1>2 DEF PositionTrue
<1>5. ASSUME NEW o \in OrderIds PROVE Agrees(o)'
    BY <1>1, Reconciled DEF Agrees, HistoryInv
<1>6. OrdersTrue'
    BY <1>5 DEF OrdersTrue
<1> QED BY <1>3, <1>4, <1>6 DEF SettledInv

\* A frame sent twice says nothing new.
LEMMA RepeatSettles ==
    ASSUME TypeInv, SettledInv, RepeatFrame
    PROVE  SettledInv'
<1>1. /\ UNCHANGED <<xo, xp, so, sp, issued, sequence, session, unseen, run, opened, integrityOk>>
      /\ \E i \in DOMAIN wire : wire' = SubSeq(wire, 1, i) \o SubSeq(wire, i, Len(wire))
    BY DEF RepeatFrame, accountVars, clientVars
<1>2. Doubles(wire, wire')
    <2>1. DOMAIN wire = 1..Len(wire)
        BY WireFacts
    <2> QED BY <1>1, <2>1, WireFacts, RepeatDoubles
<1>3. Ordered(wire, sequence, issued)
    BY DEF SettledInv, WireOrdered
<1>4. /\ Ordered(wire', sequence, issued)
      /\ \A i \in 1..Len(wire') : \E j \in 1..Len(wire) : wire'[i] = wire[j]
      /\ \A j \in 1..Len(wire) : \E i \in 1..Len(wire') : wire'[i] = wire[j]
    <2>1. wire \in Seq(Frames) /\ sequence \in [Channels -> Nat] /\ issued \in [Channels -> Nat]
        BY WireFacts
    <2>2. Ordered(wire', sequence, issued) /\ SameFrames(wire, wire')
        BY <1>2, <1>3, <2>1, DoublesOrdered, Zenon
    <2> QED BY <2>2 DEF SameFrames
<1>5. WireOrdered'
    BY <1>1, <1>4 DEF WireOrdered
<1>6. ASSUME NEW n
      PROVE  /\ OkOnWire(wire, "orders", n) => OkOnWire(wire', "orders", n)
             /\ OkOnWire(wire', "orders", n) => OkOnWire(wire, "orders", n)
             /\ \A o : OkFor(wire, o, n) => OkFor(wire', o, n)
    <2>1. SameFrames(wire, wire')
        BY <1>4 DEF SameFrames
    <2> QED BY <2>1, DoublesSame
<1>7. ASSUME WireTrue PROVE WireTrue'
    <2>1. \A i \in 1..Len(wire') : wire'[i].q \notin {"malformed", "conflict"}
        BY <1>4, <1>7 DEF WireTrue
    <2>2. \A i \in 1..Len(wire') :
             IsOk(wire'[i], "positions") /\ wire'[i].seq = issued["positions"]
             => PositionOf(wire'[i].body) = xp
        BY <1>4, <1>7 DEF WireTrue
    <2>3. \A i \in 1..Len(wire') : IsOk(wire'[i], "orders") =>
             \/ wire'[i].body.status = xo[wire'[i].body.id].status
             \/ Newer(wire', issued, wire'[i].body.id, wire'[i].seq)
        <3>1. ASSUME NEW o, NEW k, Newer(wire, issued, o, k) PROVE Newer(wire', issued, o, k)
            BY <1>6, <3>1 DEF Newer
        <3> QED BY <1>4, <1>7, <3>1 DEF WireTrue
    <2> QED BY <1>1, <2>1, <2>2, <2>3 DEF WireTrue, IsOk, PositionOf, IsClosure, Newer, OkFor, OkOnWire
<1>8. PositionTrue => PositionTrue'
    BY <1>1 DEF PositionTrue, Syncing
<1>9. ASSUME OrdersTrue, Relying' PROVE OrdersTrue'
    <2>1. Relying
        BY <1>1, <1>9 DEF Relying, Syncing
    <2>2. CASE \E j \in 1..Len(wire) : wire[j].q = "unknown"
        <3>1. \E i \in 1..Len(wire') : wire'[i].q = "unknown"
            BY <1>4, <2>2
        <3> QED BY <3>1 DEF OrdersTrue
    <2>3. CASE \A o \in OrderIds : Agrees(o) \/ Pending(wire, sequence, issued, o)
        <3>1. ASSUME NEW o \in OrderIds, Pending(wire, sequence, issued, o)
              PROVE  Pending(wire', sequence, issued, o)
            BY <1>6, <3>1 DEF Pending, Revealed
        <3>2. ASSUME NEW o \in OrderIds, Agrees(o) PROVE Agrees(o)'
            BY <1>1, <3>2 DEF Agrees
        <3>3. \A o \in OrderIds : Agrees(o)' \/ Pending(wire', sequence', issued', o)
            BY <1>1, <2>3, <3>1, <3>2
        <3> QED BY <3>3 DEF OrdersTrue
    <2> QED BY <1>9, <2>1, <2>2, <2>3 DEF OrdersTrue
<1>10. Seen' => Seen
    BY <1>1 DEF Seen
<1>11. OrdersTrue => OrdersTrue'
    BY <1>9 DEF OrdersTrue
<1> QED BY <1>5, <1>7, <1>8, <1>10, <1>11 DEF SettledInv

\* _handle_message takes the first frame: the wire stays in order, and what the
\* frames left say is still so.
LEMMA DropFacts ==
    ASSUME TypeInv, SettledInv, wire # <<>>, wire' = Tail(wire), UNCHANGED <<xo, xp, issued>>,
           \/ sequence' = sequence
           \/ wire[1].body.ch \in Channels
              /\ sequence' = [sequence EXCEPT ![wire[1].body.ch] = wire[1].seq]
    PROVE  /\ Drops(wire, wire')
           /\ 1 \in 1..Len(wire)
           /\ Len(wire') \in Nat
           /\ \A i \in 1..Len(wire') : i + 1 \in 1..Len(wire) /\ wire'[i] = wire[i + 1]
           /\ \A j \in 1..Len(wire) : j # 1 => \E i \in 1..Len(wire') : wire'[i] = wire[j]
           /\ WireOrdered'
<1>w. /\ wire \in Seq(Frames) /\ sequence \in [Channels -> Nat] /\ issued \in [Channels -> Nat]
      /\ Len(wire) \in Nat
    BY WireFacts
<1>1. Drops(wire, wire')
    BY <1>w, TailDrops
<1>2. Len(wire') \in Nat /\ Len(wire) = Len(wire') + 1
    BY <1>1, <1>w, LenProperties DEF Drops
<1>3. 1 \in 1..Len(wire) /\ \A i \in 1..Len(wire') : i + 1 \in 1..Len(wire) /\ wire'[i] = wire[i + 1]
    BY <1>1, <1>2 DEF Drops
<1>4. ASSUME NEW j \in 1..Len(wire), j # 1 PROVE \E i \in 1..Len(wire') : wire'[i] = wire[j]
    <2>1. j - 1 \in 1..Len(wire') /\ (j - 1) + 1 = j
        BY <1>2, <1>4
    <2> QED BY <2>1, <1>3
<1>5. Ordered(wire, sequence, issued)
    BY DEF SettledInv, WireOrdered
<1>6. Ordered(wire', sequence', issued)
    BY <1>1, <1>5, <1>w, DropsOrdered, Zenon
<1>7. WireOrdered'
    BY <1>6 DEF WireOrdered
<1> QED BY <1>1, <1>2, <1>3, <1>4, <1>7

\* What is newer about an order than a frame left on the wire is still so.
LEMMA DropTrue ==
    ASSUME TypeInv, SettledInv, wire # <<>>, wire' = Tail(wire), UNCHANGED <<xo, xp, issued>>,
           \/ sequence' = sequence
           \/ wire[1].body.ch \in Channels
              /\ sequence' = [sequence EXCEPT ![wire[1].body.ch] = wire[1].seq],
           WireTrue
    PROVE  WireTrue'
<1>d. /\ Drops(wire, wire')
      /\ 1 \in 1..Len(wire)
      /\ Len(wire') \in Nat
      /\ \A i \in 1..Len(wire') : i + 1 \in 1..Len(wire) /\ wire'[i] = wire[i + 1]
    BY DropFacts
<1>w. /\ wire \in Seq(Frames) /\ issued \in [Channels -> Nat] /\ "orders" \in Channels
      /\ \A i \in 1..Len(wire) : wire[i] \in Frames
    BY WireFacts
<1>1. \A i \in 1..Len(wire') : wire'[i].q \notin {"malformed", "conflict"}
    BY <1>d DEF WireTrue
<1>2. \A i \in 1..Len(wire') :
         IsOk(wire'[i], "positions") /\ wire'[i].seq = issued["positions"]
         => PositionOf(wire'[i].body) = xp
    BY <1>d DEF WireTrue
<1>3. ASSUME NEW i \in 1..Len(wire'), IsOk(wire'[i], "orders")
      PROVE  \/ wire'[i].body.status = xo[wire'[i].body.id].status
             \/ Newer(wire', issued, wire'[i].body.id, wire'[i].seq)
    <2> DEFINE o == wire'[i].body.id
               k == wire'[i].seq
    <2>1. i + 1 \in 1..Len(wire) /\ wire'[i] = wire[i + 1] /\ 1 < i + 1
        BY <1>d
    <2>2. wire'[i].body.status = xo[o].status \/ Newer(wire, issued, o, k)
        BY <2>1, <1>3 DEF WireTrue
    <2>3. k \in Nat
        BY <2>1, <1>w, <1>3, WireFrames DEF IsOk
    <2>4. ASSUME Newer(wire, issued, o, k) PROVE Newer(wire', issued, o, k)
        <3>1. PICK n \in 1..issued["orders"] :
                n > k /\ (OkFor(wire, o, n) \/ ~OkOnWire(wire, "orders", n))
            BY <2>4 DEF Newer
        <3>2. ~IsOk(wire[1], "orders") \/ wire[1].seq # n
            <4>1. ASSUME IsOk(wire[1], "orders"), wire[1].seq = n PROVE FALSE
                <5>1. wire[1].body.ch = "orders" /\ wire[i + 1].body.ch = "orders"
                    BY <4>1, <1>3, <2>1 DEF IsOk
                <5>2. wire[1].seq <= wire[i + 1].seq
                    BY <5>1, <2>1, <1>d, <1>w DEF SettledInv, WireOrdered, Ordered
                <5>3. n <= k
                    BY <5>2, <4>1, <2>1
                <5> HIDE DEF k
                <5> QED BY <5>3, <3>1, <2>3, <1>w
            <4> QED BY <4>1
        <3>3. OkFor(wire', o, n) \/ ~OkOnWire(wire', "orders", n)
            BY <3>1, <3>2, <1>d, <1>w, DropsSame
        <3> QED BY <3>1, <3>3 DEF Newer
    <2> QED BY <2>2, <2>4
<1> QED BY <1>1, <1>2, <1>3 DEF WireTrue, IsOk, PositionOf, IsClosure, Newer, OkFor, OkOnWire

\* A first frame that is not a usable one about an order: the store's orders
\* are as true as before.
LEMMA OtherDrop ==
    ASSUME TypeInv, SettledInv, wire # <<>>, wire' = Tail(wire),
           UNCHANGED <<xo, xp, so, issued, session, unseen>>,
           \/ sequence' = sequence
           \/ wire[1].body.ch \in Channels
              /\ sequence' = [sequence EXCEPT ![wire[1].body.ch] = wire[1].seq],
           sequence'["orders"] = sequence["orders"],
           ~IsOk(wire[1], "orders"),
           Relying' => Relying /\ wire[1].q # "unknown",
           Seen => (PositionTrue => PositionTrue')
    PROVE  SettledInv'
<1>d. /\ Drops(wire, wire')
      /\ \A j \in 1..Len(wire) : j # 1 => \E i \in 1..Len(wire') : wire'[i] = wire[j]
      /\ WireOrdered'
    BY DropFacts
<1>w. wire \in Seq(Frames)
    BY WireFacts
<1>1. Seen' => Seen
    BY DEF Seen
<1>2. WireTrue => WireTrue'
    BY DropTrue
<1>3. ASSUME OrdersTrue PROVE OrdersTrue'
    <2> SUFFICES ASSUME Relying'
                 PROVE  \/ \E i \in 1..Len(wire') : wire'[i].q = "unknown"
                        \/ \A o \in OrderIds : Agrees(o)' \/ Pending(wire', sequence', issued', o)
        BY DEF OrdersTrue
    <2>1. Relying /\ wire[1].q # "unknown"
        OBVIOUS
    <2>2. CASE \E j \in 1..Len(wire) : wire[j].q = "unknown"
        BY <1>d, <2>1, <2>2
    <2>3. CASE \A o \in OrderIds : Agrees(o) \/ Pending(wire, sequence, issued, o)
        <3>1. ASSUME NEW n
              PROVE  /\ OkOnWire(wire, "orders", n) => OkOnWire(wire', "orders", n)
                     /\ OkOnWire(wire', "orders", n) => OkOnWire(wire, "orders", n)
                     /\ \A o : OkFor(wire, o, n) => OkFor(wire', o, n)
            BY <1>d, <1>w, DropsSame, Zenon
        <3>2. ASSUME NEW o \in OrderIds, Pending(wire, sequence, issued, o)
              PROVE  Pending(wire', sequence', issued', o)
            <4>1. PICK n \in 1..issued["orders"] :
                    n > sequence["orders"] /\ (OkFor(wire, o, n) \/ Revealed(wire, sequence, n))
                BY <3>2 DEF Pending
            <4>2. OkFor(wire', o, n) \/ Revealed(wire', sequence', n)
                BY <3>1, <4>1 DEF Revealed
            <4> QED BY <4>1, <4>2 DEF Pending
        <3>3. ASSUME NEW o \in OrderIds, Agrees(o) PROVE Agrees(o)'
            BY <3>3 DEF Agrees
        <3> QED BY <2>3, <3>2, <3>3
    <2> QED BY <1>3, <2>1, <2>2, <2>3 DEF OrdersTrue
<1> QED BY <1>d, <1>1, <1>2, <1>3 DEF SettledInv

\* _track_sequence notes the number of the frame; on a gap nothing is relied on
\* until a synchronization has succeeded.
LEMMA TrackEffect ==
    ASSUME TypeInv, SettledInv, wire # <<>>, run.pc = "listen",
           wire[1].body.ch \in Channels, TrackSequence(wire[1])
    PROVE  /\ sequence' = [sequence EXCEPT ![wire[1].body.ch] = wire[1].seq]
           /\ \/ IsGap(sequence[wire[1].body.ch], wire[1].seq)
                 /\ run'.pc = "gapSync" /\ run'.stage = "positions"
              \/ ~IsGap(sequence[wire[1].body.ch], wire[1].seq) /\ run' = run
<1> DEFINE c == wire[1].body.ch
           k == wire[1].seq
<1>w. /\ wire \in Seq(Frames) /\ sequence \in [Channels -> Nat]
      /\ \A i \in 1..Len(wire) : wire[i] \in Frames
    BY WireFacts
<1>1. 1 \in 1..Len(wire)
    <2>1. Len(wire) \in Nat \ {0}
        BY <1>w, EmptySeq
    <2> QED BY <2>1
<1>2. sequence[c] <= k
    BY <1>1 DEF SettledInv, WireOrdered, Ordered
<1>3. k \in Nat /\ sequence[c] \in Nat
    BY <1>1, <1>w, FrameTypes DEF Channels
<1> HIDE DEF c, k
<1>4. sequence' = [sequence EXCEPT ![c] = IF k > sequence[c] THEN k ELSE sequence[c]]
    BY DEF TrackSequence, c, k
<1>5. (IF k > sequence[c] THEN k ELSE sequence[c]) = k
    BY <1>2, <1>3
<1>6. sequence' = [sequence EXCEPT ![c] = k]
    BY <1>4, <1>5
<1>7. \/ IsGap(sequence[c], k)
         /\ run' = [run EXCEPT !.pc = "gapSync", !.stage = "positions", !.ok = TRUE]
      \/ ~IsGap(sequence[c], k) /\ run' = run
    BY DEF TrackSequence, c, k
<1>8. run \in Runs
    BY DEF TypeInv, TypeOK
<1>9. \/ IsGap(sequence[c], k) /\ run'.pc = "gapSync" /\ run'.stage = "positions"
      \/ ~IsGap(sequence[c], k) /\ run' = run
    BY <1>7, <1>8 DEF Runs
<1> QED BY <1>6, <1>9 DEF c, k

\* Every handled frame: where it came from.
LEMMA HandledFacts ==
    ASSUME TypeInv, NEW Q, DataFrame(Q)
    PROVE  /\ wire # <<>> /\ wire' = Tail(wire) /\ run.pc = "listen" /\ running
           /\ UNCHANGED <<xo, xp, issued, session, unseen, opened>>
           /\ Head(wire) = wire[1] /\ wire[1].body.ch \in Channels /\ wire[1].q \in Q
           /\ 1 \in 1..Len(wire) /\ wire[1] \in Frames
<1>1. /\ wire # <<>> /\ wire' = Tail(wire) /\ run.pc = "listen" /\ running
      /\ UNCHANGED <<xo, xp, issued, session, unseen, opened>>
      /\ Head(wire).body.ch # "auth" /\ Head(wire).q \in Q
    BY DEF DataFrame, Handling
<1>2. Drops(wire, Tail(wire))
    BY <1>1, WireFacts, TailDrops
<1>3. Head(wire) = wire[1] /\ wire[1] \in Frames
    BY <1>2 DEF Drops
<1>4. wire[1].body.ch \in Channels
    BY <1>1, <1>3, FrameTypes
<1>5. 1 \in 1..Len(wire)
    <2>1. Len(wire) \in Nat \ {0}
        BY <1>1, WireFacts, EmptySeq
    <2> QED BY <2>1
<1> QED BY <1>1, <1>3, <1>4, <1>5

\* Frames that leave no trace in the store, and the answer to authentication.
LEMMA UnusableSettles ==
    ASSUME TypeInv, SettledInv, AuthFrame \/ UnreadableFrame \/ UnknownFrame \/ RejectedFrame
    PROVE  SettledInv'
<1>1. CASE AuthFrame
    <2>1. /\ wire # <<>> /\ wire' = Tail(wire) /\ Head(wire).body.ch = "auth"
          /\ UNCHANGED <<xo, xp, so, sp, issued, session, unseen, sequence, run, opened, integrityOk>>
        BY <1>1 DEF AuthFrame, Handling, accountVars
    <2>2. Drops(wire, Tail(wire))
        BY <2>1, WireFacts, TailDrops
    <2>3. Head(wire) = wire[1] /\ wire[1] \in Frames
        BY <2>2 DEF Drops
    <2>4. wire[1].q # "unknown"
        <3>1. wire[1] \in AuthFrames
            BY <2>1, <2>3, FrameTypes DEF Frames, DataFrames, Bodies, OrderBodies, TradeBodies, PositionBodies
        <3> QED BY <3>1 DEF AuthFrames
    <2>5. ~IsOk(wire[1], "orders")
        BY <2>1, <2>3 DEF IsOk
    <2>6. Relying' => Relying
        BY <2>1 DEF Relying, Syncing
    <2>7. PositionTrue => PositionTrue'
        BY <2>1 DEF PositionTrue, Syncing
    <2> QED BY <2>1, <2>4, <2>5, <2>6, <2>7, OtherDrop
<1>2. CASE UnreadableFrame
    <2>1. /\ DataFrame({"unreadable"})
          /\ UNCHANGED <<so, sp, run, sequence, integrityOk>>
        BY <1>2 DEF UnreadableFrame
    <2>2. /\ wire # <<>> /\ wire' = Tail(wire) /\ wire[1].q = "unreadable"
          /\ UNCHANGED <<xo, xp, issued, session, unseen, opened>>
        BY <2>1, HandledFacts
    <2>3. ~IsOk(wire[1], "orders") /\ wire[1].q # "unknown"
        BY <2>2 DEF IsOk
    <2>4. Relying' => Relying
        BY <2>1, <2>2 DEF Relying, Syncing
    <2>5. PositionTrue => PositionTrue'
        BY <2>1, <2>2 DEF PositionTrue, Syncing
    <2> QED BY <2>1, <2>2, <2>3, <2>4, <2>5, OtherDrop
<1>3. CASE UnknownFrame
    <2>1. /\ DataFrame({"unknown"})
          /\ UNCHANGED <<so, sp, run, sequence>> /\ integrityOk' = FALSE
        BY <1>3 DEF UnknownFrame
    <2>2. /\ wire # <<>> /\ wire' = Tail(wire) /\ wire[1].q = "unknown" /\ run.pc = "listen"
          /\ UNCHANGED <<xo, xp, issued, session, unseen, opened>>
        BY <2>1, HandledFacts
    <2>3. ~IsOk(wire[1], "orders")
        BY <2>2 DEF IsOk
    <2>4. ~Relying'
        BY <2>1, <2>2 DEF Relying, Syncing
    <2>5. PositionTrue => PositionTrue'
        BY <2>1, <2>2 DEF PositionTrue, Syncing
    <2> QED BY <2>1, <2>2, <2>3, <2>4, <2>5, OtherDrop
<1>4. CASE RejectedFrame
    <2>1. /\ DataFrame({"malformed", "conflict"})
          /\ TrackSequence(Head(wire))
        BY <1>4 DEF RejectedFrame
    <2>2. /\ wire # <<>> /\ wire' = Tail(wire) /\ wire[1].q \in {"malformed", "conflict"}
          /\ run.pc = "listen" /\ Head(wire) = wire[1] /\ wire[1].body.ch \in Channels
          /\ 1 \in 1..Len(wire)
          /\ UNCHANGED <<xo, xp, issued, session, unseen, opened>>
        BY <2>1, HandledFacts
    <2>3. sequence' = [sequence EXCEPT ![wire[1].body.ch] = wire[1].seq]
        BY <2>1, <2>2, TrackEffect
    <2>4. WireOrdered'
        BY <2>2, <2>3, DropFacts
    <2>5. ~Seen
        BY <2>2 DEF SettledInv, WireTrue
    <2>6. ~Seen'
        BY <2>2, <2>5 DEF Seen
    <2> QED BY <2>4, <2>6 DEF SettledInv
<1> QED BY <1>1, <1>2, <1>3, <1>4

\* A frame about a position or an execution.
LEMMA OtherEventSettles ==
    ASSUME TypeInv, SettledInv, PositionEvent \/ FillEvent
    PROVE  SettledInv'
<1>1. /\ DataFrame({"ok"}) /\ TrackSequence(Head(wire))
      /\ Head(wire).body.ch # "orders" /\ UNCHANGED <<so, integrityOk>>
    BY DEF PositionEvent, FillEvent
<1>2. /\ wire # <<>> /\ wire' = Tail(wire) /\ wire[1].q = "ok"
      /\ run.pc = "listen" /\ Head(wire) = wire[1] /\ wire[1].body.ch \in Channels
      /\ 1 \in 1..Len(wire) /\ wire[1] \in Frames
      /\ UNCHANGED <<xo, xp, issued, session, unseen, opened>>
    BY <1>1, HandledFacts
<1>3. /\ sequence' = [sequence EXCEPT ![wire[1].body.ch] = wire[1].seq]
      /\ (run'.pc = "gapSync" /\ run'.stage = "positions") \/ run' = run
    BY <1>1, <1>2, TrackEffect
<1>4. sequence'["orders"] = sequence["orders"]
    BY <1>1, <1>2, <1>3, WireFacts
<1>5. ~IsOk(wire[1], "orders") /\ wire[1].q # "unknown"
    BY <1>1, <1>2 DEF IsOk
<1>6. Relying' => Relying
    BY <1>1, <1>2, <1>3 DEF Relying, Syncing
<1>7. ~(Syncing' /\ run'.stage = "orders") /\ ~(Syncing' /\ run'.stage = "hook")
    BY <1>2, <1>3 DEF Syncing
<1>8. ASSUME Seen, PositionTrue PROVE PositionTrue'
    <2>1. CASE PositionEvent
        <3>1. wire[1].body.ch = "positions" /\ sp' = PositionOf(wire[1].body)
            BY <1>2, <2>1 DEF PositionEvent, PositionOf
        <3>2. wire[1].seq <= issued["positions"] /\ wire[1].seq \in Nat \ {0}
            BY <1>2, <3>1, FrameTypes DEF SettledInv, WireOrdered, Ordered, Channels
        <3>3. sequence'["positions"] = wire[1].seq
            BY <1>3, <3>1, WireFacts
        <3>4. wire[1].seq = issued["positions"] => PositionOf(wire[1].body) = xp
            BY <1>2, <3>1, <1>8 DEF SettledInv, WireTrue, IsOk
        <3>5. issued["positions"] # 0
            BY <3>2, WireFacts
        <3> QED BY <1>2, <1>7, <3>1, <3>3, <3>4, <3>5 DEF PositionTrue
    <2>2. CASE FillEvent
        <3>1. wire[1].body.ch = "user_trades" /\ sp' = sp
            BY <1>2, <2>2 DEF FillEvent
        <3>2. sequence'["positions"] = sequence["positions"]
            BY <1>3, <3>1, WireFacts
        <3> QED BY <1>2, <1>7, <1>8, <3>1, <3>2 DEF PositionTrue
    <2> QED BY <2>1, <2>2
<1> QED BY <1>1, <1>2, <1>3, <1>4, <1>5, <1>6, <1>8, OtherDrop

\* _apply_order_event: the store agrees about the order now, or something newer
\* about it is on its way; about the others nothing was lost.
LEMMA OrderEventSettles ==
    ASSUME TypeInv, HistoryInv, SettledInv, OrderEvent
    PROVE  SettledInv'
<1>1. /\ DataFrame({"ok"}) /\ TrackSequence(Head(wire))
      /\ Head(wire).body.ch = "orders" /\ UNCHANGED <<sp, integrityOk>>
      /\ so' = [so EXCEPT ![Head(wire).body.id] = OrderAfter(Head(wire).body)]
    BY DEF OrderEvent
<1>2. /\ wire # <<>> /\ wire' = Tail(wire) /\ wire[1].q = "ok"
      /\ run.pc = "listen" /\ Head(wire) = wire[1]
      /\ 1 \in 1..Len(wire) /\ wire[1] \in Frames
      /\ UNCHANGED <<xo, xp, issued, session, unseen, opened>>
    BY <1>1, HandledFacts
<1>f. PICK f, o, k : f = wire[1].body /\ o = wire[1].body.id /\ k = wire[1].seq
    OBVIOUS
<1>3. f.ch = "orders" /\ o \in OrderIds /\ k \in Nat \ {0} /\ "orders" \in Channels
    BY <1>1, <1>2, <1>f, FrameTypes DEF Channels
<1>4. /\ sequence' = [sequence EXCEPT !["orders"] = k]
      /\ \/ IsGap(sequence["orders"], k) /\ run'.pc = "gapSync" /\ run'.stage = "positions"
         \/ ~IsGap(sequence["orders"], k) /\ run' = run
    BY <1>f, <1>1, <1>2, <1>3, TrackEffect
<1>w. /\ wire \in Seq(Frames) /\ Len(wire) \in Nat
      /\ sequence \in [Channels -> Nat] /\ issued \in [Channels -> Nat]
      /\ so \in [OrderIds -> Order]
    BY WireFacts
<1>5. sequence'["orders"] = k /\ sequence'["positions"] = sequence["positions"]
    BY <1>3, <1>4, <1>w
<1>d. /\ Drops(wire, wire')
      /\ \A j \in 1..Len(wire) : j # 1 => \E i \in 1..Len(wire') : wire'[i] = wire[j]
      /\ WireOrdered'
    BY <1>f, <1>2, <1>3, <1>4, DropFacts
<1>6. WireTrue => WireTrue'
    BY <1>f, <1>2, <1>3, <1>4, DropTrue
<1>7. Seen' => Seen
    BY <1>2 DEF Seen
<1>8. PositionTrue => PositionTrue'
    BY <1>1, <1>2, <1>4, <1>5 DEF PositionTrue, Syncing
<1>9. ASSUME Seen, Relying'
      PROVE  \/ \E i \in 1..Len(wire') : wire'[i].q = "unknown"
             \/ \A p \in OrderIds : Agrees(p)' \/ Pending(wire', sequence', issued', p)
    <2>1. run' = run /\ ~IsGap(sequence["orders"], k)
        BY <1>4, <1>9 DEF Relying, Syncing
    <2>2. Relying
        BY <1>1, <1>2, <1>9, <2>1 DEF Relying, Syncing
    <2>3. WireTrue /\ OrdersTrue
        BY <1>9 DEF SettledInv
    <2>4. ASSUME NEW n, n # k
          PROVE  /\ OkOnWire(wire, "orders", n) => OkOnWire(wire', "orders", n)
                 /\ OkOnWire(wire', "orders", n) => OkOnWire(wire, "orders", n)
                 /\ \A p : OkFor(wire, p, n) => OkFor(wire', p, n)
        BY <1>f, <1>d, <1>w, <2>4, DropsSame, Zenon
    <2>5. ASSUME NEW j \in 1..Len(wire), wire[j].body.ch = "orders"
          PROVE  k <= wire[j].seq /\ (wire[j].seq = k => wire[j] = wire[1])
        <3>1. j = 1 \/ 1 < j
            BY <1>w
        <3> QED BY <1>f, <1>2, <1>3, <2>5, <3>1 DEF SettledInv, WireOrdered, Ordered
    <2>6. IsOk(wire[1], "orders") /\ OkOnWire(wire, "orders", k)
        BY <1>f, <1>2, <1>3 DEF IsOk, OkOnWire
    <2>7. Agrees(o)' \/ Pending(wire', sequence', issued', o)
        <3>1. CASE f.status = xo[o].status
            <4>1. so'[o] = OrderAfter(f)
                BY <1>f, <1>1, <1>2, <1>3, <1>w
            <4>2. so[o].status \in Finished => xo[o].status \in Finished
                BY <1>3 DEF HistoryInv, FinishedOrdersHaveEnded
            <4>3. "OPEN" \notin Finished
                BY DEF Finished
            <4>4. OrderAfter(f).status = f.status
                BY <1>f, <3>1, <4>2, <4>3 DEF OrderAfter
            <4> QED BY <1>f, <1>2, <3>1, <4>1, <4>4 DEF Agrees
        <3>2. CASE Newer(wire, issued, o, k)
            <4>1. PICK n \in 1..issued["orders"] :
                    n > k /\ (OkFor(wire, o, n) \/ ~OkOnWire(wire, "orders", n))
                BY <3>2 DEF Newer
            <4>2. n # k
                BY <4>1, <1>3
            <4>3. OkFor(wire', o, n) \/ ~OkOnWire(wire', "orders", n)
                BY <2>4, <4>1, <4>2
            <4>4. n > sequence'["orders"] /\ sequence'["orders"] # 0 /\ n \in 1..issued'["orders"]
                BY <1>2, <1>3, <1>5, <4>1
            <4> QED BY <4>3, <4>4 DEF Pending, Revealed
        <3> QED BY <1>f, <1>2, <2>3, <2>6, <3>1, <3>2 DEF WireTrue
    <2>8. ASSUME NEW p \in OrderIds, p # o, Agrees(p) PROVE Agrees(p)'
        <3>1. so'[p] = so[p]
            BY <1>f, <1>1, <1>2, <1>w, <2>8
        <3> QED BY <1>2, <2>8, <3>1 DEF Agrees
    <2>9. ASSUME NEW p \in OrderIds, p # o, Pending(wire, sequence, issued, p)
          PROVE  Pending(wire', sequence', issued', p)
        <3>1. PICK n \in 1..issued["orders"] :
                n > sequence["orders"] /\ (OkFor(wire, p, n) \/ Revealed(wire, sequence, n))
            BY <2>9 DEF Pending
        <3>2. n \in Nat /\ sequence["orders"] \in Nat
            BY <3>1, <1>w, <1>3
        <3>3. CASE OkFor(wire, p, n)
            <4>1. PICK j \in 1..Len(wire) :
                    IsOk(wire[j], "orders") /\ wire[j].seq = n /\ wire[j].body.id = p
                BY <3>3 DEF OkFor
            <4>2. k <= n /\ (n = k => wire[j] = wire[1])
                BY <1>f, <2>5, <4>1 DEF IsOk
            <4>3. n # k
                BY <1>f, <2>9, <4>1, <4>2
            <4>4. OkFor(wire', p, n)
                BY <2>4, <3>3, <4>3
            <4>5. n > k
                BY <4>2, <4>3, <3>2, <1>3
            <4> QED BY <1>2, <1>5, <3>1, <4>4, <4>5 DEF Pending
        <3>4. CASE Revealed(wire, sequence, n)
            <4>1. ~OkOnWire(wire, "orders", n)
                BY <3>4 DEF Revealed
            <4>2. n # k
                BY <1>f, <2>6, <4>1
            <4>3. ~OkOnWire(wire', "orders", n)
                BY <2>4, <4>1, <4>2
            <4>4. n > k
                <5>1. CASE sequence["orders"] # 0
                    <6>1. ~(k > sequence["orders"] + 1)
                        BY <2>1, <5>1 DEF IsGap
                    <6> QED BY <6>1, <4>2, <3>1, <3>2, <1>3
                <5>2. CASE sequence["orders"] = 0
                    <6>1. PICK b \in 1..n : b < n /\ OkOnWire(wire, "orders", b)
                        BY <3>4, <5>2 DEF Revealed
                    <6>2. PICK j \in 1..Len(wire) : IsOk(wire[j], "orders") /\ wire[j].seq = b
                        BY <6>1 DEF OkOnWire
                    <6>3. k <= b
                        BY <1>f, <2>5, <6>2 DEF IsOk
                    <6> QED BY <6>1, <6>3, <3>2, <1>3
                <5> QED BY <5>1, <5>2
            <4>5. sequence'["orders"] # 0 /\ n > sequence'["orders"] /\ n \in 1..issued'["orders"]
                BY <1>2, <1>3, <1>5, <3>1, <4>4
            <4> QED BY <4>3, <4>5 DEF Pending, Revealed
        <3> QED BY <3>1, <3>3, <3>4
    <2>10. CASE \E j \in 1..Len(wire) : wire[j].q = "unknown"
        <3>1. PICK j \in 1..Len(wire) : wire[j].q = "unknown"
            BY <2>10
        <3>2. j # 1
            BY <1>2, <3>1
        <3> QED BY <1>d, <3>1, <3>2
    <2>11. CASE \A p \in OrderIds : Agrees(p) \/ Pending(wire, sequence, issued, p)
        <3>1. ASSUME NEW p \in OrderIds PROVE Agrees(p)' \/ Pending(wire', sequence', issued', p)
            BY <2>7, <2>8, <2>9, <2>11
        <3> QED BY <3>1
    <2> QED BY <2>2, <2>3, <2>10, <2>11 DEF OrdersTrue
<1>10. Seen => OrdersTrue'
    BY <1>9 DEF OrdersTrue
<1> QED BY <1>d, <1>6, <1>7, <1>8, <1>10 DEF SettledInv

\* What publication puts on the wire, and what it leaves as it was.
LEMMA MoveFacts ==
    ASSUME TypeInv, SettledInv, NEW m, FramesTell(m), NEW fate \in Fates(m),
           PublishedWith(m, fate), Counted(m)
    PROVE  /\ Ordered(wire', sequence, issued')
           /\ Appends(wire, wire', Arriving(m, fate))
           /\ \A g \in Arriving(m, fate) :
                 /\ g.body.ch \in DOMAIN m.frames
                 /\ g.body = m.frames[g.body.ch] /\ g.q = fate[g.body.ch]
                 /\ fate[g.body.ch] # "lost" /\ g.seq = issued[g.body.ch] + 1
           /\ \A c \in Channels :
                 issued'[c] = IF c \in DOMAIN m.frames THEN issued[c] + 1 ELSE issued[c]
<1>w. /\ wire \in Seq(Frames) /\ sequence \in [Channels -> Nat] /\ issued \in [Channels -> Nat]
    BY WireFacts
<1>f. DOMAIN m.frames \subseteq Channels /\ \A c \in DOMAIN m.frames : m.frames[c].ch = c
    BY DEF FramesTell
<1>1. Appends(wire, wire', Arriving(m, fate))
    BY DEF PublishedWith
<1>2. issued' \in [Channels -> Nat]
      /\ \A c \in Channels :
            issued'[c] = IF c \in DOMAIN m.frames THEN issued[c] + 1 ELSE issued[c]
    BY <1>w DEF Counted
<1>3. ASSUME NEW g \in Arriving(m, fate)
      PROVE  /\ g.body.ch \in DOMAIN m.frames
             /\ g.body = m.frames[g.body.ch] /\ g.q = fate[g.body.ch]
             /\ fate[g.body.ch] # "lost" /\ g.seq = issued[g.body.ch] + 1
             /\ g = Numbered(m.frames[g.body.ch], fate[g.body.ch])
    <2>1. PICK c \in DOMAIN m.frames : fate[c] # "lost" /\ g = Numbered(m.frames[c], fate[c])
        BY DEF Arriving
    <2>2. g.body = m.frames[c] /\ g.q = fate[c] /\ g.seq = issued[m.frames[c].ch] + 1
        BY <2>1 DEF Numbered
    <2>3. g.body.ch = c
        BY <2>2, <1>f
    <2> QED BY <2>1, <2>2, <2>3, <1>f
<1>4. ASSUME NEW g \in Arriving(m, fate), NEW h \in Arriving(m, fate), g.body.ch = h.body.ch
      PROVE  g = h
    BY <1>3, <1>4
<1>5. Ordered(wire, sequence, issued)
    BY DEF SettledInv, WireOrdered
<1>6. ASSUME NEW c \in Channels PROVE issued[c] <= issued'[c]
    <2>1. issued[c] \in Nat /\ (issued'[c] = issued[c] + 1 \/ issued'[c] = issued[c])
        BY <1>2, <1>w
    <2> QED BY <2>1
<1>7. \A g \in Arriving(m, fate) :
         /\ g.body.ch \in Channels
         /\ g.seq = issued[g.body.ch] + 1
         /\ issued'[g.body.ch] = issued[g.body.ch] + 1
    BY <1>2, <1>3, <1>f
<1>8. Ordered(wire', sequence, issued')
    BY <1>1, <1>2, <1>4, <1>5, <1>6, <1>7, <1>w, AppendsOrdered
<1> QED BY <1>1, <1>2, <1>3, <1>8

\* A live session announces a move.
LEMMA MoveSettles ==
    ASSUME TypeInv, SettledInv, NEW m, SoundMove(m), FramesTell(m), NEW fate \in Fates(m),
           PublishedWith(m, fate), Counted(m), xo' = m.xo, xp' = m.xp,
           UNCHANGED <<so, sp, session, clientVars>>
    PROVE  SettledInv'
<1>c. UNCHANGED <<so, sp, session, run, opened, integrityOk, sequence>>
    BY DEF clientVars
<1>w. /\ wire \in Seq(Frames) /\ Len(wire) \in Nat
      /\ sequence \in [Channels -> Nat] /\ issued \in [Channels -> Nat]
      /\ "orders" \in Channels /\ "positions" \in Channels
      /\ \A i \in 1..Len(wire) : wire[i] \in Frames
    BY WireFacts
<1>f. /\ DOMAIN m.frames \subseteq Channels
      /\ "orders" \notin DOMAIN m.frames => xo' = xo
      /\ "orders" \in DOMAIN m.frames =>
            /\ m.frames["orders"].id \in OrderIds
            /\ m.frames["orders"].status = xo'[m.frames["orders"].id].status
            /\ \A p \in OrderIds : p # m.frames["orders"].id => xo'[p] = xo[p]
      /\ "positions" \notin DOMAIN m.frames => xp' = xp
      /\ "positions" \in DOMAIN m.frames => PositionOf(m.frames["positions"]) = xp'
    BY DEF FramesTell
<1>m. /\ Ordered(wire', sequence, issued')
      /\ Appends(wire, wire', Arriving(m, fate))
      /\ \A g \in Arriving(m, fate) :
            /\ g.body.ch \in DOMAIN m.frames
            /\ g.body = m.frames[g.body.ch] /\ g.q = fate[g.body.ch]
            /\ fate[g.body.ch] # "lost" /\ g.seq = issued[g.body.ch] + 1
      /\ \A c \in Channels :
            issued'[c] = IF c \in DOMAIN m.frames THEN issued[c] + 1 ELSE issued[c]
    BY MoveFacts
<1>1. WireOrdered'
    BY <1>c, <1>m DEF WireOrdered
<1> SUFFICES ASSUME Seen' PROVE WireTrue' /\ PositionTrue' /\ OrdersTrue'
    BY <1>1 DEF SettledInv
<1>2. /\ Seen /\ WireTrue /\ PositionTrue /\ OrdersTrue
      /\ \A c \in DOMAIN m.frames :
            /\ fate[c] \notin {"malformed", "conflict"}
            /\ fate[c] \in {"lost", "unreadable"} => HasBaseline(c)
    BY <1>c DEF Seen, PublishedWith, SettledInv
<1>3. /\ Len(wire') \in Nat /\ Len(wire) <= Len(wire')
      /\ \A i \in 1..Len(wire) : i \in 1..Len(wire') /\ wire'[i] = wire[i]
      /\ \A i \in 1..Len(wire') :
            (i \in 1..Len(wire) /\ wire'[i] = wire[i]) \/ wire'[i] \in Arriving(m, fate)
      /\ \A g \in Arriving(m, fate) : \E i \in 1..Len(wire') : wire'[i] = g
    <2>1. wire' \in Seq(Frames) /\ Len(wire') \in Nat /\ Len(wire) <= Len(wire')
        BY <1>m, LenProperties DEF Appends
    <2> QED BY <2>1, <1>m, <1>w DEF Appends
<1>4. \A i \in 1..Len(wire) : wire[i].body.ch \in Channels =>
         wire[i].seq \in Nat \ {0} /\ wire[i].seq <= issued[wire[i].body.ch]
    BY <1>w, WireFrames DEF SettledInv, WireOrdered, Ordered
<1>5. \A g \in Arriving(m, fate) : g.body.ch = "orders" => g.seq = issued["orders"] + 1
    BY <1>m
<1>6. ASSUME NEW n \in 1..issued["orders"]
      PROVE  /\ OkOnWire(wire, "orders", n) => OkOnWire(wire', "orders", n)
             /\ OkOnWire(wire', "orders", n) => OkOnWire(wire, "orders", n)
             /\ \A p : OkFor(wire, p, n) => OkFor(wire', p, n)
    <2>1. issued["orders"] \in Nat
        BY <1>w
    <2> QED BY <2>1, <1>5, <1>m, <1>w, AppendsSame
\* The order the move is about, and the number of its frame.
<1>7. ASSUME "orders" \in DOMAIN m.frames
      PROVE  /\ issued'["orders"] = issued["orders"] + 1
             /\ fate["orders"] = "ok" => OkFor(wire', m.frames["orders"].id, issued["orders"] + 1)
             /\ fate["orders"] # "ok" => ~OkOnWire(wire', "orders", issued["orders"] + 1)
             /\ fate["orders"] = "unknown" => \E i \in 1..Len(wire') : wire'[i].q = "unknown"
    <2>1. issued'["orders"] = issued["orders"] + 1
        BY <1>m, <1>w, <1>7
    <2> DEFINE g == Numbered(m.frames["orders"], fate["orders"])
    <2>2. m.frames["orders"].ch = "orders"
        BY <1>7 DEF FramesTell
    <2>3. /\ g.body = m.frames["orders"] /\ g.q = fate["orders"] /\ g.seq = issued["orders"] + 1
          /\ fate["orders"] # "lost" => g \in Arriving(m, fate)
        BY <1>7, <2>2 DEF Numbered, Arriving
    <2> HIDE DEF g
    <2>4. ASSUME fate["orders"] = "ok" PROVE OkFor(wire', m.frames["orders"].id, issued["orders"] + 1)
        <3>1. PICK i \in 1..Len(wire') : wire'[i] = g
            BY <1>3, <2>3, <2>4
        <3> QED BY <2>2, <2>3, <2>4, <3>1 DEF OkFor, IsOk
    <2>5. ASSUME fate["orders"] # "ok", OkOnWire(wire', "orders", issued["orders"] + 1) PROVE FALSE
        <3>1. PICK i \in 1..Len(wire') : IsOk(wire'[i], "orders") /\ wire'[i].seq = issued["orders"] + 1
            BY <2>5 DEF OkOnWire
        <3>2. CASE i \in 1..Len(wire) /\ wire'[i] = wire[i]
            <4>1. wire[i].seq <= issued["orders"] /\ wire[i].seq \in Nat
                BY <1>4, <1>w, <3>1, <3>2 DEF IsOk
            <4> QED BY <4>1, <3>1, <3>2, <1>w
        <3>3. CASE wire'[i] \in Arriving(m, fate)
            BY <1>m, <2>5, <3>1, <3>3 DEF IsOk
        <3> QED BY <1>3, <3>2, <3>3
    <2>6. ASSUME fate["orders"] = "unknown" PROVE \E i \in 1..Len(wire') : wire'[i].q = "unknown"
        <3>1. PICK i \in 1..Len(wire') : wire'[i] = g
            BY <1>3, <2>3, <2>6
        <3> QED BY <2>3, <2>6, <3>1
    <2> QED BY <2>1, <2>4, <2>5, <2>6
<1>8. issued["orders"] \in Nat /\ issued'["orders"] \in Nat /\ issued["orders"] <= issued'["orders"]
    BY <1>m, <1>w
<1>9. WireTrue'
    <2>1. \A i \in 1..Len(wire') : wire'[i].q \notin {"malformed", "conflict"}
        BY <1>2, <1>3, <1>m DEF WireTrue
    <2>2. ASSUME NEW i \in 1..Len(wire'), IsOk(wire'[i], "positions"),
                 wire'[i].seq = issued'["positions"]
          PROVE  PositionOf(wire'[i].body) = xp'
        <3>1. CASE i \in 1..Len(wire) /\ wire'[i] = wire[i]
            <4>1. wire[i].seq <= issued["positions"] /\ wire[i].seq \in Nat
                BY <1>4, <1>w, <2>2, <3>1 DEF IsOk
            <4>2. "positions" \notin DOMAIN m.frames /\ issued'["positions"] = issued["positions"]
                BY <4>1, <1>m, <1>w, <2>2, <3>1
            <4> QED BY <4>2, <1>2, <1>f, <2>2, <3>1 DEF WireTrue
        <3>2. CASE wire'[i] \in Arriving(m, fate)
            BY <1>f, <1>m, <2>2, <3>2 DEF IsOk
        <3> QED BY <1>3, <3>1, <3>2
    <2>3. ASSUME NEW i \in 1..Len(wire'), IsOk(wire'[i], "orders")
          PROVE  \/ wire'[i].body.status = xo'[wire'[i].body.id].status
                 \/ Newer(wire', issued', wire'[i].body.id, wire'[i].seq)
        <3>1. CASE i \in 1..Len(wire) /\ wire'[i] = wire[i]
            <4>1. PICK p, k : p = wire[i].body.id /\ k = wire[i].seq
                OBVIOUS
            <4>2. k <= issued["orders"] /\ k \in Nat
                BY <1>4, <1>w, <2>3, <3>1, <4>1 DEF IsOk
            <4>p. p \in OrderIds
                BY <1>w, <2>3, <3>1, <4>1, FrameTypes DEF IsOk
            <4>3. wire[i].body.status = xo[p].status \/ Newer(wire, issued, p, k)
                BY <1>2, <2>3, <3>1, <4>1 DEF WireTrue
            <4>4. ASSUME Newer(wire, issued, p, k) PROVE Newer(wire', issued', p, k)
                <5>1. PICK n \in 1..issued["orders"] :
                        n > k /\ (OkFor(wire, p, n) \/ ~OkOnWire(wire, "orders", n))
                    BY <4>4 DEF Newer
                <5>2. OkFor(wire', p, n) \/ ~OkOnWire(wire', "orders", n)
                    BY <1>6, <5>1
                <5>3. n \in 1..issued'["orders"]
                    BY <1>8
                <5> QED BY <5>1, <5>2, <5>3 DEF Newer
            <4>5. CASE "orders" \in DOMAIN m.frames /\ p = m.frames["orders"].id
                <5>1. issued["orders"] + 1 \in 1..issued'["orders"] /\ issued["orders"] + 1 > k
                    BY <1>7, <1>8, <4>2, <4>5
                <5>2. \/ OkFor(wire', p, issued["orders"] + 1)
                      \/ ~OkOnWire(wire', "orders", issued["orders"] + 1)
                    BY <1>7, <4>5
                <5>3. Newer(wire', issued', p, k)
                    BY <5>1, <5>2 DEF Newer
                <5> QED BY <5>3, <3>1, <4>1
            <4>6. CASE ~("orders" \in DOMAIN m.frames /\ p = m.frames["orders"].id)
                <5>1. xo'[p] = xo[p]
                    BY <1>f, <4>p, <4>6
                <5> QED BY <5>1, <3>1, <4>1, <4>3, <4>4
            <4> QED BY <4>5, <4>6
        <3>2. CASE wire'[i] \in Arriving(m, fate)
            BY <1>f, <1>m, <2>3, <3>2 DEF IsOk
        <3> QED BY <1>3, <3>1, <3>2
    <2> QED BY <2>1, <2>2, <2>3 DEF WireTrue, IsOk, PositionOf, IsClosure, Newer, OkFor, OkOnWire
<1>10. PositionTrue'
    <2>1. sequence["positions"] <= issued["positions"] /\ sequence["positions"] \in Nat
          /\ issued["positions"] \in Nat
        BY <1>w DEF SettledInv, WireOrdered, Ordered
    <2>2. CASE "positions" \in DOMAIN m.frames
        <3>1. issued'["positions"] = issued["positions"] + 1
            BY <1>m, <1>w, <2>2
        <3>2. sequence'["positions"] # issued'["positions"] /\ issued'["positions"] # 0
            BY <1>c, <2>1, <3>1
        <3> QED BY <3>2 DEF PositionTrue
    <2>3. CASE "positions" \notin DOMAIN m.frames
        <3>1. issued'["positions"] = issued["positions"] /\ xp' = xp
            BY <1>f, <1>m, <1>w, <2>3
        <3> QED BY <1>2, <1>c, <3>1 DEF PositionTrue, Syncing
    <2> QED BY <2>2, <2>3
<1>11. ASSUME Relying'
       PROVE  \/ \E i \in 1..Len(wire') : wire'[i].q = "unknown"
              \/ \A p \in OrderIds : Agrees(p)' \/ Pending(wire', sequence', issued', p)
    <2>1. Relying
        BY <1>c, <1>11 DEF Relying, Syncing
    <2>2. CASE \E j \in 1..Len(wire) : wire[j].q = "unknown"
        BY <1>3, <2>2
    <2>3. CASE "orders" \in DOMAIN m.frames /\ fate["orders"] = "unknown"
        BY <1>7, <2>3
    <2>4. CASE /\ \A p \in OrderIds : Agrees(p) \/ Pending(wire, sequence, issued, p)
               /\ ~("orders" \in DOMAIN m.frames /\ fate["orders"] = "unknown")
        <3>1. ASSUME NEW p \in OrderIds, Pending(wire, sequence, issued, p)
              PROVE  Pending(wire', sequence', issued', p)
            <4>1. PICK n \in 1..issued["orders"] :
                    n > sequence["orders"] /\ (OkFor(wire, p, n) \/ Revealed(wire, sequence, n))
                BY <3>1 DEF Pending
            <4>2. \A b \in 1..n : b \in 1..issued["orders"]
                BY <1>8
            <4>3. OkFor(wire', p, n) \/ Revealed(wire', sequence, n)
                BY <1>6, <4>1, <4>2 DEF Revealed
            <4>4. n \in 1..issued'["orders"]
                BY <1>8
            <4> QED BY <1>c, <4>1, <4>3, <4>4 DEF Pending
        <3>2. ASSUME NEW p \in OrderIds, "orders" \in DOMAIN m.frames, p = m.frames["orders"].id
              PROVE  Pending(wire', sequence', issued', p)
            <4> DEFINE n == issued["orders"] + 1
            <4>1. sequence["orders"] <= issued["orders"] /\ sequence["orders"] \in Nat
                BY <1>w DEF SettledInv, WireOrdered, Ordered
            <4>2. n \in 1..issued'["orders"] /\ n > sequence'["orders"]
                BY <1>7, <1>8, <1>c, <3>2, <4>1
            <4>3. CASE fate["orders"] = "ok"
                <5>1. OkFor(wire', p, n)
                    BY <1>7, <3>2, <4>3
                <5> HIDE DEF n
                <5> QED BY <4>2, <5>1 DEF Pending
            <4>4. CASE fate["orders"] # "ok"
                <5>1. ~OkOnWire(wire', "orders", n)
                    BY <1>7, <3>2, <4>4
                <5>2. fate["orders"] \in {"lost"} \cup Qualities
                    BY <3>2 DEF Fates
                <5>3. fate["orders"] \in {"lost", "unreadable"}
                    BY <1>2, <2>4, <3>2, <4>4, <5>2 DEF Qualities
                <5>4. HasBaseline("orders")
                    BY <1>2, <3>2, <5>3
                <5>5. sequence'["orders"] # 0 \/ \E b \in 1..n : b < n /\ OkOnWire(wire', "orders", b)
                    <6>1. CASE sequence["orders"] # 0
                        BY <6>1, <1>c
                    <6>2. CASE \E i \in DOMAIN wire : wire[i].body.ch = "orders" /\ wire[i].q = "ok"
                        <7>1. PICK i \in 1..Len(wire) : wire[i].body.ch = "orders" /\ wire[i].q = "ok"
                            BY <6>2, <1>w
                        <7>2. PICK b : b = wire[i].seq
                            OBVIOUS
                        <7>3. b \in 1..issued["orders"] /\ b \in 1..n /\ b < n
                            BY <7>1, <7>2, <1>4, <1>8, <1>w
                        <7>4. OkOnWire(wire, "orders", b)
                            BY <7>1, <7>2 DEF OkOnWire, IsOk
                        <7>5. OkOnWire(wire', "orders", b)
                            BY <7>3, <7>4, <1>6
                        <7> HIDE DEF n
                        <7> QED BY <7>3, <7>5
                    <6> QED BY <5>4, <6>1, <6>2 DEF HasBaseline
                <5> HIDE DEF n
                <5> QED BY <4>2, <5>1, <5>5 DEF Pending, Revealed
            <4> QED BY <4>3, <4>4
        <3>3. ASSUME NEW p \in OrderIds, ~("orders" \in DOMAIN m.frames /\ p = m.frames["orders"].id),
                     Agrees(p)
              PROVE  Agrees(p)'
            <4>1. xo'[p] = xo[p] /\ so' = so
                BY <1>c, <1>f, <3>3
            <4> QED BY <4>1, <3>3 DEF Agrees
        <3> QED BY <2>4, <3>1, <3>2, <3>3
    <2> QED BY <1>2, <2>1, <2>2, <2>3, <2>4 DEF OrdersTrue
<1>12. OrdersTrue'
    BY <1>11 DEF OrdersTrue
<1> QED BY <1>9, <1>10, <1>12

\* The exchange moves, announced or not.
LEMMA ExchangeSettles ==
    ASSUME TypeInv, SettledInv, ExchangeMoves
    PROVE  SettledInv'
<1> USE AccountAssumption, StreamAssumption
<1>1. PICK m \in Moves :
        /\ xo' = m.xo
        /\ xp' = m.xp
        /\ IF session.open /\ session.authenticated
           THEN Publish(m.frames)
           ELSE UNCHANGED <<wire, issued, faults, unseen>>
    BY DEF ExchangeMoves
<1>2. SoundMove(m) /\ FramesTell(m)
    BY MoveEffect DEF TypeInv, TypeOK
<1>3. UNCHANGED <<so, sp, session, clientVars>>
    BY DEF ExchangeMoves
<1>4. CASE session.open /\ session.authenticated
    <2>1. TypeOK
        BY DEF TypeInv
    <2>2. Counted(m) /\ \E fate \in Fates(m) : PublishedWith(m, fate)
        BY <1>1, <1>2, <1>4, <2>1, PublishEffect
    <2>3. PICK fate \in Fates(m) : PublishedWith(m, fate)
        BY <2>2
    <2> QED BY <1>1, <1>2, <1>3, <2>2, <2>3, MoveSettles
<1>5. CASE ~(session.open /\ session.authenticated)
    <2>1. UNCHANGED <<wire, issued, sequence, session>>
        BY <1>1, <1>3, <1>5 DEF clientVars
    <2>2. WireOrdered'
        BY <2>1 DEF SettledInv, WireOrdered, Ordered
    <2>3. ~Seen'
        BY <1>5, <2>1 DEF Seen
    <2> QED BY <2>2, <2>3 DEF SettledInv
<1> QED BY <1>4, <1>5

\* The rest of the coroutine.
LEMMA RunSettles ==
    ASSUME TypeInv, SettledInv,
           \/ BackoffElapses \/ Stopped \/ SyncPositions \/ SyncFails \/ HookEnds
           \/ (Admit \/ Finish) /\ UNCHANGED <<serverVars, clientVars>>
           \/ UNCHANGED vars
    PROVE  SettledInv'
<1>t. run \in Runs
    BY DEF TypeInv, TypeOK
<1>1. UNCHANGED <<xo, xp, so, sp, wire, issued, sequence, session, unseen>>
    BY DEF BackoffElapses, Stopped, SyncPositions, SyncFails, HookEnds, Admit, Finish,
           vars, accountVars, serverVars, clientVars
<1>2. CASE BackoffElapses \/ Stopped
    <2>1. opened' = opened /\ run'.pc \in {"connect", "ended"}
        BY <1>2, <1>t DEF BackoffElapses, Stopped, Runs
    <2>2. ~Syncing' /\ ~Relying'
        BY <2>1 DEF Syncing, Relying
    <2>3. PositionTrue => PositionTrue'
        BY <1>1, <2>1, <2>2 DEF PositionTrue
    <2> QED BY <1>1, <2>2, <2>3, QuietSettles
<1>3. CASE SyncPositions
    <2>1. run'.stage = "orders" /\ run'.pos = xp /\ run'.pc = run.pc /\ opened' = opened
          /\ run.pc # "listen"
        BY <1>3, <1>t DEF SyncPositions, Runs, Syncing
    <2>2. ~Relying'
        BY <2>1 DEF Relying
    <2>3. PositionTrue => PositionTrue'
        BY <1>1, <2>1 DEF PositionTrue, Syncing
    <2> QED BY <1>1, <2>2, <2>3, QuietSettles
<1>4. CASE SyncFails
    <2>1. run'.stage = "hook" /\ run'.ok = FALSE /\ run'.pc = run.pc /\ opened' = opened
          /\ run.pc # "listen"
        BY <1>4, <1>t DEF SyncFails, Runs, Syncing
    <2>2. ~Relying'
        BY <2>1 DEF Relying
    <2>3. PositionTrue => PositionTrue'
        BY <1>1, <2>1 DEF PositionTrue, Syncing
    <2> QED BY <1>1, <2>2, <2>3, QuietSettles
<1>5. CASE HookEnds
    <2>1. /\ Syncing /\ run.stage = "hook" /\ run'.pc = "listen" /\ run'.stage = "none"
          /\ \/ opened' => run.ok
             \/ opened' = opened /\ (integrityOk' => run.ok)
          /\ opened' => opened \/ run.ok
        BY <1>5, <1>t DEF HookEnds, OpeningDone, GapDone, Runs
    <2>2. ~Syncing'
        BY <2>1 DEF Syncing
    <2>3. Relying' => Relying
        BY <2>1, <2>2 DEF Relying
    <2>4. PositionTrue => PositionTrue'
        BY <1>1, <2>1, <2>2 DEF PositionTrue
    <2> QED BY <1>1, <2>3, <2>4, QuietSettles
<1>6. CASE ((Admit \/ Finish) /\ UNCHANGED <<serverVars, clientVars>>) \/ UNCHANGED vars
    <2>1. UNCHANGED <<run, opened, integrityOk>>
        BY <1>6 DEF vars, clientVars
    <2>2. (Relying' => Relying) /\ (PositionTrue => PositionTrue')
        BY <1>1, <2>1 DEF Relying, Syncing, PositionTrue
    <2> QED BY <1>1, <2>2, QuietSettles
<1> QED BY <1>2, <1>3, <1>4, <1>5, <1>6

\* What a settled stream holds stays explained through every step.
LEMMA SettledStep ==
    ASSUME TypeInv, HistoryInv, SettledInv, [Next]_vars
    PROVE  SettledInv'
<1>1. CASE ConnectFails \/ ListenEnds \/ Close \/ Disconnect \/ HeartbeatTimeout
    <2>1. UNCHANGED <<issued, sequence>> /\ ~session'.open
        BY <1>1 DEF ConnectFails, ListenEnds, Close, Disconnect, HeartbeatTimeout, EndSession, clientVars
    <2>2. wire' = wire \/ wire' = <<>> \/ Begins(wire, wire')
        <3>1. CASE Disconnect
            <4>1. PICK k \in 0..Len(wire) : wire' = SubSeq(wire, 1, k)
                BY <3>1 DEF Disconnect
            <4> QED BY <4>1, WireFacts, CutBegins
        <3> QED BY <1>1, <3>1 DEF ConnectFails, ListenEnds, Close, HeartbeatTimeout, EndSession
    <2> QED BY <2>1, <2>2, EndedSettles
<1>2. CASE AuthFrame \/ UnreadableFrame \/ UnknownFrame \/ RejectedFrame
    BY <1>2, UnusableSettles
<1>3. CASE \/ BackoffElapses \/ Stopped \/ SyncPositions \/ SyncFails \/ HookEnds
           \/ (Admit \/ Finish) /\ UNCHANGED <<serverVars, clientVars>>
           \/ UNCHANGED vars
    BY <1>3, RunSettles
<1>4. CASE PositionEvent \/ FillEvent
    BY <1>4, OtherEventSettles
<1> QED BY <1>1, <1>2, <1>3, <1>4, ConnectSettles, SyncSettles, RepeatSettles, OrderEventSettles,
           ExchangeSettles DEF Next, RunSteps, Environment

\* Once nothing is on its way and every number was seen, nothing is pending.
LEMMA SettledIsTrue ==
    ASSUME TypeInv, SettledInv
    PROVE  SettledStoreIsTrue
<1> SUFFICES ASSUME Settled, ~unseen PROVE sp = xp /\ \A o \in OrderIds : Agrees(o)
    BY DEF SettledStoreIsTrue
<1>1. Seen /\ Relying /\ wire = <<>> /\ sequence = issued /\ opened
    BY DEF Settled, Seen, Relying
<1>2. Len(wire) = 0
    BY <1>1, EmptySeq
<1>3. sp = xp
    BY <1>1 DEF SettledInv, PositionTrue
<1>4. ASSUME NEW o \in OrderIds PROVE ~Pending(wire, sequence, issued, o)
    <2>1. issued["orders"] \in Nat
        BY WireFacts
    <2> QED BY <1>1, <2>1 DEF Pending
<1>5. \A o \in OrderIds : Agrees(o)
    BY <1>1, <1>2, <1>4 DEF SettledInv, OrdersTrue
<1> QED BY <1>3, <1>5

\* Sequence continuity and resynchronization (_track_sequence,
\* _handle_sequence_gap, _do_sync): once the stream has settled, the store's
\* position is the exchange's and no order is held live that has ended or ended
\* that is live, whatever was lost, garbled or repeated on the way.
THEOREM SettledStoreTrue == Spec => []SettledStoreIsTrue
BY TypeInit, TypeStep, HistoryInit, HistoryStep, SettledInit, SettledStep, SettledIsTrue, PTL DEF Spec
=============================================================================
