--------------------------- MODULE PrivateStream ---------------------------
(***************************************************************************)
(* The private WebSocket client (private_websocket.py): connection,        *)
(* per-channel sequence continuity, application of frames to the store of  *)
(* AccountSync, resynchronization over REST, reconnection with bounded     *)
(* attempts.                                                               *)
(*                                                                         *)
(* One coroutine runs run(): it connects, synchronizes, consumes frames    *)
(* and, on a gap, synchronizes again before the next frame.  Frames wait   *)
(* on the wire meanwhile, so some are older than the snapshot they follow. *)
(* The server may lose, garble or repeat frames; it numbers every frame.   *)
(***************************************************************************)
EXTENDS AccountSync, Sequences

CONSTANTS
    MaxAttempts,  \* max_attempts of run()
    MaxFaults,    \* bound: frames lost, garbled or repeated, sessions refused
    MaxWire       \* bound: frames on the wire

ASSUME StreamAssumption ==
    /\ MaxAttempts \in Nat
    /\ MaxFaults \in Nat
    /\ MaxWire \in Nat

VARIABLES
    session,   \* exchange side: is there a session, is it authenticated?
    wire,      \* frames sent and not yet handled
    issued,    \* sequence number of the last frame of each channel
    faults,    \* how many frames were lost, garbled, repeated, sessions refused
    unseen,    \* this session lost something no sequence number can reveal
    run,       \* the run() coroutine
    running,   \* self._running
    health,    \* self.health
    sequence,  \* self._sequence_state, 0: nothing seen yet
    integrityOk, \* self.stream_integrity_ok
    opened,    \* the session's opening synchronization succeeded
    processed, \* self._processed_fill_ids
    observed,  \* how often the observers were given each fill
    blocked    \* the lifecycle manager holds an integrity alert

serverVars == <<session, wire, issued, faults, unseen>>
clientVars == <<run, running, health, sequence, integrityOk, opened,
                processed, observed, blocked>>
vars == <<accountVars, serverVars, clientVars>>

-----------------------------------------------------------------------------
(* Types *)

\* An execution is known by the order it executed and the quantity reached.
Trades == OrderIds \X (1..Qty)

\* What the validator makes of a frame: "unreadable" is not JSON, "malformed"
\* cannot be normalized, "unknown" names an order state or action nobody knows,
\* "conflict" deletes an order and reports it resting.
Qualities == {"ok", "unreadable", "malformed", "unknown", "conflict"}
OrderBodies == [ch: {"orders"}, id: OrderIds, status: Statuses \ {"none"},
                n: Sizes, deletes: BOOLEAN]
TradeBodies == [ch: {"user_trades"}, id: OrderIds, status: {"none"},
                n: 1..Qty, deletes: {FALSE}]
PositionBodies == [ch: {"positions"}, id: {"position"}, status: {"none"},
                   n: 1..Qty, deletes: BOOLEAN]
Bodies == OrderBodies \cup TradeBodies \cup PositionBodies
DataFrames == [body: Bodies, seq: Nat \ {0}, q: Qualities]
AuthBody == [ch |-> "auth", id |-> "session", status |-> "none", n |-> 0,
             deletes |-> FALSE]
AuthFrames == [body: {AuthBody}, seq: {0}, q: {"ok", "refused"}]
Frames == DataFrames \cup AuthFrames

Runs == [pc: {"connect", "openSync", "listen", "gapSync", "backoff", "ended"},
         stage: {"none", "positions", "orders", "hook"},
         pos: Sizes, ok: BOOLEAN, attempt: 0..(MaxAttempts + 1)]

TypeOK ==
    /\ AccountTypeOK
    /\ session \in [open: BOOLEAN, authenticated: BOOLEAN]
    /\ wire \in Seq(Frames)
    /\ issued \in [Channels -> Nat]
    /\ faults \in 0..MaxFaults
    /\ unseen \in BOOLEAN
    /\ run \in Runs
    /\ running \in BOOLEAN
    /\ health \in {"HEALTHY", "DEGRADED", "STALE", "OFFLINE"}
    /\ sequence \in [Channels -> Nat]
    /\ integrityOk \in BOOLEAN
    /\ opened \in BOOLEAN
    /\ processed \in SUBSET Trades
    /\ observed \in [Trades -> Nat]
    /\ blocked \in BOOLEAN

Init ==
    /\ AccountInit
    /\ session = [open |-> FALSE, authenticated |-> FALSE]
    /\ wire = <<>>
    /\ issued = [c \in Channels |-> 0]
    /\ faults = 0
    /\ unseen = FALSE
    /\ run = [pc |-> "connect", stage |-> "none", pos |-> 0, ok |-> TRUE,
              attempt |-> 0]
    /\ running = TRUE
    /\ health = "OFFLINE"
    /\ sequence = [c \in Channels |-> 0]
    /\ integrityOk = TRUE
    /\ opened = FALSE
    /\ processed = {}
    /\ observed = [t \in Trades |-> 0]
    /\ blocked = FALSE

-----------------------------------------------------------------------------
(* The server *)

Numbered(f, q) == [body |-> f, seq |-> issued[f.ch] + 1, q |-> q]

\* The frames of one move, a channel at a time: some are lost, at most one of
\* the rest is garbled.
Sent(frames, c, lost, garbled, q) ==
    IF c \in DOMAIN frames \ lost
    THEN <<Numbered(frames[c], IF c = garbled THEN q ELSE "ok")>>
    ELSE <<>>

Emitted(frames, lost, garbled, q) ==
    Sent(frames, "orders", lost, garbled, q)
    \o Sent(frames, "user_trades", lost, garbled, q)
    \o Sent(frames, "positions", lost, garbled, q)

\* The client has read a number of the channel, or will with what is on the wire.
HasBaseline(c) ==
    \/ sequence[c] # 0
    \/ \E i \in DOMAIN wire : wire[i].body.ch = c /\ wire[i].q = "ok"

\* A loss is beyond the client's knowledge when no frame of its channel was
\* read before it, or when its number was read and its body could not be used.
Hidden(lost, garbled, q) ==
    \/ \E c \in lost \cup (IF q = "unreadable" THEN {garbled} ELSE {}) :
          c \in Channels /\ ~HasBaseline(c)
    \/ garbled \in Channels /\ q \in {"malformed", "conflict"}

Publish(frames) ==
    LET chs == DOMAIN frames IN
    \E lost \in SUBSET chs, garbled \in chs \cup {"none"}, q \in Qualities \ {"ok"} :
        /\ garbled \notin lost
        /\ garbled = "none" => q = "unreadable"
        /\ q \in {"unknown", "conflict"} => garbled = "orders"
        /\ q = "conflict" => frames["orders"].deletes
        /\ LET bad == Cardinality(lost \cup ({garbled} \cap chs)) IN
           /\ bad = 0 \/ faults + bad <= MaxFaults
           /\ faults' = faults + bad
        /\ wire' = wire \o Emitted(frames, lost, garbled, q)
        /\ issued' = [c \in Channels |-> IF c \in chs THEN issued[c] + 1 ELSE issued[c]]
        /\ unseen' = (unseen \/ Hidden(lost, garbled, q))

\* The account moves; a live session announces it.
ExchangeMoves ==
    /\ \E m \in Moves :
        /\ xo' = m.xo
        /\ xp' = m.xp
        /\ IF session.open /\ session.authenticated
           THEN /\ Len(wire) + Cardinality(DOMAIN m.frames) <= MaxWire
                /\ Publish(m.frames)
           ELSE UNCHANGED <<wire, issued, faults, unseen>>
    /\ UNCHANGED <<so, sp, lock, session, clientVars>>

\* A frame is sent twice in a row, with one number.
RepeatFrame ==
    /\ session.open
    /\ faults < MaxFaults
    /\ Len(wire) < MaxWire
    /\ \E i \in DOMAIN wire : wire' = SubSeq(wire, 1, i) \o SubSeq(wire, i, Len(wire))
    /\ faults' = faults + 1
    /\ UNCHANGED <<accountVars, session, issued, unseen, clientVars>>

\* The connection breaks; what was received is still handed out.
Disconnect ==
    /\ session.open
    /\ session' = [open |-> FALSE, authenticated |-> FALSE]
    /\ \E k \in 0..Len(wire) : wire' = SubSeq(wire, 1, k)
    /\ UNCHANGED <<accountVars, issued, faults, unseen, clientVars>>

-----------------------------------------------------------------------------
(* Connecting: connect(), authenticate(), subscribe() *)

\* MUTANT of ResetSequences
KeepSequences == sequence' = sequence

\* A new session numbers its frames anew.
ResetSequences == sequence' = [c \in Channels |-> 0]

\* The server takes the socket and, as far as MaxFaults lets it, refuses the key.
\* connect() sets _running after the socket is there, so a close() that came
\* while it was waiting is undone.
Connect ==
    /\ run.pc = "connect"
    /\ \E accepted \in BOOLEAN :
        /\ accepted \/ faults < MaxFaults
        /\ faults' = IF accepted THEN faults ELSE faults + 1
        /\ session' = [open |-> TRUE, authenticated |-> accepted]
        /\ wire' = <<[body |-> AuthBody, seq |-> 0,
                      q |-> IF accepted THEN "ok" ELSE "refused"]>>
    /\ issued' = [c \in Channels |-> 0]
    /\ unseen' = FALSE
    /\ ResetSequences
    /\ running' = TRUE
    /\ health' = "HEALTHY"
    /\ opened' = FALSE
    /\ run' = [run EXCEPT !.pc = "openSync", !.stage = "positions", !.ok = TRUE,
                          !.attempt = 0]
    /\ UNCHANGED <<accountVars, integrityOk, processed, observed, blocked>>

\* MUTANT of NextAttempt
SameAttempt == run.attempt

NextAttempt == run.attempt + 1

\* The end of an iteration of run(): drop the socket, back off or give up.
EndSession ==
    /\ session' = [open |-> FALSE, authenticated |-> FALSE]
    /\ wire' = <<>>
    /\ IF NextAttempt > MaxAttempts
       THEN /\ run' = [run EXCEPT !.pc = "ended", !.stage = "none",
                                  !.attempt = NextAttempt]
            /\ running' = FALSE
            /\ health' = "OFFLINE"
       ELSE /\ run' = [run EXCEPT !.pc = "backoff", !.stage = "none",
                                  !.attempt = NextAttempt]
            /\ health' = "DEGRADED"
            /\ UNCHANGED running

ConnectFails ==
    /\ run.pc = "connect" /\ running
    /\ EndSession
    /\ UNCHANGED <<accountVars, issued, faults, unseen, sequence, integrityOk,
                   opened, processed, observed, blocked>>

BackoffElapses ==
    /\ run.pc = "backoff" /\ running
    /\ run' = [run EXCEPT !.pc = "connect"]
    /\ UNCHANGED <<accountVars, serverVars, running, health, sequence,
                   integrityOk, opened, processed, observed, blocked>>

\* listen() returns once the closed socket has handed out its last frame.
ListenEnds ==
    /\ run.pc = "listen" /\ running
    /\ ~session.open /\ wire = <<>>
    /\ EndSession
    /\ UNCHANGED <<accountVars, issued, faults, unseen, sequence, integrityOk,
                   opened, processed, observed, blocked>>

\* The watchdog heard nothing for heartbeat_timeout and closes the socket.
HeartbeatTimeout ==
    /\ session.open /\ wire = <<>> /\ running
    /\ run.pc \in {"openSync", "listen", "gapSync"}
    /\ session' = [open |-> FALSE, authenticated |-> FALSE]
    /\ health' = "STALE"
    /\ UNCHANGED <<accountVars, wire, issued, faults, unseen, run, running,
                   sequence, integrityOk, opened, processed, observed, blocked>>

\* close(): the coroutine ends where it next looks at self._running, which
\* connect() may have set again.
Close ==
    /\ running
    /\ running' = FALSE
    /\ health' = "OFFLINE"
    /\ session' = [open |-> FALSE, authenticated |-> FALSE]
    /\ wire' = <<>>
    /\ UNCHANGED <<accountVars, issued, faults, unseen, run, sequence,
                   integrityOk, opened, processed, observed, blocked>>

Stopped ==
    /\ ~running
    /\ run.pc \in {"connect", "listen", "backoff"}
    /\ run' = [run EXCEPT !.pc = "ended"]
    /\ UNCHANGED <<accountVars, serverVars, running, health, sequence,
                   integrityOk, opened, processed, observed, blocked>>

-----------------------------------------------------------------------------
(* trigger_reconciliation: sync(), then the registered hook.  No frame is  *)
(* handled before it returns.                                              *)

Syncing == run.pc \in {"openSync", "gapSync"}

SyncPositions ==
    /\ Syncing /\ run.stage = "positions"
    /\ run' = [run EXCEPT !.stage = "orders", !.pos = xp]
    /\ UNCHANGED <<accountVars, serverVars, running, health, sequence,
                   integrityOk, opened, processed, observed, blocked>>

SyncOrders ==
    /\ Syncing /\ run.stage = "orders"
    /\ so' = ReconciledOrders(OpenOrders)
    /\ sp' = ReconciledPosition(run.pos)
    /\ run' = [run EXCEPT !.stage = "hook", !.pos = 0]
    /\ health' = "HEALTHY"
    /\ UNCHANGED <<xo, xp, lock, serverVars, running, sequence,
                   integrityOk, opened, processed, observed, blocked>>

SyncFails ==
    /\ RestFails
    /\ Syncing /\ run.stage \in {"positions", "orders"}
    /\ run' = [run EXCEPT !.stage = "hook", !.pos = 0, !.ok = FALSE]
    /\ health' = "DEGRADED"
    /\ UNCHANGED <<accountVars, serverVars, running, sequence, integrityOk,
                   opened, processed, observed, blocked>>

\* run() ignores the outcome of the opening synchronization.
OpeningDone(ok) ==
    /\ run.pc = "openSync"
    /\ opened' = ok
    /\ health' = IF run.ok /\ ~ok THEN "DEGRADED" ELSE health
    /\ UNCHANGED <<integrityOk, blocked>>

\* The rest of _handle_sequence_gap: trust again, or alert.
GapDone(ok) ==
    /\ run.pc = "gapSync"
    /\ integrityOk' = ok
    /\ blocked' = (blocked \/ ~ok)
    /\ health' = IF ok THEN health ELSE "DEGRADED"
    /\ UNCHANGED opened

HookEnds ==
    /\ Syncing /\ run.stage = "hook"
    /\ \E hook \in {TRUE} \cup {~RestFails} :
        LET ok == run.ok /\ hook
        IN  OpeningDone(ok) \/ GapDone(ok)
    /\ run' = [run EXCEPT !.pc = "listen", !.stage = "none", !.ok = TRUE]
    /\ UNCHANGED <<accountVars, serverVars, running, sequence, processed, observed>>

-----------------------------------------------------------------------------
(* _handle_message: the next frame *)

Handling == run.pc = "listen" /\ running /\ wire # <<>>

\* A refused authentication degrades the health; the loop goes on listening.
AuthFrame ==
    /\ Handling
    /\ Head(wire).body.ch = "auth"
    /\ wire' = Tail(wire)
    /\ health' = IF Head(wire).q = "refused" THEN "DEGRADED" ELSE health
    /\ UNCHANGED <<accountVars, session, issued, faults, unseen, run, running,
                   sequence, integrityOk, opened, processed, observed, blocked>>

DataFrame(qualities) ==
    /\ Handling
    /\ Head(wire).body.ch # "auth"
    /\ Head(wire).q \in qualities
    /\ wire' = Tail(wire)
    /\ UNCHANGED <<xo, xp, lock, session, issued, faults, unseen, running,
                   opened>>

UnreadableFrame ==
    /\ DataFrame({"unreadable"})
    /\ UNCHANGED <<so, sp, run, health, sequence, integrityOk, processed,
                   observed, blocked>>

\* _handle_integrity_failure; continuity is not advanced.
UnknownFrame ==
    /\ DataFrame({"unknown"})
    /\ integrityOk' = FALSE
    /\ blocked' = TRUE
    /\ health' = "DEGRADED"
    /\ UNCHANGED <<so, sp, run, sequence, processed, observed>>

\* MUTANT of IsGap
GapOfTwo(last, seq) == last # 0 /\ seq > last + 2

IsGap(last, seq) == last # 0 /\ seq > last + 1

\* apply_event, whether it applies the event or drops it, calls the stream
\* HEALTHY; only what cannot be normalized never reaches it.
HealthAfter(f) == IF f.q = "malformed" THEN health ELSE "HEALTHY"

\* _track_sequence, the first frame of a channel being the baseline, and what
\* follows the event: the handling of a gap.
TrackSequence(f) ==
    LET last == sequence[f.body.ch] IN
    /\ sequence' = [sequence EXCEPT ![f.body.ch] = IF f.seq > last THEN f.seq ELSE last]
    /\ IF IsGap(last, f.seq)
       THEN /\ run' = [run EXCEPT !.pc = "gapSync", !.stage = "positions", !.ok = TRUE]
            /\ health' = "DEGRADED"
       ELSE /\ UNCHANGED run
            /\ health' = HealthAfter(f)

\* A malformed frame and a contradiction are tracked, not applied.
RejectedFrame ==
    /\ DataFrame({"malformed", "conflict"})
    /\ TrackSequence(Head(wire))
    /\ UNCHANGED <<so, sp, integrityOk, processed, observed, blocked>>

\* MUTANT of OrderAfter
AddsFills(f) == [status |-> f.status, filled |-> so[f.id].filled + f.n]

\* _apply_order_event
OrderAfter(f) ==
    IF so[f.id].status \in Finished /\ f.status = "OPEN" THEN so[f.id]
    ELSE [status |-> f.status, filled |-> f.n]

OrderEvent ==
    /\ DataFrame({"ok"})
    /\ Head(wire).body.ch = "orders"
    /\ LET f == Head(wire).body IN so' = [so EXCEPT ![f.id] = OrderAfter(f)]
    /\ TrackSequence(Head(wire))
    /\ UNCHANGED <<sp, integrityOk, processed, observed, blocked>>

\* MUTANT of IsClosure
ZeroSizeOnly(f) == f.n = 0

IsClosure(f) == f.deletes \/ f.n = 0

\* _apply_position_event
PositionEvent ==
    /\ DataFrame({"ok"})
    /\ Head(wire).body.ch = "positions"
    /\ LET f == Head(wire).body IN sp' = IF IsClosure(f) THEN 0 ELSE f.n
    /\ TrackSequence(Head(wire))
    /\ UNCHANGED <<so, integrityOk, processed, observed, blocked>>

\* MUTANT of IsProcessed
NeverProcessed(t) == FALSE

IsProcessed(t) == t \in processed

\* _apply_fill_event: observers are told of an execution they were not told of.
FillEvent ==
    /\ DataFrame({"ok"})
    /\ Head(wire).body.ch = "user_trades"
    /\ LET t == <<Head(wire).body.id, Head(wire).body.n>> IN
        IF IsProcessed(t) THEN UNCHANGED <<processed, observed>>
        ELSE /\ processed' = processed \cup {t}
             /\ observed' = [observed EXCEPT ![t] = @ + 1]
    /\ TrackSequence(Head(wire))
    /\ UNCHANGED <<so, sp, integrityOk, blocked>>

-----------------------------------------------------------------------------

RunSteps ==
    \/ Connect
    \/ ConnectFails
    \/ BackoffElapses
    \/ ListenEnds
    \/ Stopped
    \/ SyncPositions
    \/ SyncOrders
    \/ SyncFails
    \/ HookEnds
    \/ AuthFrame
    \/ UnreadableFrame
    \/ UnknownFrame
    \/ RejectedFrame
    \/ OrderEvent
    \/ PositionEvent
    \/ FillEvent

Environment ==
    \/ ExchangeMoves
    \/ RepeatFrame
    \/ Disconnect
    \/ HeartbeatTimeout
    \/ Close
    \/ (Admit \/ Finish) /\ UNCHANGED <<serverVars, clientVars>>

Next == RunSteps \/ Environment

\* The event loop keeps scheduling the coroutine, and the watchdog where nothing
\* can arrive: a session that was refused is sent no frame, and none is awaited
\* but the answer itself.  The world owes nothing.
Spec ==
    /\ Init /\ [][Next]_vars
    /\ WF_vars(RunSteps)
    /\ WF_vars(~session.authenticated /\ HeartbeatTimeout)

-----------------------------------------------------------------------------
(* Properties *)

Agrees(o) ==
    \/ so[o].status = xo[o].status
    \/ so[o].status \in Finished \cup {"none"} /\ xo[o].status \in Finished
    \/ o \in Stops /\ so[o].status = "PENDING" /\ xo[o].status \in Finished

\* What the client calls a settled stream: a session whose opening snapshot
\* succeeded, nothing pending, every channel's last number seen, integrity intact.
Settled ==
    /\ run.pc = "listen" /\ running
    /\ session.open /\ session.authenticated
    /\ opened /\ integrityOk
    /\ wire = <<>>
    /\ sequence = issued

\* Lost, repeated and stale frames are all repaired by the time the stream has
\* settled: the position is the exchange's, and no order is held live that has
\* ended or ended that is live.  Two holes are excluded by name: what no number
\* reveals (unseen) and an ended stop the store holds PENDING, which inference
\* from absence skips.
SettledStoreIsTrue ==
    Settled /\ ~unseen => sp = xp /\ \A o \in OrderIds : Agrees(o)

\* No reconnection, replay or resynchronization tells the observers (the
\* lifecycle manager among them) of an execution twice.
FillObservedOnce == \A t \in Trades : observed[t] <= 1

\* A session that ended is followed by one the exchange authenticated or by an
\* explicit OFFLINE: run() neither spins for ever, nor hangs, nor rests on a
\* session that delivers nothing.  A refused key is not a failed attempt to run(),
\* whatever its comment says: the refusals are bounded here (MaxFaults), and a
\* server that refuses for ever is reconnected to for ever.
EveryOutageIsResolved ==
    (run.pc = "backoff") ~> (session.authenticated \/ run.pc = "ended")

=============================================================================
