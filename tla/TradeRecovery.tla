--------------------------- MODULE TradeRecovery ----------------------------
(***************************************************************************)
(* TradeLifecycle behind the private stream: when its event handlers are   *)
(* given anything, and when ManualSMCRuntime.reconcile is called.          *)
(*                                                                         *)
(* One coroutine, run() of the private WebSocket client, does both.  It    *)
(* calls the reconciliation hook once after every (re)connection, before   *)
(* the first frame of the session, and once after a frame that proves that *)
(* others were lost; nothing calls it otherwise.  The exchange announces   *)
(* what happens to an order to a session that is up, and to no other.      *)
(***************************************************************************)
EXTENDS TradeLifecycle

VARIABLES
    up,       \* the session is connected, authenticated and subscribed
    owed,     \* the hook is due: after a connection, or after a proven gap
    unread    \* setups whose last announcement is on the wire

link == <<up, owed, unread>>
recoveryVars == <<vars, link>>

RecoveryInit ==
    /\ Init
    /\ up = FALSE /\ owed = FALSE /\ unread = {}

-----------------------------------------------------------------------------
(* The session *)

\* Task t is run(), between two frames.
AtRest(t) == "stream" \in Duties[t] /\ Idle(t)

\* connect(); listen() had handed out all that the session before it received.
Connect(t) ==
    /\ AtRest(t)
    /\ ~up /\ ~owed /\ unread = {}
    /\ up' = TRUE /\ owed' = TRUE
    /\ UNCHANGED <<vars, unread>>

\* The connection breaks: some of what was announced is never received.
Disconnect ==
    /\ up
    /\ up' = FALSE
    /\ unread' \in SUBSET unread
    /\ UNCHANGED <<vars, owed>>

\* trigger_reconciliation, of the hooks the one that reconciles.
Hook(t) ==
    /\ AtRest(t)
    /\ owed
    /\ Reconcile(t)
    /\ owed' = FALSE
    /\ UNCHANGED <<up, unread>>

\* A frame of s was lost and a later one of its channel shows it.
GapProven(t, s) ==
    /\ AtRest(t)
    /\ ~owed
    /\ s \in unread
    /\ owed' = TRUE
    /\ unread' = unread \ {s}
    /\ UNCHANGED <<vars, up>>

-----------------------------------------------------------------------------
(* Frames *)

\* The last frame of the order of s: it carries what the exchange says now.
LastOrderFrame(t, s) ==
    /\ Begin(t, "stream")
    /\ s \in active
    /\ ApplyEntry(t, StreamFrame(s), [rec[s] EXCEPT !.entryId = TRUE],
                  ex[s].entry, ex[s].got)
    /\ UNCHANGED <<mutex, hung, killSwitch, survey, exchangeVars>>

\* Frames are handled one at a time, once the hook that is due has returned.
LastFrame(t, s) ==
    /\ ~owed
    /\ s \in unread
    /\ \/ LastOrderFrame(t, s)
       \/ OrphanPositionEvent(t, s)
       \/ Begin(t, "stream") /\ s \notin active /\ ex[s].pos = 0 /\ UNCHANGED vars
    /\ unread' = unread \ {s}
    /\ UNCHANGED <<up, owed>>

\* The frames before it, and those of the position.
EarlierFrame(t, s) ==
    /\ ~owed
    /\ s \in unread
    /\ OrderEvent(t, s) \/ FillEvent(t, s) \/ ClosureEvent(t, s)
    /\ UNCHANGED link

-----------------------------------------------------------------------------

\* What nobody has to be told of to do it.
Unprompted(t) ==
    \/ \E s \in Setups :
         RefuseSetup(t, s) \/ RefuseAtGateway(t, s) \/ Submit(t, s) \/ Expire(t, s)
    \/ BlockOnMutex(t)

\* A session that is up is told of every change of an order or a position.
Announced ==
    /\ unread' = IF up THEN unread \cup {s \in Setups : ex'[s] # ex[s]} ELSE unread
    /\ UNCHANGED <<up, owed>>

\* What run() does by itself, with whatever frame is next.
RunStep(t) ==
    \/ Connect(t)
    \/ Hook(t)
    \/ \E s \in Setups : GapProven(t, s) \/ LastFrame(t, s)

RecoveryNext ==
    \/ (ExchangeMoves \/ \E t \in Tasks : Unprompted(t) \/ Proceeds(t) \/ Answers(t))
       /\ Announced
    \/ Disconnect
    \/ \E t \in Tasks : RunStep(t) \/ \E s \in Setups : EarlierFrame(t, s)

\* The event loop runs what is ready, the exchange answers what it is asked, and run()
\* reconnects, calls the hook that is due and reads the next frame.  Nothing is owed by
\* the strategy, by the exchange's orders, or by a network that breaks as often as it
\* likes; and nothing calls for a reconciliation but run().
RecoverySpec ==
    /\ RecoveryInit /\ [][RecoveryNext]_recoveryVars
    /\ WF_recoveryVars(\E t \in Tasks : Proceeds(t) /\ Announced)
    /\ WF_recoveryVars(\E t \in Tasks : Answers(t) /\ Announced)
    /\ SF_recoveryVars(\E t \in Tasks : RunStep(t))

-----------------------------------------------------------------------------
(* Properties *)

Guarded(s) ==
    \A role \in Roles : /\ rec[s][role] # 0
                       /\ leg[rec[s][role]].st = "open"
                       /\ leg[rec[s][role]].size = ex[s].pos

\* A position is eventually protected or gone, whether its fill was answered,
\* announced, lost with its session or lost before a later frame: no order of
\* outages leaves a position that neither a frame nor the one hook call of the next
\* connection finds.
PositionGetsProtected ==
    \A s \in Setups : ex[s].pos > 0 ~> ex[s].pos = 0 \/ Guarded(s)

=============================================================================
