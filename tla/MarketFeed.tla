----------------------------- MODULE MarketFeed -----------------------------
(***************************************************************************)
(* The market-data path: DeltaWebSocketClient (delta_websocket.py) takes   *)
(* closed one-hour candles from the exchange, persists them through        *)
(* upsert_closed_candles (ingestion.py) and hands them to a callback and   *)
(* to the SMC engine; a lost connection is followed by a REST backfill.    *)
(* The scheduled ingestion of ingestion.py is another process writing the  *)
(* same file.                                                              *)
(*                                                                         *)
(* One symbol: every pair has its own watermark, processed set and files.  *)
(* An hour is a number; hours 1..now have closed.  Python runs a handler   *)
(* without an await to its end, so inside one only a crash and the other   *)
(* process can come between two steps on the file system.                  *)
(*                                                                         *)
(* Both processes write to the same temporary files.  A rename is atomic,  *)
(* but two calls that have one temporary file open at once write into each *)
(* other's; what is published then is a mix of the two, or does not parse. *)
(***************************************************************************)
EXTENDS SMCEngine, FiniteSets

CONSTANTS
    Markets,       \* what may be played: the candle of every hour, how many are on
                   \* file at the start, and a bound on the faults: corrections, lost
                   \* connections, crashes, failing calls, runs of the ingestion
    Corrections,   \* what the exchange may put in the place of a candle it published
    PageSize,      \* MAX_PER_REQ
    MaxAttempts    \* MAX_RECONNECT_ATTEMPTS

\* A closed hour: its prices, whether its range is wild, whether it passes the checks
\* of a row, and whether it lies in the calendar year of the file.
Candles == [low: Int, high: Int, close: Int, wild: BOOLEAN, valid: BOOLEAN, inYear: BOOLEAN]

\* A candle that passes the checks closes between its low and its high
\* (validate_candle_ohlcv).
InOrder(candle) == candle.low <= candle.close /\ candle.close <= candle.high

\* What is on file passed the checks, and the year of the file ends once.  Of a
\* correction only the prices and the range count.
ASSUME FeedAssumption ==
    /\ {PageSize, MaxAttempts} \subseteq Nat \ {0}
    /\ \A market \in Markets :
           /\ market.tape \in Seq(Candles) /\ market.onFile \in 0..Len(market.tape)
           /\ \A h \in 1..market.onFile : market.tape[h].valid /\ market.tape[h].inYear
           /\ \A h \in 1..Len(market.tape) :
                  market.tape[h].valid => InOrder(market.tape[h])
           /\ \A h, k \in 1..Len(market.tape) :
                  h < k /\ market.tape[k].inYear => market.tape[h].inYear
           /\ market.faults \in Nat
    /\ Corrections \subseteq Candles
    /\ \A candle \in Corrections : InOrder(candle)

VARIABLES
    now,      \* hours closed so far
    tape,     \* what the exchange answers for each hour
    csv,      \* canonical CSV: hour -> candle
    meta,     \* metadata JSON
    legible,  \* whether each of the two files parses
    upsert,   \* the call of upsert_closed_candles each process is in
    client,   \* DeltaWebSocketClient
    job,      \* the candles a handler of the client is working through
    engine,   \* the SMC engine
    faults,   \* faults still to come
    holes     \* history: what the known holes of the design cost

vars == <<now, tape, csv, meta, legible, upsert, client, job, engine, faults, holes>>

Hours == DOMAIN tape
Writers == {"client", "ingestion"}
NoFile == [h \in {} |-> 0]

MaxHour(S) == IF S = {} THEN 0 ELSE CHOOSE h \in S : \A k \in S : k <= h
MinHour(S) == CHOOSE h \in S : \A k \in S : h <= k
\* The row of a candle names its hour.
Row(candle, hour) ==
    [f \in DOMAIN candle \cup {"hour"} |-> IF f = "hour" THEN hour ELSE candle[f]]
\* The rows of a dataset in ascending order, and the hours of such a sequence.
Rows(file) ==
    LET S == DOMAIN file
        nth(i) == CHOOSE h \in S : Cardinality({k \in S : k < h}) = i - 1
    IN  [i \in 1..Cardinality(S) |-> Row(file[nth(i)], nth(i))]
HoursOf(rows) == {rows[i].hour : i \in DOMAIN rows}

\* detect_gaps: the rows after which an hour is missing.
DetectGaps(file) == {h \in DOMAIN file : h + 1 \notin DOMAIN file} \ {MaxHour(DOMAIN file)}

\* The metadata of a dataset: its count, its last row and its gaps.
Describe(file) == [count |-> Cardinality(DOMAIN file), last |-> MaxHour(DOMAIN file),
                   gaps |-> Cardinality(DetectGaps(file))]

\* Of a call: how far it is, what it is to write, the hours it found on file, and what
\* has been written to the temporary file it has open (nothing once that file is gone).
Idle == [stage |-> "idle", file |-> NoFile, loaded |-> {}, temp |-> {}]
Stages == {"idle", "loaded", "writing", "replaced", "describing"}
NoClient == [phase |-> "off", running |-> FALSE, attempts |-> 0,
             processed |-> {}, last |-> 0]
NoJob == [kind |-> "none", feed |-> <<>>]
Phases == {"off", "up", "waiting", "backfill", "dialing", "gaveUp", "stopped"}

Init ==
    /\ \E market \in Markets : /\ now = market.onFile /\ tape = market.tape
                               /\ faults = market.faults
    /\ csv = [h \in 1..now |-> tape[h]]
    /\ meta = Describe(csv) /\ legible = [csv |-> TRUE, meta |-> TRUE]
    /\ upsert = [w \in Writers |-> Idle]
    /\ client = NoClient
    /\ job = NoJob
    /\ engine = NoEngine
    /\ holes = [jumped |-> {}, cut |-> {}, lost |-> {}, unfed |-> {}, amended |-> {},
                torn |-> FALSE, mixed |-> FALSE, covered |-> 0]

TypeOK ==
    /\ now \in {0} \cup Hours
    /\ DOMAIN csv \subseteq 1..now
    /\ meta \in [count: 0..now, last: 0..now, gaps: 0..now]
    /\ legible \in [csv: BOOLEAN, meta: BOOLEAN]
    /\ \A w \in Writers : /\ upsert[w].stage \in Stages
                          /\ DOMAIN upsert[w].file \subseteq 1..now
    /\ client.phase \in Phases /\ client.running \in BOOLEAN
    /\ client.attempts \in 0..(MaxAttempts + 1)
    /\ client.processed \subseteq 1..now /\ client.last \in {0} \cup client.processed
    /\ job.kind \in {"none", "live", "backfill"}
    /\ HoursOf(job.feed) \subseteq 1..now
    /\ engine.ready \in BOOLEAN /\ engine.last \in 0..now
    /\ faults \in Nat
    /\ {holes.jumped, holes.cut, holes.lost, holes.unfed, holes.amended}
           \subseteq SUBSET (1..now)

Fault == faults > 0 /\ faults' = faults - 1
\* A call that may fail: a failure is one of the faults.
Works(ok) == IF ok THEN UNCHANGED faults ELSE Fault

-----------------------------------------------------------------------------
(* The exchange.                                                           *)

HourCloses ==
    /\ now < Len(tape)
    /\ now' = now + 1
    /\ UNCHANGED <<tape, csv, meta, legible, upsert, client, job, engine, faults, holes>>

\* The exchange corrects the prices of the hour that closed last.
Corrected(candle, new) == [new EXCEPT !.valid = candle.valid, !.inYear = candle.inYear]

Amend ==
    /\ now > 0 /\ now \notin holes.amended
    /\ Fault
    /\ \E candle \in Corrections :
           /\ tape' = [tape EXCEPT ![now] = Corrected(@, candle)]
           /\ tape' # tape
    /\ holes' = [holes EXCEPT !.amended = @ \cup {now}]
    /\ UNCHANGED <<now, csv, meta, legible, upsert, client, job, engine>>

\* validate_candle_year: the file holds one calendar year.
InPartition(hours) == \A h \in hours : tape[h].inYear

\* fetch_closed_candles pages backward from the newest closed hour; a page that
\* fails ends the loop with the newer pages only, and hours of another year are left
\* out.
Reached(from, pages) == {h \in from..now : h > now - pages * PageSize}
FetchedFromNext(from, pages) == {h \in Reached(from + 1, pages) : InPartition({h})}
FetchedFrom(from, pages) == {h \in Reached(from, pages) : InPartition({h})}

\* How many pages answer.  _fetch_window asks three times, and gives up at once on an
\* answer other than "too many requests".
Pages(from) == 0..((now - from + PageSize) \div PageSize)

\* What a fetch that stopped after some pages leaves out.
CutOff(from, pages) == from..(now - pages * PageSize)

-----------------------------------------------------------------------------
(* upsert_closed_candles: load and merge, replace the CSV, save metadata.  *)

Readable(hours) == \A h \in hours : tape[h].valid

\* What the exchange published for some hours.
Published(hours) == [h \in hours |-> tape[h]]

\* The new rows win over the file; rows that change nothing write nothing.
Merged(new) == Over(new, csv)

Begin(w, new) ==
    upsert' = [upsert EXCEPT ![w] = IF Merged(new) = csv THEN Idle
                                    ELSE [stage |-> "loaded", file |-> Merged(new),
                                          loaded |-> DOMAIN csv, temp |-> {}]]

Finish(w) == upsert' = [upsert EXCEPT ![w] = Idle]

Other(w) == CHOOSE x \in Writers : x # w

\* The new CSV is hashed and the old metadata are loaded before these are written.
Parse == legible.csv /\ legible.meta

\* The temporary file is opened and truncated.  A call that has it open already goes on
\* writing to it.
Open(w) ==
    LET stage == IF upsert[w].stage = "loaded" THEN "writing" ELSE "describing"
        other == upsert[Other(w)]
        both == {NoFile, upsert[w].file, other.file} \cup other.temp
    IN  /\ \/ upsert[w].stage = "loaded"
           \/ upsert[w].stage = "replaced" /\ Parse
        /\ upsert' = IF other.stage = stage
                     THEN [x \in Writers |->
                              [upsert[x] EXCEPT !.stage = stage, !.temp = both]]
                     ELSE [upsert EXCEPT ![w].stage = stage,
                                         ![w].temp = {upsert[w].file}]
        /\ UNCHANGED <<now, tape, csv, meta, legible, client, job, engine, faults, holes>>

Mixed(w) == upsert[w].temp # {upsert[w].file}

\* What may be in the temporary file of some calls, as far as it parses: what one of
\* them wrote, or that up to a row and the rest of another, which was longer.  Bytes
\* that land after the renaming are counted with it.
Spliced(first, rest, h) ==
    Over([k \in {k \in DOMAIN first : k <= h} |-> first[k]],
         [k \in {k \in DOMAIN rest : k > h} |-> rest[k]])
Left(temp) ==
    {Spliced(pair[1], pair[2], h) : pair \in temp \X temp, h \in 0..now}

\* The renaming takes the temporary file, and the deletion after a failure removes it:
\* another call that has it open has none from then on.
Gone(call, stage) == IF call.stage = stage THEN [call EXCEPT !.temp = {}] ELSE call
Moved(w, call) ==
    [x \in Writers |-> IF x = w THEN call ELSE Gone(upsert[x], upsert[w].stage)]

\* The CSV is in place and the metadata are not.
Behind(w) == upsert[w].stage \in {"replaced", "describing"}

\* Hours between the file and a live candle that no backfill has covered.
Jumped ==
    IF job.kind = "live"
    THEN {h \in (MaxHour(DOMAIN csv) + 1)..(MaxHour(DOMAIN upsert["client"].file) - 1) :
              h > holes.covered}
    ELSE {}

Replace(w) ==
    /\ upsert[w].stage = "writing" /\ upsert[w].temp # {}
    /\ \/ csv' \in Left(upsert[w].temp) /\ legible' = [legible EXCEPT !.csv = TRUE]
       \/ Mixed(w) /\ csv' = NoFile /\ legible' = [legible EXCEPT !.csv = FALSE]
    /\ upsert' = Moved(w, [upsert[w] EXCEPT !.stage = "replaced", !.temp = {}])
    /\ holes' = [holes EXCEPT
           !.mixed = @ \/ Mixed(w),
           !.lost = @ \cup (DOMAIN csv \ (upsert[w].loaded \cup DOMAIN csv')),
           !.torn = @ \/ upsert[Other(w)].stage # "idle",
           !.jumped = IF w = "client" THEN @ \cup Jumped ELSE @,
           !.unfed = IF w = "ingestion" THEN @ \cup (DOMAIN csv' \ DOMAIN csv) ELSE @]
    /\ UNCHANGED <<now, tape, meta, client, job, engine, faults>>

SaveMeta(w) ==
    /\ upsert[w].stage = "describing" /\ upsert[w].temp # {}
    /\ \/ meta' \in {Describe(file) : file \in upsert[w].temp}
          /\ legible' = [legible EXCEPT !.meta = TRUE]
       \/ Mixed(w) /\ UNCHANGED meta /\ legible' = [legible EXCEPT !.meta = FALSE]
    /\ upsert' = Moved(w, Idle)
    /\ holes' = [holes EXCEPT
           !.torn = (@ /\ csv # upsert[w].file) \/ Behind(Other(w)) \/ Mixed(w)]
    /\ UNCHANGED <<now, tape, csv, client, job, engine, faults>>

\* A live candle stays unprocessed; a backfill is over.
Abandon(c, kind) == IF kind = "backfill" THEN [c EXCEPT !.phase = "dialing"] ELSE c

\* The temporary file is gone, or one of the two files does not parse.
Doomed(w) == \/ upsert[w].stage \in {"writing", "describing"} /\ upsert[w].temp = {}
             \/ upsert[w].stage = "replaced" /\ ~Parse

\* The call raises.  A failed write of the CSV deletes the temporary file, whoever has
\* it open.
WriteFails(w) ==
    /\ upsert[w].stage # "idle"
    /\ Works(Doomed(w))
    /\ upsert' = [x \in Writers |-> IF x = w THEN Idle
                                    ELSE IF Behind(w) THEN upsert[x]
                                    ELSE Gone(upsert[x], "writing")]
    /\ holes' = [holes EXCEPT
           !.torn = @ \/ Behind(w),
           !.covered = IF w = "client" /\ job.kind = "backfill" THEN 0 ELSE @,
           !.unfed = IF w = "client" /\ Behind(w) THEN @ \cup HoursOf(job.feed) ELSE @]
    /\ IF w = "client"
       THEN client' = Abandon(client, job.kind) /\ job' = NoJob
       ELSE UNCHANGED <<client, job>>
    /\ UNCHANGED <<now, tape, csv, meta, legible, engine>>

-----------------------------------------------------------------------------
(* The scheduled ingestion: from the row after the newest one.             *)

RunIngestion ==
    LET from == MaxHour(DOMAIN csv) + 1
    IN  /\ upsert["ingestion"] = Idle /\ legible.csv
        /\ Fault
        /\ \E pages \in Pages(from) :
               LET hours == FetchedFrom(from, pages)
               IN  /\ IF Readable(hours)
                      THEN Begin("ingestion", Published(hours)) ELSE UNCHANGED upsert
                   /\ holes' = [holes EXCEPT !.cut = @ \cup CutOff(from, pages)]
    /\ UNCHANGED <<now, tape, csv, meta, legible, client, job, engine>>

-----------------------------------------------------------------------------
(* DeltaWebSocketClient: a session.                                        *)

\* An engine is built from the file, then run() connects.  A connection that is
\* refused here ends run().
Start ==
    /\ client.phase = "off" /\ legible.csv
    /\ client' = [NoClient EXCEPT !.phase = "up", !.running = TRUE]
    /\ engine' = Initialize(Rows(csv))
    /\ UNCHANGED <<now, tape, csv, meta, legible, upsert, job, faults, holes>>

\* What the socket delivers: the hour that is forming or one of the two before it, of
\* this pair or another, and frames that are no candles.
Symbols == {"subscribed", "other", "unregistered"}
Frames == [channel: {"candlestick_1h", "heartbeat"}, symbol: Symbols,
           hour: {now - 1, now, now + 1} \cap Hours]

\* The candle a frame carries.  Another pair has another tape.
Quoted(frame) == IF frame.symbol = "subscribed" THEN tape[frame.hour]
                 ELSE tape[Len(tape) + 1 - frame.hour]

\* _parse_candle_from_ws: only a candle, and only of a subscribed pair.
Accepted(frame) == /\ frame.channel = "candlestick_1h"
                   /\ frame.symbol = "subscribed"

\* _is_candle_closed.
Closed(frame) == frame.hour <= now

\* _handle_message.  A refused frame, a forming candle, a processed hour, a malformed
\* candle and one of another year are dropped.
HandleMessage ==
    \E frame \in Frames :
        LET h == frame.hour
            new == [k \in {h} |-> Quoted(frame)]
        IN  /\ client.phase = "up" /\ job = NoJob
            /\ Accepted(frame) /\ Closed(frame)
            /\ h \notin client.processed
            /\ Readable({h}) /\ InPartition({h}) /\ legible.csv
            /\ Begin("client", new)
            /\ job' = [kind |-> "live", feed |-> Rows(new)]
        /\ UNCHANGED <<now, tape, csv, meta, legible, client, engine, faults, holes>>

\* A persisted candle is marked processed and is the watermark; then the callback,
\* then the engine.
Marked(c, h) == [c EXCEPT !.processed = @ \cup {h}, !.last = h]

RetryForever(c) == [c EXCEPT !.attempts = @ + 1, !.phase = "waiting"]
Retry(c) ==
    [c EXCEPT !.attempts = @ + 1,
              !.phase = IF c.attempts + 1 > MaxAttempts THEN "gaveUp" ELSE "waiting"]

\* A callback that raises: out of listen and into _reconnect, or out of the loop
\* over the backfilled candles.
Escape(c, kind) == IF kind = "live" THEN Retry(c) ELSE Abandon(c, kind)

CanFeed == job # NoJob /\ upsert["client"].stage = "idle"

Feed ==
    LET h == Head(job.feed).hour
        rest == Tail(job.feed)
        c == Marked(client, h)
        seen == ProcessNew(engine, Head(job.feed))
    IN  /\ CanFeed
        /\ engine' = seen
        /\ client' = IF rest = <<>> THEN Abandon(c, job.kind) ELSE c
        /\ job' = IF rest = <<>> THEN NoJob ELSE [job EXCEPT !.feed = rest]
        /\ holes' = [holes EXCEPT !.unfed = IF seen = engine THEN @ \cup {h} ELSE @ \ {h}]
        /\ UNCHANGED <<now, tape, csv, meta, legible, upsert, faults>>

CallbackRaises ==
    /\ CanFeed /\ Fault
    /\ client' = Escape(Marked(client, Head(job.feed).hour), job.kind)
    /\ job' = NoJob
    /\ holes' = [holes EXCEPT !.unfed = @ \cup HoursOf(job.feed)]
    /\ UNCHANGED <<now, tape, csv, meta, legible, upsert, engine>>

-----------------------------------------------------------------------------
(* DeltaWebSocketClient: a lost connection.                                *)

ConnectionLost ==
    /\ client.phase = "up" /\ job = NoJob
    /\ Fault
    /\ client' = Retry(client)
    /\ UNCHANGED <<now, tape, csv, meta, legible, upsert, job, engine, holes>>

\* _backfill_symbol, once the backoff is over: nothing before the first candle of
\* the session, and one unreadable candle or an unreadable file refuses the batch.
Backfill ==
    LET from == client.last + 1
    IN  /\ client.phase = "waiting"
        /\ \E pages \in Pages(from) :
            LET hours == FetchedFrom(from, pages) \ client.processed
                starts == client.last # 0 /\ hours # {} /\ Readable(hours) /\ legible.csv
            IN  /\ Works(client.last = 0 \/ CutOff(from, pages) = {})
                /\ client' = [client EXCEPT !.phase = IF starts THEN "backfill" ELSE "dialing"]
                /\ IF starts
                   THEN Begin("client", Published(hours))
                        /\ job' = [kind |-> "backfill", feed |-> Rows(Published(hours))]
                   ELSE UNCHANGED <<upsert, job>>
                /\ holes' = [holes EXCEPT
                       !.cut = @ \cup (IF client.last = 0 THEN {} ELSE CutOff(from, pages)),
                       !.covered = IF client.last # 0 /\ Readable(hours) THEN now ELSE 0]
    /\ UNCHANGED <<now, tape, csv, meta, legible, engine>>

\* connect() starts the count again; a subscription may still fail after it.
Connected(c) == [c EXCEPT !.running = TRUE, !.attempts = 0]

Dial ==
    /\ client.phase = "dialing"
    /\ \/ client' = [Connected(client) EXCEPT !.phase = "up"] /\ UNCHANGED faults
       \/ client' = Retry(Connected(client)) /\ Fault
       \/ client' = Retry(client) /\ UNCHANGED faults
    /\ UNCHANGED <<now, tape, csv, meta, legible, upsert, job, engine, holes>>

\* disconnect() while it listens ends listen; during _reconnect nothing reads it.
Disconnect ==
    /\ client.phase \in {"up", "waiting", "dialing"} /\ client.running /\ job = NoJob
    /\ Fault
    /\ client' = [client EXCEPT !.running = FALSE,
                                !.phase = IF @ = "up" THEN "stopped" ELSE @]
    /\ UNCHANGED <<now, tape, csv, meta, legible, upsert, job, engine, holes>>

\* The process dies, between two writes too.
Crash ==
    /\ client.phase # "off"
    /\ Fault
    /\ client' = NoClient
    /\ job' = NoJob
    /\ Finish("client")
    /\ engine' = NoEngine
    /\ holes' = [holes EXCEPT !.torn = @ \/ Behind("client"),
                              !.unfed = {}, !.covered = 0]
    /\ UNCHANGED <<now, tape, csv, meta, legible>>

Next ==
    \/ HourCloses \/ Amend
    \/ Start \/ HandleMessage \/ Feed \/ CallbackRaises
    \/ ConnectionLost \/ Backfill \/ Dial \/ Disconnect \/ Crash
    \/ RunIngestion
    \/ \E w \in Writers : Open(w) \/ Replace(w) \/ SaveMeta(w) \/ WriteFails(w)

Spec == Init /\ [][Next]_vars

-----------------------------------------------------------------------------
(* Properties                                                              *)

\* The file has no silent gap: an hour missing between its first and its last row
\* was unreadable, was on a page that failed, was overwritten by the other
\* process, or lies between the backfills' reach and a live candle (Rule 13).
GapsAreExplained ==
    \A h \in Hours :
        DOMAIN csv # {} /\ MinHour(DOMAIN csv) < h /\ h < MaxHour(DOMAIN csv)
        /\ h \notin DOMAIN csv
        => ~tape[h].valid \/ h \in holes.jumped \cup holes.cut \cup holes.lost

\* Rule 7: the metadata describes the file, but for a call that is at it, and for
\* one that was cut off between its two writes or met the other process.
MetaDescribesFile ==
    \/ meta = Describe(csv)
    \/ holes.torn
    \/ \E w \in Writers : Behind(w)

\* Every row is the candle the exchange published for that hour of this pair, was
\* readable and belongs to the file's year.
RowsArePublished ==
    \A h \in DOMAIN csv : /\ csv[h] = tape[h] \/ h \in holes.amended
                          /\ Readable({h}) /\ InPartition({h})

\* The files on disk are what the canonical dataset promises, until a CSV is published
\* that two calls wrote to at once.
DiskIsSound ==
    \/ holes.mixed
    \/ GapsAreExplained /\ MetaDescribesFile /\ RowsArePublished

\* Rule 10: the engine takes ascending hours, each once and each from the file
\* with the value the file has; a row of the file it passed over was written by
\* the ingestion, came late, was handed to a callback that raised, or is of a call whose
\* metadata failed.  A CSV that two calls wrote to at once is excused.
EngineFollowsFile ==
    LET hourOf(i) == engine.candles[i].hour
        candle(i) == [f \in DOMAIN csv[hourOf(i)] |-> engine.candles[i][f]]
    IN  \/ holes.mixed
        \/ /\ \A i, j \in DOMAIN engine.candles : i < j => hourOf(i) < hourOf(j)
           /\ \A i \in DOMAIN engine.candles :
                  \/ hourOf(i) \in holes.lost
                  \/ hourOf(i) \in DOMAIN csv /\ (candle(i) = csv[hourOf(i)]
                                                  \/ hourOf(i) \in holes.amended)
           /\ client.phase # "off" =>
                  DOMAIN csv \subseteq
                      HoursOf(engine.candles) \cup holes.unfed \cup HoursOf(job.feed)

\* An order block that formed while the engine was running is active exactly as
\* long as no candle taken since the break has closed through the block, as the
\* exchange publishes it, whatever was lost, backfilled or repeated in between.  Of an
\* hour that was corrected the engine knows the candle it took: it ignores another one.
BlocksFollowCandles ==
    \A k \in DOMAIN engine.obs :
        LET ob == engine.obs[k]
            offset == Len(engine.candles) - Len(engine.parsed)
            since == SubSeq(engine.candles, ob.brk + offset + 1, Len(engine.candles))
            known(c) == IF c.hour \in holes.amended THEN c ELSE tape[c.hour]
        IN  ob.live => (ob.active <=>
                            \A i \in DOMAIN since : ~ClosesThrough(ob, known(since[i])))

\* Restart-safe: an engine built now from the candles the running one has taken has
\* the same parsed series and the same structure (header of incremental_engine.py),
\* unless the running one began on too short a history.  Its order blocks are left out,
\* for they differ: _initialize_from_candles touches and invalidates none of those it
\* finds.
RestartRebuildsStructure ==
    LET rebuilt == Initialize(engine.candles)
    IN  engine.candles # <<>> /\ Len(engine.parsed) = Len(engine.candles) =>
            /\ rebuilt.parsed = engine.parsed
            /\ rebuilt.internal = engine.internal
            /\ rebuilt.swing = engine.swing

=============================================================================
