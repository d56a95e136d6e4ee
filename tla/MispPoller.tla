----------------------------- MODULE MispPoller -----------------------------
(***************************************************************************)
(* The MISP pollers (internal/source/poller.go), one goroutine per enabled *)
(* MISP source: pages of recently modified events are fetched, compared    *)
(* with the events table, stored, and sent to the event channel; then the  *)
(* one cursor all pollers share is moved.                                  *)
(* The MISP servers are external: an edit of an event stamps it with the   *)
(* time of the edit.                                                       *)
(* Every wait of the code (the channel, the network) and every statement   *)
(* of the database is an action of its own.                                *)
(***************************************************************************)
EXTENDS Runtime, FiniteSets

CONSTANTS Source,      \* enabled MISP sources
          MispId,      \* identifiers of MISP events
          PageSize,    \* events of a full page (100)
          MaxPages,    \* pages of a poll, at most (5)
          ColdWindow,  \* how far back a cold start looks (7 days)
          ByTime,      \* the server lists events by time stamp, not by identifier
          Quiet,       \* the servers' events change only between polls
          DbFaults     \* a statement on the tables events and state may fail

ASSUME PollerAssumption == /\ IsFiniteSet(MispId) /\ MispId \subseteq Nat \cap Event
                           /\ PageSize \in Nat \ {0} /\ MaxPages \in Nat \ {0}
                           /\ ColdWindow \in Nat
                           /\ {ByTime, Quiet, DbFaults} \subseteq BOOLEAN

VARIABLES misp,    \* the servers' events: time stamp (Never: none) and published flag
          events,  \* table events: the time stamp of the stored version
          cursor,  \* row misp_cursor of table state
          poll,    \* each poller's local state
          taken,   \* history: the newest version of each event sent or retracted
          missed   \* history: the newest version passed over after a logged error

pollerVars == <<misp, events, cursor, poll, taken, missed>>

Raw   == [id : MispId, ts : Time, pub : BOOLEAN]
PollT == [pc : {"off", "idle", "fetch", "event", "store", "send", "retract",
                "suppress", "cursor"},
          cold : BOOLEAN, since : Int, page : 0..MaxPages - 1,
          batch : Seq(Raw), maxTs : Stamp, full : BOOLEAN]

\* No goroutine, and one that waits for its ticker.
Pausing(pc, cold) == [pc |-> pc, cold |-> cold, since |-> 0, page |-> 0,
                      batch |-> <<>>, maxTs |-> Never, full |-> FALSE]
OffPoll        == Pausing("off", TRUE)
IdlePoll(cold) == Pausing("idle", cold)

PollerTypeOK ==
    /\ RuntimeTypeOK
    /\ misp \in [Source -> [MispId -> [ts : Stamp, pub : BOOLEAN]]]
    /\ events \in [MispId -> Stamp]
    /\ cursor \in Stamp
    /\ poll \in [Source -> PollT]
    /\ taken \in [MispId -> Stamp] /\ missed \in [MispId -> Stamp]

PollerInit ==
    /\ misp = [s \in Source |-> [e \in MispId |-> [ts |-> Never, pub |-> FALSE]]]
    /\ events = [e \in MispId |-> Never]
    /\ cursor = Never
    /\ poll = [s \in Source |-> OffPoll]
    /\ taken = [e \in MispId |-> Never] /\ missed = taken

-----------------------------------------------------------------------------
(* The MISP server *)

Polling == \E s \in Source : poll[s].pc \notin {"off", "idle"}

\* An event is created, changed, published or withdrawn.
Edit(s, e, pub) ==
    /\ Quiet => ~Polling
    /\ misp' = [misp EXCEPT ![s][e] = [ts |-> now, pub |-> pub]]
    /\ UNCHANGED <<events, cursor, poll, taken, missed>>

Precedes(r, q) == IF ByTime /\ r.ts # q.ts THEN r.ts < q.ts ELSE r.id < q.id

\* restSearch with timestamp=since: drafts and withdrawn events are listed too.
Listed(s, since) ==
    LET version(e) == [id |-> e, ts |-> misp[s][e].ts, pub |-> misp[s][e].pub]
    IN  {version(e) : e \in {e \in MispId : /\ misp[s][e].ts # Never
                                            /\ misp[s][e].ts >= since}}

\* The sequences the set is listed in: there is one.
Listings(S) == {list \in [1..Cardinality(S) -> S] :
                  \A i, j \in DOMAIN list : i < j => Precedes(list[i], list[j])}

Page(list, page) ==
    LET last == (page + 1) * PageSize
    IN  SubSeq(list, page * PageSize + 1, IF last < Len(list) THEN last ELSE Len(list))

-----------------------------------------------------------------------------
(* Run and poll *)

\* getCursor, getStoredEvent: any error of the query reads as "no such row".
\* getStoredEvent has one error of its own: a row whose JSON does not parse.
Reading(row) == {row} \cup (IF DbFaults THEN {Never} ELSE {})

\* Run: with a cursor saved by an earlier process, no cold start.
StartPoller(s) ==
    /\ run = "running" /\ poll[s].pc = "off"
    /\ \E saved \in Reading(cursor) :
         poll' = [poll EXCEPT ![s] = IdlePoll(saved = Never)]
    /\ UNCHANGED <<misp, events, cursor, taken, missed>>

\* The first poll, or a tick. A cursor that was never stored filters nothing.
BeginPoll(s) ==
    /\ poll[s].pc = "idle"
    /\ \E saved \in Reading(cursor) :
         poll' = [poll EXCEPT ![s].pc = "fetch",
                              ![s].since = IF poll[s].cold THEN now - ColdWindow
                                                           ELSE saved]
    /\ UNCHANGED <<misp, events, cursor, taken, missed>>

\* FetchEvents. An empty page ends the poll and leaves lastPageFull as the page
\* before it set it.
Fetch(s) ==
    /\ poll[s].pc = "fetch"
    /\ \E list \in Listings(Listed(s, poll[s].since)) :
         LET batch == Page(list, poll[s].page) IN
         poll' = [poll EXCEPT ![s] =
                    IF batch = <<>>
                      THEN [@ EXCEPT !.pc = "cursor"]
                      ELSE [@ EXCEPT !.pc = "event", !.batch = batch,
                                     !.full = Len(batch) = PageSize]]
    /\ UNCHANGED <<misp, events, cursor, taken, missed>>

\* poll returns the error: the cursor and the cold start stay.
FetchFails(s) ==
    /\ poll[s].pc = "fetch"
    /\ poll' = [poll EXCEPT ![s] = IdlePoll(poll[s].cold)]
    /\ UNCHANGED <<misp, events, cursor, taken, missed>>

\* Faulty variant: pages are fetched for as long as they are full.
AdvanceWhileFull(p) ==
    LET rest == Tail(p.batch) IN
    IF rest # <<>>
      THEN [p EXCEPT !.pc = "event", !.batch = rest]
      ELSE IF p.full
             THEN [p EXCEPT !.pc = "fetch", !.batch = rest, !.page = @ + 1]
             ELSE [p EXCEPT !.pc = "cursor", !.batch = rest]

\* The loop after one event: the next event, the next page, or the cursor.
Advance(p) ==
    LET rest == Tail(p.batch) IN
    IF rest # <<>>
      THEN [p EXCEPT !.pc = "event", !.batch = rest]
      ELSE IF p.full /\ p.page + 1 < MaxPages
             THEN [p EXCEPT !.pc = "fetch", !.batch = rest, !.page = @ + 1]
             ELSE [p EXCEPT !.pc = "cursor", !.batch = rest]

\* maxTimestamp has seen the event in hand.
Seen(p) == LET ts == Head(p.batch).ts IN [p EXCEPT !.maxTs = IF ts > @ THEN ts ELSE @]

\* The newer of the version the history has and this one.
Newest(history, raw) == [history EXCEPT ![raw.id] = IF raw.ts > @ THEN raw.ts ELSE @]

\* The body of the loop up to its first write.
Examine(s) ==
    /\ poll[s].pc = "event" /\ run = "running"
    /\ LET raw  == Head(poll[s].batch)
           seen == Seen(poll[s])
       IN  \E existing \in Reading(events[raw.id]) :
             poll' = [poll EXCEPT ![s] =
                        IF existing # Never /\ ~raw.pub
                          THEN [seen EXCEPT !.pc = "retract"]
                          ELSE IF existing > raw.ts
                                 THEN Advance(seen)
                                 ELSE [seen EXCEPT !.pc = "store"]]
    /\ UNCHANGED <<misp, events, cursor, taken, missed>>

\* The stored row does not parse: the event is passed over, but it has counted
\* for maxTimestamp.
ExamineFails(s) ==
    /\ DbFaults
    /\ poll[s].pc = "event" /\ run = "running"
    /\ LET raw == Head(poll[s].batch) IN
         /\ events[raw.id] # Never
         /\ missed' = Newest(missed, raw)
    /\ poll' = [poll EXCEPT ![s] = Advance(Seen(@))]
    /\ UNCHANGED <<misp, events, cursor, taken>>

\* storeEvent, for a live or a retracted event: the row is the same, and a failed
\* statement is only logged.
Store(s) ==
    /\ poll[s].pc \in {"store", "retract"}
    /\ LET raw == Head(poll[s].batch) IN
         events' \in {[events EXCEPT ![raw.id] = raw.ts]}
                       \cup (IF DbFaults THEN {events} ELSE {})
    /\ poll' = [poll EXCEPT ![s].pc = IF @ = "store" THEN "send" ELSE "suppress"]
    /\ UNCHANGED <<misp, cursor, taken, missed>>

\* p.Events <- normalized
SendEvent(s) ==
    /\ poll[s].pc = "send"
    /\ LET raw == Head(poll[s].batch) IN
         /\ Send([id |-> raw.id, ts |-> raw.ts])
         /\ taken' = Newest(taken, raw)
    /\ poll' = [poll EXCEPT ![s] = Advance(@)]
    /\ UNCHANGED <<misp, events, cursor, missed>>

\* SuppressAlertsForEvent; its effect on the alerts is the store's.
Retract(s) ==
    /\ poll[s].pc = "suppress"
    /\ taken' = Newest(taken, Head(poll[s].batch))
    /\ poll' = [poll EXCEPT ![s] = Advance(@)]
    /\ UNCHANGED <<misp, events, cursor, missed>>

\* It returns an error, which is only logged: the retraction is lost.
RetractFails(s) ==
    /\ poll[s].pc = "suppress"
    /\ missed' = Newest(missed, Head(poll[s].batch))
    /\ poll' = [poll EXCEPT ![s] = Advance(@)]
    /\ UNCHANGED <<misp, events, cursor, taken>>

\* Faulty variant: the cursor moves to now however the paging ended.
SaveCursorNow(s) ==
    /\ poll[s].pc = "cursor"
    /\ cursor' \in {now} \cup (IF DbFaults THEN {cursor} ELSE {})
    /\ poll' = [poll EXCEPT ![s] = IdlePoll(FALSE)]
    /\ UNCHANGED <<misp, events, taken, missed>>

\* Faulty variant: the cursor is stored one unit early, to overlap the next listing.
SaveCursorEarly(s) ==
    /\ poll[s].pc = "cursor"
    /\ LET p    == poll[s]
           next == IF p.full /\ p.maxTs # Never THEN p.maxTs - 1 ELSE now
       IN  cursor' \in {next} \cup (IF DbFaults THEN {cursor} ELSE {})
    /\ poll' = [poll EXCEPT ![s] = IdlePoll(FALSE)]
    /\ UNCHANGED <<misp, events, taken, missed>>

\* The end of poll: setCursor (a failed statement is only logged), and the cold
\* start is over.
SaveCursor(s) ==
    /\ poll[s].pc = "cursor"
    /\ LET p    == poll[s]
           next == IF p.full /\ p.maxTs # Never THEN p.maxTs ELSE now
       IN  cursor' \in {next} \cup (IF DbFaults THEN {cursor} ELSE {})
    /\ poll' = [poll EXCEPT ![s] = IdlePoll(FALSE)]
    /\ UNCHANGED <<misp, events, taken, missed>>

\* The cancelled context is noticed between polls, between events, and while the
\* channel is full.
Quit(s) ==
    /\ run = "stopping" /\ poll[s].pc \in {"idle", "event", "send"}
    /\ poll' = [poll EXCEPT ![s] = OffPoll]
    /\ UNCHANGED <<misp, events, cursor, taken, missed>>

PollersDie == /\ poll' = [s \in Source |-> OffPoll]
              /\ UNCHANGED <<misp, events, cursor, taken, missed>>

\* The steps of a poller that do not touch the channel or the alerts.
QuietStep(s) == \/ StartPoller(s) \/ BeginPoll(s) \/ Fetch(s) \/ FetchFails(s)
                \/ Examine(s) \/ ExamineFails(s) \/ Store(s) \/ RetractFails(s)
                \/ SaveCursor(s) \/ Quit(s)

-----------------------------------------------------------------------------
(* The pollers alone: the rest of the process drains and fills the channel. *)

pollerSystem == <<runtimeVars, pollerVars>>

PollerStep(s) == \/ QuietStep(s) /\ UNCHANGED runtimeVars
                 \/ SendEvent(s) /\ UNCHANGED <<now, run>>
                 \/ Retract(s) /\ UNCHANGED runtimeVars

ServerStep == /\ \E s \in Source, e \in MispId, pub \in BOOLEAN : Edit(s, e, pub)
              /\ UNCHANGED runtimeVars

ChannelStep == /\ \/ Receive
                  \/ \E id \in Event \ MispId : TrySend([id |-> id, ts |-> Never])
               /\ UNCHANGED <<now, run, pollerVars>>

ProcessStep == \/ (Start \/ Cancel) /\ UNCHANGED <<now, queue, pollerVars>>
               \/ Die /\ PollersDie /\ UNCHANGED now
               \/ Tick /\ UNCHANGED <<run, queue, pollerVars>>

PollerNext == \/ \E s \in Source : PollerStep(s)
              \/ ServerStep \/ ChannelStep \/ ProcessStep

PollerSystemInit == RuntimeInit /\ PollerInit

PollerSpec == PollerSystemInit /\ [][PollerNext]_pollerSystem

-----------------------------------------------------------------------------
(* What the pollers promise *)

\* This version of the event, or a newer one, was sent, retracted or passed over.
Settled(e, ts) == taken[e] >= ts \/ missed[e] >= ts

\* The comment over the cursor update: the cursor advances so as "to avoid
\* skipping events". A version of an event older than the cursor is never listed
\* again, so it, or a newer one, must have been sent or retracted: whatever
\* fails or ends the process between a page, a row, a send and the cursor. Two
\* errors are the only exceptions, because the loop logs them and goes on: the
\* stored row does not parse, and the alerts could not be suppressed.
NothingSkipped ==
    \A s \in Source, e \in MispId :
        misp[s][e].ts # Never /\ misp[s][e].ts < cursor => Settled(e, misp[s][e].ts)

\* The cursor moves back, and what was taken is listed again, only when a poll ends
\* that listed from before it: a poll that could not read the row, or a source that
\* shares it. A poll that began at the cursor never stores an older one, whichever
\* of the two values it stores.
CursorKept ==
    [][cursor' < cursor =>
          \E s \in Source : /\ poll[s].pc = "cursor" /\ poll'[s].pc = "idle"
                            /\ poll[s].since < cursor]_pollerSystem
=============================================================================
