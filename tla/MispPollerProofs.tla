-------------------------- MODULE MispPollerProofs --------------------------
(***************************************************************************)
(* Proofs about the MISP pollers: their types, and that the cursor never   *)
(* moves back when one source is polled. With two sources it does: both    *)
(* polls write the one row misp_cursor.                                    *)
(***************************************************************************)
EXTENDS MispPoller, SequenceTheorems, FiniteSetTheorems, TLAPS

Handling == {"event", "store", "send", "retract", "suppress"}

\* A poller that handles an event has one.
HasEvent(p) == p.pc \in Handling => p.batch # <<>>

PollerInv == PollerTypeOK /\ \A s \in Source : HasEvent(poll[s])

-----------------------------------------------------------------------------
(* The operators of the model *)

LEMMA TimeFacts == /\ Time \subseteq Int /\ Stamp \subseteq Int
                   /\ Time \subseteq Stamp /\ Never \in Stamp /\ Never \notin Time
  BY BaseAssumption DEF Time, Stamp, Never

LEMMA IdleType ==
  ASSUME NEW cold \in BOOLEAN
  PROVE  /\ OffPoll \in PollT /\ HasEvent(OffPoll)
         /\ IdlePoll(cold) \in PollT /\ HasEvent(IdlePoll(cold))
         /\ IdlePoll(cold).pc = "idle" /\ IdlePoll(cold).cold = cold
  <1>1. 0 \in 0..MaxPages - 1 /\ <<>> \in Seq(Raw) /\ Never \in Stamp
    BY PollerAssumption, TimeFacts
  <1> QED
    BY <1>1 DEF OffPoll, IdlePoll, Pausing, PollT, HasEvent, Handling

\* Whatever follows an event, the poller has an event or wants none.
LEMMA AdvanceType ==
  ASSUME NEW p \in PollT, p.batch # <<>>
  PROVE  Advance(p) \in PollT /\ HasEvent(Advance(p))
  <1>1. Tail(p.batch) \in Seq(Raw)
    BY DEF PollT
  <1>2. p.page + 1 < MaxPages => p.page + 1 \in 0..MaxPages - 1
    BY PollerAssumption DEF PollT
  <1> QED
    BY <1>1, <1>2 DEF Advance, PollT, HasEvent, Handling

\* A page is a sequence of listed versions.
LEMMA PageType ==
  ASSUME NEW S, IsFiniteSet(S), NEW list \in Listings(S), NEW page \in 0..MaxPages - 1
  PROVE  Page(list, page) \in Seq(S)
  <1>1. Cardinality(S) \in Nat
    BY FS_CardinalityType
  <1>2. list \in Seq(S) /\ Len(list) = Cardinality(S)
    BY <1>1 DEF Listings
  <1> DEFINE first == page * PageSize + 1
             last  == (page + 1) * PageSize
             stop  == IF last < Len(list) THEN last ELSE Len(list)
  <1>3. first \in Nat /\ last \in Nat /\ first >= 1
    BY PollerAssumption
  <1>4. stop \in Nat /\ stop <= Len(list)
    BY <1>1, <1>2, <1>3
  <1>5. Page(list, page) = SubSeq(list, first, stop)
    BY DEF Page
  <1> HIDE DEF first, last, stop
  <1>6. \A i \in first..stop : list[i] \in S
    BY <1>2, <1>3, <1>4
  <1> QED
    BY <1>3, <1>4, <1>5, <1>6, SubSeqProperties

\* A listing holds typed versions, none older than asked for.
LEMMA ListedType ==
  ASSUME PollerTypeOK, NEW s \in Source, NEW since \in Int
  PROVE  /\ Listed(s, since) \subseteq Raw
         /\ IsFiniteSet(Listed(s, since))
         /\ \A r \in Listed(s, since) : r.ts \in Time /\ r.ts >= since
  <1> DEFINE version(e) == [id |-> e, ts |-> misp[s][e].ts, pub |-> misp[s][e].pub]
             recent == {e \in MispId : misp[s][e].ts # Never /\ misp[s][e].ts >= since}
  <1>1. Listed(s, since) = {version(e) : e \in recent}
    BY DEF Listed
  <1>2. IsFiniteSet(recent)
    BY PollerAssumption, FS_Subset
  <1>3. \A e \in recent : /\ version(e) \in Raw
                          /\ version(e).ts \in Time /\ version(e).ts >= since
    BY DEF PollerTypeOK, Raw, Stamp, Never
  <1>4. IsFiniteSet({version(e) : e \in recent})
    <2> DEFINE f == [e \in recent |-> version(e)]
    <2>1. f \in Surjection(recent, {version(e) : e \in recent})
      BY Zenon DEF Surjection
    <2> QED
      BY <1>2, <2>1, FS_Surjection
  <1> QED
    BY <1>1, <1>3, <1>4

-----------------------------------------------------------------------------
(* Types *)

LEMMA InitPollerInv == PollerSystemInit => PollerInv
  <1> SUFFICES ASSUME RuntimeInit, PollerInit PROVE PollerInv
    BY DEF PollerSystemInit
  <1>1. RuntimeTypeOK
    BY BaseAssumption, RuntimeAssumption DEF RuntimeInit, RuntimeTypeOK, Time
  <1>2. PollerTypeOK
    BY <1>1, TimeFacts, IdleType DEF PollerInit, PollerTypeOK
  <1>3. \A s \in Source : HasEvent(poll[s])
    BY IdleType DEF PollerInit
  <1> QED
    BY <1>2, <1>3 DEF PollerInv

\* A step that gives one poller a state of the right type, and touches nothing else
\* but tables of the right type.
LEMMA OnePoller ==
  ASSUME PollerInv, NEW s \in Source, NEW p \in PollT, HasEvent(p),
         poll' = [poll EXCEPT ![s] = p],
         RuntimeTypeOK', UNCHANGED misp,
         events' \in [MispId -> Stamp], cursor' \in Stamp,
         taken' \in [MispId -> Stamp], missed' \in [MispId -> Stamp]
  PROVE  PollerInv'
  <1>1. poll' \in [Source -> PollT] /\ \A q \in Source : HasEvent(poll'[q])
    BY DEF PollerInv, PollerTypeOK
  <1>2. PollerTypeOK'
    BY <1>1 DEF PollerInv, PollerTypeOK
  <1> QED
    BY <1>1, <1>2 DEF PollerInv

\* The event counted for maxTimestamp.
LEMMA SeenType ==
  ASSUME NEW p \in PollT, p.batch # <<>>
  PROVE  /\ Seen(p) \in PollT /\ Seen(p).batch = p.batch /\ Seen(p).since = p.since
         /\ Seen(p).full = p.full /\ Seen(p).page = p.page /\ Seen(p).pc = p.pc
         /\ Seen(p).cold = p.cold /\ Head(p.batch) \in Raw
         /\ Seen(p).maxTs \in {p.maxTs, Head(p.batch).ts}
         /\ Seen(p).maxTs >= Head(p.batch).ts /\ Seen(p).maxTs >= p.maxTs
         /\ Seen(p).maxTs # Never
  <1>1. p.batch \in Seq(Raw) /\ Head(p.batch) \in Raw
    BY DEF PollT
  <1>2. Head(p.batch).ts \in Time /\ p.maxTs \in Stamp
    BY <1>1 DEF PollT, Raw
  <1>3. Head(p.batch).ts \in Int /\ p.maxTs \in Int /\ Head(p.batch).ts > Never
    <2>1. \A t \in Time : t > Never
      BY BaseAssumption DEF Time, Never
    <2> QED
      BY <1>2, <2>1, TimeFacts
  <1> QED
    BY <1>1, <1>2, <1>3, TimeFacts DEF Seen, PollT

LEMMA NewestType ==
  ASSUME NEW history \in [MispId -> Stamp], NEW raw \in Raw
  PROVE  Newest(history, raw) \in [MispId -> Stamp]
  BY TimeFacts DEF Raw, Newest

LEMMA QuietStepInv ==
  ASSUME PollerInv, NEW s \in Source, QuietStep(s), UNCHANGED runtimeVars
  PROVE  PollerInv'
  <1>1. /\ poll[s] \in PollT /\ HasEvent(poll[s])
        /\ RuntimeTypeOK /\ events \in [MispId -> Stamp]
        /\ cursor \in Stamp /\ taken \in [MispId -> Stamp] /\ missed \in [MispId -> Stamp]
        /\ poll \in [Source -> PollT] /\ now \in Time
    BY DEF PollerInv, PollerTypeOK, RuntimeTypeOK
  <1>2. RuntimeTypeOK'
    BY <1>1 DEF RuntimeTypeOK, runtimeVars
  <1>3. CASE StartPoller(s)
    BY <1>1, <1>2, <1>3, IdleType, OnePoller DEF StartPoller
  <1>4. CASE BeginPoll(s)
    <2>0. PICK saved \in Reading(cursor) :
            poll' = [poll EXCEPT ![s].pc = "fetch",
                                 ![s].since = IF poll[s].cold THEN now - ColdWindow
                                                              ELSE saved]
      BY <1>4 DEF BeginPoll
    <2> DEFINE since == IF poll[s].cold THEN now - ColdWindow ELSE saved
               p     == [poll[s] EXCEPT !.pc = "fetch", !.since = since]
    <2>1. since \in Int
      BY <1>1, <2>0, TimeFacts, PollerAssumption DEF Reading, Never
    <2>2. poll' = [poll EXCEPT ![s] = p]
      BY <1>1, <2>0
    <2>3. p \in PollT /\ HasEvent(p)
      BY <1>1, <2>1 DEF PollT, HasEvent, Handling
    <2> QED
      BY <1>1, <1>2, <1>4, <2>2, <2>3, OnePoller DEF BeginPoll
  <1>5. CASE Fetch(s)
    <2> DEFINE S == Listed(s, poll[s].since)
    <2>1. PICK list \in Listings(S) :
            LET batch == Page(list, poll[s].page) IN
            poll' = [poll EXCEPT ![s] =
                       IF batch = <<>>
                         THEN [@ EXCEPT !.pc = "cursor"]
                         ELSE [@ EXCEPT !.pc = "event", !.batch = batch,
                                        !.full = Len(batch) = PageSize]]
      BY <1>5 DEF Fetch
    <2> DEFINE batch == Page(list, poll[s].page)
               p == IF batch = <<>>
                      THEN [poll[s] EXCEPT !.pc = "cursor"]
                      ELSE [poll[s] EXCEPT !.pc = "event", !.batch = batch,
                                           !.full = Len(batch) = PageSize]
    <2>2. poll' = [poll EXCEPT ![s] = p]
      BY <1>1, <2>1
    <2>3. poll[s].since \in Int /\ poll[s].page \in 0..MaxPages - 1
      BY <1>1 DEF PollT
    <2>4. S \subseteq Raw /\ IsFiniteSet(S)
      BY <2>3, ListedType DEF PollerInv
    <2>5. batch \in Seq(Raw)
      <3>1. batch \in Seq(S)
        BY <2>3, <2>4, PageType
      <3> QED
        BY <2>4, <3>1, SeqMonotonic
    <2> HIDE DEF batch
    <2>6. p \in PollT /\ HasEvent(p)
      BY <1>1, <2>5 DEF PollT, HasEvent, Handling
    <2> QED
      BY <1>1, <1>2, <1>5, <2>2, <2>6, OnePoller DEF Fetch
  <1>6. CASE FetchFails(s)
    <2>1. poll[s].cold \in BOOLEAN
      BY <1>1 DEF PollT
    <2> QED
      BY <1>1, <1>2, <1>6, <2>1, IdleType, OnePoller DEF FetchFails
  <1>7. CASE Examine(s)
    <2> DEFINE raw  == Head(poll[s].batch)
               seen == Seen(poll[s])
    <2>1. PICK existing \in Reading(events[raw.id]) :
            poll' = [poll EXCEPT ![s] =
                       IF existing # Never /\ ~raw.pub
                         THEN [seen EXCEPT !.pc = "retract"]
                         ELSE IF existing > raw.ts
                                THEN Advance(seen)
                                ELSE [seen EXCEPT !.pc = "store"]]
      BY <1>7 DEF Examine
    <2>2. poll[s].batch # <<>>
      BY <1>1, <1>7 DEF Examine, HasEvent, Handling
    <2>4. seen \in PollT /\ seen.batch # <<>>
      BY <1>1, <2>2, SeenType
    <2> HIDE DEF seen
    <2>5. /\ Advance(seen) \in PollT /\ HasEvent(Advance(seen))
          /\ [seen EXCEPT !.pc = "retract"] \in PollT
          /\ HasEvent([seen EXCEPT !.pc = "retract"])
          /\ [seen EXCEPT !.pc = "store"] \in PollT
          /\ HasEvent([seen EXCEPT !.pc = "store"])
      BY <2>4, AdvanceType DEF PollT, HasEvent, Handling
    <2> QED
      BY <1>1, <1>2, <1>7, <2>1, <2>5, OnePoller DEF Examine
  <1>8. CASE Store(s)
    <2> DEFINE p == [poll[s] EXCEPT !.pc = IF @ = "store" THEN "send" ELSE "suppress"]
    <2>1. Head(poll[s].batch) \in Raw
      BY <1>1, <1>8 DEF Store, PollT, HasEvent, Handling
    <2>2. events' \in [MispId -> Stamp]
      BY <1>1, <1>8, <2>1, TimeFacts DEF Store, Raw
    <2>3. p \in PollT /\ HasEvent(p)
      BY <1>1, <1>8 DEF Store, PollT, HasEvent, Handling
    <2>4. poll' = [poll EXCEPT ![s] = p]
      BY <1>1, <1>8 DEF Store
    <2> QED
      BY <1>1, <1>2, <1>8, <2>2, <2>3, <2>4, OnePoller DEF Store
  <1>9. CASE SaveCursor(s)
    <2>1. poll[s].maxTs \in Stamp
      BY <1>1 DEF PollT
    <2>2. cursor' \in Stamp
      BY <1>1, <1>9, <2>1, TimeFacts DEF SaveCursor
    <2> QED
      BY <1>1, <1>2, <1>9, <2>2, IdleType, OnePoller DEF SaveCursor
  <1>10. CASE Quit(s)
    BY <1>1, <1>2, <1>10, IdleType, OnePoller DEF Quit
  <1>11. CASE ExamineFails(s) \/ RetractFails(s)
    <2>1. poll[s].batch # <<>>
      BY <1>1, <1>11 DEF ExamineFails, RetractFails, HasEvent, Handling
    <2>2. Head(poll[s].batch) \in Raw /\ Seen(poll[s]) \in PollT /\ Seen(poll[s]).batch # <<>>
      BY <1>1, <2>1, SeenType
    <2>3. missed' \in [MispId -> Stamp]
      BY <1>1, <1>11, <2>2, NewestType DEF ExamineFails, RetractFails
    <2>4. PICK p \in {poll[s], Seen(poll[s])} : poll' = [poll EXCEPT ![s] = Advance(p)]
      BY <1>1, <1>11 DEF ExamineFails, RetractFails
    <2>5. Advance(p) \in PollT /\ HasEvent(Advance(p))
      BY <1>1, <2>1, <2>2, <2>4, AdvanceType
    <2> QED
      BY <1>1, <1>2, <1>11, <2>3, <2>4, <2>5, OnePoller DEF ExamineFails, RetractFails
  <1> QED
    BY <1>3, <1>4, <1>5, <1>6, <1>7, <1>8, <1>9, <1>10, <1>11 DEF QuietStep

\* What a poller does to the channel.
LEMMA SendType ==
  ASSUME RuntimeTypeOK, NEW item \in Item, Send(item), UNCHANGED <<now, run>>
  PROVE  RuntimeTypeOK'
  BY RuntimeAssumption, AppendProperties DEF RuntimeTypeOK, Send

LEMMA SendEventInv ==
  ASSUME PollerInv, NEW s \in Source, SendEvent(s), UNCHANGED <<now, run>>
  PROVE  PollerInv'
  <1> DEFINE raw == Head(poll[s].batch)
  <1>1. /\ poll[s] \in PollT /\ poll \in [Source -> PollT]
        /\ RuntimeTypeOK /\ events \in [MispId -> Stamp] /\ cursor \in Stamp
        /\ taken \in [MispId -> Stamp] /\ missed \in [MispId -> Stamp]
    BY DEF PollerInv, PollerTypeOK
  <1>2. poll[s].batch # <<>>
    BY DEF PollerInv, SendEvent, HasEvent, Handling
  <1>3. raw \in Raw
    BY <1>1, <1>2 DEF PollT
  <1>4. [id |-> raw.id, ts |-> raw.ts] \in Item
    BY <1>3, PollerAssumption, TimeFacts DEF Raw, Item
  <1>5. RuntimeTypeOK' /\ taken' \in [MispId -> Stamp]
    BY <1>1, <1>3, <1>4, SendType, NewestType DEF SendEvent
  <1>6. Advance(poll[s]) \in PollT /\ HasEvent(Advance(poll[s]))
    BY <1>1, <1>2, AdvanceType
  <1>7. poll' = [poll EXCEPT ![s] = Advance(poll[s])]
    BY <1>1 DEF SendEvent
  <1> QED
    BY <1>1, <1>5, <1>6, <1>7, OnePoller DEF SendEvent

LEMMA RetractInv ==
  ASSUME PollerInv, NEW s \in Source, Retract(s), UNCHANGED runtimeVars
  PROVE  PollerInv'
  <1> DEFINE raw == Head(poll[s].batch)
  <1>1. /\ poll[s] \in PollT /\ poll \in [Source -> PollT]
        /\ RuntimeTypeOK /\ events \in [MispId -> Stamp] /\ cursor \in Stamp
        /\ taken \in [MispId -> Stamp] /\ missed \in [MispId -> Stamp]
    BY DEF PollerInv, PollerTypeOK
  <1>2. poll[s].batch # <<>>
    BY DEF PollerInv, Retract, HasEvent, Handling
  <1>3. raw \in Raw
    BY <1>1, <1>2 DEF PollT
  <1>4. RuntimeTypeOK' /\ taken' \in [MispId -> Stamp]
    BY <1>1, <1>3, NewestType DEF Retract, RuntimeTypeOK, runtimeVars
  <1>5. Advance(poll[s]) \in PollT /\ HasEvent(Advance(poll[s]))
    BY <1>1, <1>2, AdvanceType
  <1>6. poll' = [poll EXCEPT ![s] = Advance(poll[s])]
    BY <1>1 DEF Retract
  <1> QED
    BY <1>1, <1>4, <1>5, <1>6, OnePoller DEF Retract

\* The servers, the channel's other end and the process.
LEMMA SurroundingsInv ==
  ASSUME PollerInv, ServerStep \/ ChannelStep \/ ProcessStep
  PROVE  PollerInv'
  <1>1. CASE ServerStep
    <2>1. PICK s \in Source, e \in MispId, pub \in BOOLEAN : Edit(s, e, pub)
      BY <1>1 DEF ServerStep
    <2>2. now \in Stamp
      BY TimeFacts DEF PollerInv, PollerTypeOK, RuntimeTypeOK
    <2>3. misp' \in [Source -> [MispId -> [ts : Stamp, pub : BOOLEAN]]]
      BY <2>1, <2>2 DEF PollerInv, PollerTypeOK, Edit
    <2> QED
      BY <1>1, <2>1, <2>3
      DEF PollerInv, PollerTypeOK, RuntimeTypeOK, runtimeVars, ServerStep, Edit
  <1>2. CASE ChannelStep
    <2>1. queue \in Seq(Item) /\ Len(queue) <= QueueCap
      BY DEF PollerInv, PollerTypeOK, RuntimeTypeOK
    <2>2. queue' \in Seq(Item) /\ Len(queue') <= QueueCap
      <3>1. CASE Receive
        BY <2>1, <3>1, RuntimeAssumption DEF Receive
      <3>2. CASE \E id \in Event \ MispId : TrySend([id |-> id, ts |-> Never])
        <4>1. PICK id \in Event : TrySend([id |-> id, ts |-> Never])
          BY <3>2
        <4>2. [id |-> id, ts |-> Never] \in Item
          BY TimeFacts DEF Item
        <4> QED
          BY <2>1, <4>1, <4>2, AppendProperties, RuntimeAssumption DEF TrySend
      <3> QED
        BY <1>2, <3>1, <3>2 DEF ChannelStep
    <2> QED
      BY <1>2, <2>2
      DEF PollerInv, PollerTypeOK, RuntimeTypeOK, ChannelStep, pollerVars
  <1>3. CASE ProcessStep
    <2>1. CASE (Start \/ Cancel) /\ UNCHANGED <<now, queue, pollerVars>>
      BY <2>1 DEF Start, Cancel, PollerInv, PollerTypeOK, RuntimeTypeOK, pollerVars
    <2>2. CASE Die /\ PollersDie /\ UNCHANGED now
      <3>1. RuntimeTypeOK'
        BY <2>2, RuntimeAssumption, EmptySeq
        DEF Die, PollerInv, PollerTypeOK, RuntimeTypeOK
      <3>2. /\ poll' \in [Source -> PollT]
            /\ \A s \in Source : HasEvent(poll'[s])
        BY <2>2, IdleType DEF PollersDie
      <3> QED
        BY <2>2, <3>1, <3>2 DEF PollersDie, PollerInv, PollerTypeOK
    <2>3. CASE Tick /\ UNCHANGED <<run, queue, pollerVars>>
      BY <2>3, BaseAssumption
      DEF Tick, Time, PollerInv, PollerTypeOK, RuntimeTypeOK, pollerVars
    <2> QED
      BY <1>3, <2>1, <2>2, <2>3 DEF ProcessStep
  <1> QED
    BY <1>1, <1>2, <1>3

LEMMA NextPollerInv == PollerInv /\ [PollerNext]_pollerSystem => PollerInv'
  <1> SUFFICES ASSUME PollerInv, [PollerNext]_pollerSystem PROVE PollerInv'
    OBVIOUS
  <1>1. ASSUME NEW s \in Source, PollerStep(s) PROVE PollerInv'
    BY <1>1, QuietStepInv, SendEventInv, RetractInv DEF PollerStep
  <1>2. CASE ServerStep \/ ChannelStep \/ ProcessStep
    BY <1>2, SurroundingsInv
  <1>3. CASE UNCHANGED pollerSystem
    BY <1>3 DEF pollerSystem, runtimeVars, pollerVars, PollerInv, PollerTypeOK,
                RuntimeTypeOK
  <1> QED
    BY <1>1, <1>2, <1>3 DEF PollerNext

\* The pollers keep their types, never hold more in the channel than it takes, and
\* never look at an event of a page they have finished.
THEOREM PollerInvariant == PollerSpec => []PollerInv
  <1>1. PollerSystemInit => PollerInv
    BY InitPollerInv
  <1>2. PollerInv /\ [PollerNext]_pollerSystem => PollerInv'
    BY NextPollerInv
  <1> QED
    BY <1>1, <1>2, PTL DEF PollerSpec

\* The channel never exceeds its capacity and every variable of the pollers keeps
\* its type, for any capacity, page size and number of pages.
THEOREM PollerTypeCorrect == PollerSpec => []PollerTypeOK
  <1>1. PollerInv => PollerTypeOK
    BY DEF PollerInv
  <1> QED
    BY <1>1, PollerInvariant, PTL

-----------------------------------------------------------------------------
(* The cursor *)

\* The versions a poll that listed from this cursor can have fetched by now.
Fresh(since) == {r \in Raw : since <= r.ts /\ r.ts <= now}

\* What a poll fetched is neither older than where it listed from nor from the
\* future, and a poller that waits for its ticker has forgotten its last poll.
PollFresh(p) ==
    /\ p.pc \notin {"off", "idle"} =>
        /\ p.since <= now
        /\ p.batch \in Seq(Fresh(p.since))
        /\ p.maxTs # Never => p.since <= p.maxTs /\ p.maxTs <= now
    /\ p.pc = "idle" => p.batch = <<>> /\ p.maxTs = Never

CursorInv ==
    /\ PollerInv
    /\ cursor <= now
    /\ \A s \in Source, e \in MispId : misp[s][e].ts <= now
    /\ \A s \in Source : PollFresh(poll[s])

LEMMA InitCursorInv == PollerSystemInit => CursorInv
  BY InitPollerInv
  DEF PollerSystemInit, RuntimeInit, PollerInit, CursorInv, PollFresh, OffPoll, Pausing, Never

\* Time only widens what is fresh.
LEMMA FreshLater ==
  ASSUME CursorInv, now <= now', now' \in Time, UNCHANGED <<cursor, poll>>
  PROVE  /\ \A s \in Source : PollFresh(poll[s])'
         /\ (cursor <= now)'
  <1>1. now \in Int /\ now' \in Int /\ cursor \in Int
    BY TimeFacts DEF CursorInv, PollerInv, PollerTypeOK, RuntimeTypeOK
  <1>2. ASSUME NEW s \in Source PROVE PollFresh(poll[s])'
    <2>1. poll[s] \in PollT /\ poll'[s] = poll[s] /\ PollFresh(poll[s])
      BY DEF CursorInv, PollerInv, PollerTypeOK
    <2>2. Fresh(poll[s].since) \subseteq Fresh(poll[s].since)'
      <3>1. poll[s].since \in Int /\ \A r \in Raw : r.ts \in Int
        BY <2>1, TimeFacts DEF PollT, Raw
      <3> QED
        BY <1>1, <2>1, <3>1 DEF Fresh
    <2>3. Seq(Fresh(poll[s].since)) \subseteq Seq(Fresh(poll[s].since)')
      BY <2>2, SeqMonotonic
    <2>4. poll[s].maxTs \in Int /\ poll[s].since \in Int
      BY <2>1, TimeFacts DEF PollT
    <2> QED
      BY <1>1, <2>1, <2>3, <2>4 DEF PollFresh
  <1> QED
    BY <1>1, <1>2 DEF CursorInv

LEMMA AdvanceFresh ==
  ASSUME PollerInv, NEW p \in PollT, p.pc \in Handling, p.batch # <<>>,
         PollFresh(p)
  PROVE  PollFresh(Advance(p))
  <1>1. p.batch \in Seq(Fresh(p.since))
    BY DEF PollFresh, Handling
  <1>2. Tail(p.batch) \in Seq(Fresh(p.since))
    BY <1>1, HeadTailProperties
  <1>3. /\ Advance(p).batch = Tail(p.batch) /\ Advance(p).cold = p.cold
        /\ Advance(p).since = p.since /\ Advance(p).maxTs = p.maxTs
        /\ Advance(p).pc \in {"event", "fetch", "cursor"}
    BY DEF Advance, PollT
  <1> QED
    BY <1>2, <1>3 DEF PollFresh, Handling

\* A step of one poller that keeps the cursor: the others fetched what they fetched.
LEMMA OneCursor ==
  ASSUME CursorInv, PollerInv', NEW s \in Source, NEW p,
         poll' = [poll EXCEPT ![s] = p], PollFresh(p),
         UNCHANGED <<now, misp, cursor>>
  PROVE  CursorInv'
  <1>1. \A q \in Source : poll'[q] = IF q = s THEN p ELSE poll[q]
    BY DEF CursorInv, PollerInv, PollerTypeOK
  <1>2. \A q \in Source : PollFresh(poll'[q])
    BY <1>1 DEF CursorInv
  <1>3. \A q \in Source : PollFresh(poll[q])'
    BY <1>2 DEF PollFresh, Fresh
  <1> QED
    BY <1>3 DEF CursorInv

LEMMA FetchCursor ==
  ASSUME CursorInv, PollerInv', NEW s \in Source, Fetch(s),
         UNCHANGED runtimeVars
  PROVE  CursorInv'
  <1>1. /\ poll[s] \in PollT /\ PollFresh(poll[s])
        /\ poll \in [Source -> PollT] /\ poll[s].pc = "fetch"
        /\ now \in Int
    BY TimeFacts DEF CursorInv, PollerInv, PollerTypeOK, RuntimeTypeOK, Fetch
  <1> DEFINE since == poll[s].since
             S     == Listed(s, since)
  <1>2. PICK list \in Listings(S) :
          LET batch == Page(list, poll[s].page) IN
          poll' = [poll EXCEPT ![s] =
                     IF batch = <<>>
                       THEN [@ EXCEPT !.pc = "cursor"]
                       ELSE [@ EXCEPT !.pc = "event", !.batch = batch,
                                      !.full = Len(batch) = PageSize]]
    BY DEF Fetch
  <1> DEFINE batch == Page(list, poll[s].page)
             p == IF batch = <<>>
                    THEN [poll[s] EXCEPT !.pc = "cursor"]
                    ELSE [poll[s] EXCEPT !.pc = "event", !.batch = batch,
                                         !.full = Len(batch) = PageSize]
  <1>3. poll' = [poll EXCEPT ![s] = p]
    BY <1>1, <1>2
  <1>4. batch \in Seq(Fresh(since))
    <2>1. since \in Int /\ poll[s].page \in 0..MaxPages - 1
      BY <1>1 DEF PollT
    <2>2. /\ S \subseteq Raw /\ IsFiniteSet(S)
          /\ \A r \in S : r.ts >= since
      BY <2>1, ListedType DEF CursorInv, PollerInv
    <2>3. \A r \in S : r.ts <= now
      BY DEF CursorInv, Listed
    <2>4. S \subseteq Fresh(since)
      BY <2>1, <2>2, <2>3, TimeFacts DEF Fresh, Raw
    <2>5. batch \in Seq(S)
      BY <2>1, <2>2, PageType
    <2> QED
      BY <2>4, <2>5, SeqMonotonic
  <1> HIDE DEF batch
  <1>5. PollFresh(p)
    BY <1>1, <1>4 DEF PollFresh, PollT
  <1> QED
    BY <1>3, <1>5, OneCursor DEF Fetch, runtimeVars

LEMMA SeenFresh ==
  ASSUME NEW p \in PollT, p.pc = "event", p.batch # <<>>, PollFresh(p)
  PROVE  PollFresh(Seen(p))
  <1>1. Head(p.batch) \in Fresh(p.since)
    BY HeadTailProperties DEF PollFresh
  <1> QED
    BY <1>1, SeenType DEF PollFresh, Fresh

LEMMA ExamineCursor ==
  ASSUME CursorInv, PollerInv', NEW s \in Source, Examine(s),
         UNCHANGED runtimeVars
  PROVE  CursorInv'
  <1>1. /\ poll[s] \in PollT /\ PollFresh(poll[s])
        /\ poll \in [Source -> PollT] /\ poll[s].pc = "event"
        /\ poll[s].batch # <<>> /\ now \in Int
    BY TimeFacts DEF CursorInv, PollerInv, PollerTypeOK, RuntimeTypeOK, Examine,
                     HasEvent, Handling
  <1> DEFINE raw  == Head(poll[s].batch)
             seen == Seen(poll[s])
  <1>2. PICK existing \in Reading(events[raw.id]) :
          poll' = [poll EXCEPT ![s] =
                     IF existing # Never /\ ~raw.pub
                       THEN [seen EXCEPT !.pc = "retract"]
                       ELSE IF existing > raw.ts
                              THEN Advance(seen)
                              ELSE [seen EXCEPT !.pc = "store"]]
    BY DEF Examine
  <1>4. /\ seen \in PollT /\ seen.pc = "event" /\ seen.batch # <<>>
        /\ PollFresh(seen)
    BY <1>1, SeenFresh, SeenType
  <1> HIDE DEF seen
  <1>5. PollFresh(Advance(seen))
    BY <1>4, AdvanceFresh DEF CursorInv, Handling
  <1>6. /\ PollFresh([seen EXCEPT !.pc = "retract"])
        /\ PollFresh([seen EXCEPT !.pc = "store"])
    BY <1>4 DEF PollFresh, PollT
  <1> QED
    BY <1>1, <1>2, <1>5, <1>6, OneCursor DEF Examine, runtimeVars

\* The step the cursor moves in: not before the listing, and not past the clock.
LEMMA SaveCursorCursor ==
  ASSUME CursorInv, PollerInv', NEW s \in Source, SaveCursor(s),
         UNCHANGED runtimeVars
  PROVE  /\ CursorInv'
         /\ cursor' < cursor => /\ poll[s].pc = "cursor" /\ poll'[s].pc = "idle"
                               /\ poll[s].since < cursor
  <1>1. /\ poll[s] \in PollT /\ PollFresh(poll[s])
        /\ poll \in [Source -> PollT] /\ poll[s].pc = "cursor"
        /\ now \in Int /\ cursor \in Int /\ cursor <= now
        /\ poll[s].since \in Int /\ poll[s].maxTs \in Int
    BY TimeFacts DEF CursorInv, PollerInv, PollerTypeOK, RuntimeTypeOK, SaveCursor, PollT
  <1>2. cursor' = cursor \/ (cursor' \in Int /\ poll[s].since <= cursor' /\ cursor' <= now)
    BY <1>1 DEF SaveCursor, PollFresh
  <1>3. \A q \in Source : poll'[q] = IF q = s THEN IdlePoll(FALSE) ELSE poll[q]
    BY <1>1 DEF SaveCursor
  <1>4. \A q \in Source : PollFresh(poll[q])'
    <2>1. \A q \in Source : PollFresh(poll'[q])
      BY <1>3 DEF CursorInv, PollFresh, IdlePoll, Pausing
    <2> QED
      BY <2>1 DEF PollFresh, Fresh, runtimeVars
  <1>5. CursorInv'
    BY <1>1, <1>2, <1>4 DEF CursorInv, SaveCursor, runtimeVars
  <1>6. poll'[s].pc = "idle"
    BY <1>3 DEF IdlePoll, Pausing
  <1> QED
    BY <1>1, <1>2, <1>5, <1>6

\* The steps of the poller that keep the cursor and what was fetched.
LEMMA OtherPollCursor ==
  ASSUME CursorInv, PollerInv', NEW s \in Source, UNCHANGED <<now, run>>,
         \/ StartPoller(s) \/ BeginPoll(s) \/ FetchFails(s) \/ Store(s) \/ Quit(s)
         \/ SendEvent(s) \/ Retract(s) \/ RetractFails(s) \/ ExamineFails(s)
  PROVE  CursorInv'
  <1>1. /\ poll[s] \in PollT /\ PollFresh(poll[s])
        /\ poll \in [Source -> PollT] /\ HasEvent(poll[s])
    BY DEF CursorInv, PollerInv, PollerTypeOK
  <1>2. CASE StartPoller(s)
    <2>1. \A cold : PollFresh(IdlePoll(cold))
      BY DEF PollFresh, IdlePoll, Pausing
    <2> QED
      BY <1>2, <2>1, OneCursor DEF StartPoller
  <1>3. CASE BeginPoll(s)
    <2>0. PICK saved \in Reading(cursor) :
            poll' = [poll EXCEPT ![s].pc = "fetch",
                                 ![s].since = IF poll[s].cold THEN now - ColdWindow
                                                              ELSE saved]
      BY <1>3 DEF BeginPoll
    <2> DEFINE since == IF poll[s].cold THEN now - ColdWindow ELSE saved
               p     == [poll[s] EXCEPT !.pc = "fetch", !.since = since]
    <2>1. poll' = [poll EXCEPT ![s] = p]
      BY <1>1, <2>0
    <2>2. poll[s].batch = <<>> /\ poll[s].maxTs = Never
      BY <1>1, <1>3 DEF PollFresh, BeginPoll
    <2>3. <<>> \in Seq(Fresh(since))
      OBVIOUS
    <2>4. since <= now
      BY <2>0, TimeFacts, PollerAssumption
      DEF Reading, Never, CursorInv, PollerInv, PollerTypeOK, RuntimeTypeOK, Time
    <2>5. PollFresh(p)
      BY <1>1, <1>3, <2>2, <2>3, <2>4 DEF PollFresh, PollT, BeginPoll
    <2> QED
      BY <1>3, <2>1, <2>5, OneCursor DEF BeginPoll
  <1>4. CASE FetchFails(s)
    <2>1. PollFresh(IdlePoll(poll[s].cold))
      BY <1>1, <1>4 DEF FetchFails, PollFresh, IdlePoll, Pausing
    <2> QED
      BY <1>4, <2>1, OneCursor DEF FetchFails
  <1>5. CASE Store(s)
    <2> DEFINE p == [poll[s] EXCEPT !.pc = IF @ = "store" THEN "send" ELSE "suppress"]
    <2>1. poll' = [poll EXCEPT ![s] = p]
      BY <1>1, <1>5 DEF Store
    <2>2. PollFresh(p)
      BY <1>1, <1>5 DEF Store, PollFresh, PollT
    <2> QED
      BY <1>5, <2>1, <2>2, OneCursor DEF Store
  <1>6. CASE Quit(s)
    <2>1. PollFresh(OffPoll)
      BY DEF PollFresh, OffPoll, Pausing
    <2> QED
      BY <1>6, <2>1, OneCursor DEF Quit
  <1>7. CASE SendEvent(s) \/ Retract(s) \/ RetractFails(s)
    <2>1. /\ poll' = [poll EXCEPT ![s] = Advance(poll[s])]
          /\ poll[s].pc \in Handling /\ UNCHANGED <<misp, cursor>>
      BY <1>1, <1>7 DEF SendEvent, Retract, RetractFails, Handling
    <2>2. PollFresh(Advance(poll[s]))
      BY <1>1, <2>1, AdvanceFresh DEF HasEvent, CursorInv
    <2> QED
      BY <2>1, <2>2, OneCursor
  <1>8. CASE ExamineFails(s)
    <2>1. /\ poll' = [poll EXCEPT ![s] = Advance(Seen(poll[s]))]
          /\ poll[s].pc = "event" /\ UNCHANGED <<misp, cursor>>
      BY <1>1, <1>8 DEF ExamineFails
    <2>2. poll[s].batch # <<>>
      BY <1>1, <2>1 DEF HasEvent, Handling
    <2>3. Seen(poll[s]) \in PollT /\ Seen(poll[s]).pc = "event" /\ Seen(poll[s]).batch # <<>>
      BY <1>1, <2>1, <2>2, SeenType
    <2>4. PollFresh(Advance(Seen(poll[s])))
      BY <1>1, <2>1, <2>2, <2>3, SeenFresh, AdvanceFresh DEF CursorInv, Handling
    <2> QED
      BY <2>1, <2>4, OneCursor
  <1> QED
    BY <1>2, <1>3, <1>4, <1>5, <1>6, <1>7, <1>8

LEMMA SurroundingsCursor ==
  ASSUME CursorInv, PollerInv', ServerStep \/ ChannelStep \/ ProcessStep
  PROVE  CursorInv'
  <1>1. now \in Int /\ cursor \in Int
    BY TimeFacts DEF CursorInv, PollerInv, PollerTypeOK, RuntimeTypeOK
  <1>2. CASE ServerStep
    <2>1. PICK s \in Source, e \in MispId, pub \in BOOLEAN : Edit(s, e, pub)
      BY <1>2 DEF ServerStep
    <2>2. \A q \in Source, f \in MispId : misp'[q][f].ts <= now
      BY <1>1, <2>1 DEF CursorInv, PollerInv, PollerTypeOK, Edit
    <2>3. UNCHANGED <<now, cursor, poll>>
      BY <1>2, <2>1 DEF ServerStep, Edit, runtimeVars
    <2> QED
      BY <2>2, <2>3 DEF CursorInv, PollFresh, Fresh
  <1>3. CASE ChannelStep
    BY <1>3 DEF ChannelStep, pollerVars, CursorInv, PollFresh, Fresh
  <1>4. CASE ProcessStep
    <2>1. CASE Tick /\ UNCHANGED <<run, queue, pollerVars>>
      <3>1. now' \in Time /\ now <= now' /\ UNCHANGED <<misp, cursor, poll>>
        BY <1>1, <2>1 DEF Tick, pollerVars, PollerInv, PollerTypeOK, RuntimeTypeOK
      <3>2. \A s \in Source, e \in MispId : misp'[s][e].ts <= now'
        <4>1. \A s \in Source, e \in MispId : misp[s][e].ts \in Int
          BY TimeFacts DEF CursorInv, PollerInv, PollerTypeOK
        <4> QED
          BY <1>1, <2>1, <3>1, <4>1 DEF CursorInv, Tick
      <3> QED
        BY <3>1, <3>2, FreshLater DEF CursorInv
    <2>2. CASE Die /\ PollersDie /\ UNCHANGED now
      <3>1. \A s \in Source : poll'[s] = OffPoll
        BY <2>2 DEF PollersDie
      <3>2. \A s \in Source : PollFresh(poll[s])'
        BY <3>1 DEF PollFresh, OffPoll, Pausing
      <3> QED
        BY <2>2, <3>2 DEF PollersDie, CursorInv
    <2>3. CASE (Start \/ Cancel) /\ UNCHANGED <<now, queue, pollerVars>>
      BY <2>3 DEF pollerVars, CursorInv, PollFresh, Fresh
    <2> QED
      BY <1>4, <2>1, <2>2, <2>3 DEF ProcessStep
  <1> QED
    BY <1>2, <1>3, <1>4

\* The cursor moves back only at the end of a poll that listed from before it.
Kept == cursor' < cursor =>
            \E s \in Source : /\ poll[s].pc = "cursor" /\ poll'[s].pc = "idle"
                              /\ poll[s].since < cursor

LEMMA NextCursorInv ==
  ASSUME CursorInv, [PollerNext]_pollerSystem
  PROVE  CursorInv' /\ Kept
  <1>1. PollerInv'
    BY NextPollerInv DEF CursorInv
  <1>2. cursor \in Int
    BY TimeFacts DEF CursorInv, PollerInv, PollerTypeOK
  <1>3. cursor' = cursor => Kept
    BY <1>2 DEF Kept
  <1>4. ASSUME NEW s \in Source, PollerStep(s)
        PROVE  CursorInv' /\ Kept
    <2>1. CASE SaveCursor(s) /\ UNCHANGED runtimeVars
      BY <1>1, <2>1, SaveCursorCursor DEF Kept
    <2>2. CASE (Fetch(s) \/ Examine(s)) /\ UNCHANGED runtimeVars
      <3>1. CursorInv'
        BY <1>1, <2>2, FetchCursor, ExamineCursor, Zenon
      <3>2. cursor' = cursor
        BY <2>2 DEF Fetch, Examine
      <3> QED
        BY <1>3, <3>1, <3>2
    <2>3. CASE /\ UNCHANGED <<now, run>>
               /\ \/ StartPoller(s) \/ BeginPoll(s) \/ FetchFails(s) \/ Store(s)
                  \/ Quit(s) \/ SendEvent(s) \/ Retract(s) \/ RetractFails(s)
                  \/ ExamineFails(s)
      <3>1. CursorInv'
        BY <1>1, <2>3, OtherPollCursor
      <3>2. cursor' = cursor
        BY <2>3 DEF StartPoller, BeginPoll, FetchFails, Store, Quit, SendEvent, Retract,
                    RetractFails, ExamineFails
      <3> QED
        BY <1>3, <3>1, <3>2
    <2> QED
      BY <1>4, <2>1, <2>2, <2>3 DEF PollerStep, QuietStep, runtimeVars
  <1>5. CASE ServerStep \/ ChannelStep \/ ProcessStep
    <2>1. cursor' = cursor
      BY <1>5 DEF ServerStep, Edit, ChannelStep, ProcessStep, PollersDie, pollerVars
    <2> QED
      BY <1>1, <1>3, <1>5, <2>1, SurroundingsCursor
  <1>6. CASE UNCHANGED pollerSystem
    BY <1>1, <1>3, <1>6
    DEF pollerSystem, runtimeVars, pollerVars, CursorInv, PollFresh, Fresh
  <1> QED
    BY <1>4, <1>5, <1>6 DEF PollerNext

\* A poll that listed from the cursor never stores an older one, whatever pages,
\* faults, restarts and edits come between its listing and the end of the poll, for
\* any number of sources that share the row.
THEOREM CursorOnlyKept == PollerSpec => CursorKept
  <1>1. PollerSystemInit => CursorInv
    BY InitCursorInv
  <1>2. CursorInv /\ [PollerNext]_pollerSystem => CursorInv' /\ [Kept]_pollerSystem
    BY NextCursorInv
  <1> QED
    BY <1>1, <1>2, PTL DEF PollerSpec, CursorKept, Kept

=============================================================================
