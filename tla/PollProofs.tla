----------------------------- MODULE PollProofs -----------------------------
(***************************************************************************)
(* Proofs of what the MISP pollers promise: with one source, the channel   *)
(* holds the versions of an event in order; and where its server is quiet  *)
(* during a poll, and lists by time stamp or on one page, none is skipped. *)
(***************************************************************************)
EXTENDS MispPollerProofs

\* The row misp_cursor is no one else's.
OneSource == \A s, q \in Source : s = q

\* Positions of a sequence.
Places(s) == 1..Len(s)

-----------------------------------------------------------------------------
(* The versions of an event are sent in order *)

\* Every item of the channel has been taken, and no copy of an event is behind a newer
\* one. Events of other sources have no time stamp.
QueueInOrder ==
    /\ \A i \in Places(queue) : IF queue[i].id \in MispId
                                  THEN queue[i].ts <= taken[queue[i].id]
                                  ELSE queue[i].ts = Never
    /\ \A i, j \in Places(queue) :
         i < j /\ queue[i].id = queue[j].id => queue[i].ts <= queue[j].ts

\* What is left of a page has one version of each event, between the last that was taken
\* and the server's.
InOrder(s, batch) ==
    /\ \A i \in Places(batch) : /\ taken[batch[i].id] <= batch[i].ts
                                /\ batch[i].ts <= misp[s][batch[i].id].ts
    /\ \A i, j \in Places(batch) : i # j => batch[i].id # batch[j].id

OrderInv ==
    /\ CursorInv
    /\ QueueInOrder
    /\ \A s \in Source : InOrder(s, poll[s].batch)
    /\ \A s \in Source, e \in MispId : /\ events[e] <= misp[s][e].ts
                                       /\ taken[e] <= misp[s][e].ts

\* The types of what a poller has in hand.
LEMMA BatchFacts ==
  ASSUME PollerInv, NEW s \in Source
  PROVE  /\ poll[s] \in PollT /\ poll \in [Source -> PollT]
         /\ poll[s].batch \in Seq(Raw) /\ \A r \in Raw : r.ts \in Int
         /\ poll[s].pc \in Handling =>
              /\ poll[s].batch # <<>> /\ Head(poll[s].batch) = poll[s].batch[1]
              /\ Head(poll[s].batch) \in Raw /\ 1 \in Places(poll[s].batch)
  <1>1. poll[s] \in PollT /\ poll \in [Source -> PollT] /\ HasEvent(poll[s])
    BY DEF PollerInv, PollerTypeOK
  <1>2. poll[s].batch \in Seq(Raw) /\ \A r \in Raw : r.ts \in Int
    BY <1>1, TimeFacts DEF PollT, Raw
  <1>3. ASSUME NEW batch \in Seq(Raw), batch # <<>>
        PROVE  Head(batch) = batch[1] /\ Head(batch) \in Raw /\ 1 \in Places(batch)
    BY <1>3, HeadTailProperties, EmptySeq DEF Places
  <1> QED
    BY <1>1, <1>2, <1>3 DEF HasEvent

\* The places of the rest of a sequence.
LEMMA TailPlaces ==
  ASSUME NEW S, NEW seq \in Seq(S), seq # <<>>
  PROVE  /\ Tail(seq) \in Seq(S)
         /\ \A i \in Places(Tail(seq)) : i + 1 \in Places(seq) /\ Tail(seq)[i] = seq[i + 1]
         /\ \A i \in Places(seq) \ {1} : i - 1 \in Places(Tail(seq))
  BY HeadTailProperties, EmptySeq, LenProperties DEF Places

\* What is at the places of a sequence.
LEMMA AtPlaces ==
  ASSUME NEW S, NEW seq \in Seq(S)
  PROVE  /\ Len(seq) \in Nat
         /\ \A i \in Places(seq) : i \in Int /\ 1 <= i /\ i <= Len(seq) /\ seq[i] \in S
  BY ElementOfSeq, LenProperties DEF Places

LEMMA ItemFacts ==
  ASSUME PollerTypeOK
  PROVE  /\ queue \in Seq(Item)
         /\ \A i \in Places(queue) : queue[i] \in Item
         /\ \A item \in Item : item.ts \in Int /\ item.id \in Event
  <1>1. queue \in Seq(Item)
    BY DEF PollerTypeOK, RuntimeTypeOK
  <1>2. \A item \in Item : item.ts \in Int /\ item.id \in Event
    BY TimeFacts DEF Item
  <1> QED
    BY <1>1, <1>2, AtPlaces

LEMMA EmptyInOrder ==
  ASSUME NEW s
  PROVE  InOrder(s, <<>>)
  BY DEF InOrder, Places

LEMMA TailInOrder ==
  ASSUME NEW s, NEW batch \in Seq(Raw), batch # <<>>, InOrder(s, batch)
  PROVE  InOrder(s, Tail(batch))
  <1>1. ASSUME NEW i \in Places(Tail(batch))
        PROVE  i + 1 \in Places(batch) /\ Tail(batch)[i] = batch[i + 1] /\ i \in Int
    BY TailPlaces DEF Places
  <1>2. \A i, j \in Places(Tail(batch)) : i # j => i + 1 # j + 1
    BY <1>1
  <1> QED
    BY <1>1, <1>2, ZenonT(40) DEF InOrder

LEMMA InitOrder == PollerSystemInit => OrderInv
  <1> SUFFICES ASSUME PollerSystemInit PROVE OrderInv
    OBVIOUS
  <1>1. CursorInv
    BY InitCursorInv
  <1>2. queue = <<>> /\ \A s \in Source : poll[s].batch = <<>>
    BY DEF PollerSystemInit, RuntimeInit, PollerInit, OffPoll, Pausing
  <1>3. \A s \in Source, e \in MispId : events[e] = misp[s][e].ts /\ taken[e] = misp[s][e].ts
                                       /\ misp[s][e].ts \in Int
    BY TimeFacts DEF PollerSystemInit, PollerInit
  <1> QED
    BY <1>1, <1>2, <1>3, EmptyInOrder DEF OrderInv, QueueInOrder, Places

\* A step of a poller that keeps its page, drops its first event or empties it.
LEMMA KeepsOrder ==
  ASSUME OrderInv, CursorInv', NEW s \in Source, NEW p,
         poll' = [poll EXCEPT ![s] = p],
         \/ p.batch \in {poll[s].batch, <<>>}
         \/ p.batch = Tail(poll[s].batch) /\ poll[s].batch # <<>>,
         UNCHANGED <<queue, misp, events, taken>>
  PROVE  OrderInv'
  <1>1. \A q \in Source : poll'[q] = IF q = s THEN p ELSE poll[q]
    BY BatchFacts DEF OrderInv, CursorInv
  <1>2. InOrder(s, p.batch)
    BY BatchFacts, EmptyInOrder, TailInOrder DEF OrderInv, CursorInv
  <1>3. \A q \in Source : InOrder(q, poll'[q].batch)
    BY <1>1, <1>2 DEF OrderInv
  <1>4. \A q \in Source : InOrder(q, poll[q].batch)'
    BY <1>3 DEF InOrder
  <1> QED
    BY <1>4 DEF OrderInv, QueueInOrder

\* Whatever Advance decides, the first event is behind it.
LEMMA AdvanceTail ==
  ASSUME NEW p \in PollT
  PROVE  /\ Advance(p).batch = Tail(p.batch) /\ Advance(p).maxTs = p.maxTs
         /\ Advance(p).since = p.since /\ Advance(p).full = p.full
         /\ \/ Advance(p).pc = "event" /\ Advance(p).page = p.page
            \/ /\ Advance(p).pc = "fetch" /\ Advance(p).page = p.page + 1
               /\ Tail(p.batch) = <<>>
            \/ /\ Advance(p).pc = "cursor" /\ Advance(p).page = p.page
               /\ Tail(p.batch) = <<>>
  BY DEF Advance, PollT

\* The steps that neither fetch nor store nor send.
LEMMA QuietOrder ==
  ASSUME OrderInv, CursorInv', NEW s \in Source, UNCHANGED runtimeVars,
         \/ StartPoller(s) \/ BeginPoll(s) \/ FetchFails(s)
         \/ Examine(s) \/ ExamineFails(s) \/ RetractFails(s) \/ SaveCursor(s) \/ Quit(s)
  PROVE  OrderInv'
  <1>1. poll[s] \in PollT /\ poll \in [Source -> PollT] /\ queue' = queue
    BY BatchFacts DEF OrderInv, CursorInv, runtimeVars
  <1>2. CASE StartPoller(s) \/ FetchFails(s) \/ SaveCursor(s) \/ Quit(s)
    <2> DEFINE Pauses == {OffPoll, IdlePoll(poll[s].cold), IdlePoll(TRUE), IdlePoll(FALSE)}
    <2>1. PICK p \in Pauses : poll' = [poll EXCEPT ![s] = p]
      BY <1>2 DEF StartPoller, FetchFails, SaveCursor, Quit
    <2>3. p.batch = <<>>
      BY <2>1 DEF IdlePoll, OffPoll, Pausing
    <2>2. UNCHANGED <<misp, events, taken>>
      BY <1>2 DEF StartPoller, FetchFails, SaveCursor, Quit
    <2> QED
      BY <1>1, <2>1, <2>2, <2>3, KeepsOrder
  <1>3. CASE BeginPoll(s)
    <2>1. PICK since : poll' = [poll EXCEPT ![s] = [poll[s] EXCEPT !.pc = "fetch", !.since = since]]
      BY <1>1, <1>3, ZenonT(40) DEF BeginPoll
    <2>2. [poll[s] EXCEPT !.pc = "fetch", !.since = since].batch = poll[s].batch
      BY <1>1 DEF PollT
    <2> QED
      BY <1>1, <1>3, <2>1, <2>2, KeepsOrder DEF BeginPoll
  <1>4. CASE Examine(s)
    <2> DEFINE raw  == Head(poll[s].batch)
               seen == Seen(poll[s])
    <2>1. PICK p \in {[seen EXCEPT !.pc = "retract"], Advance(seen), [seen EXCEPT !.pc = "store"]} :
            poll' = [poll EXCEPT ![s] = p]
      BY <1>4, ZenonT(40) DEF Examine
    <2>2. poll[s].batch # <<>> /\ raw \in Raw
      BY <1>4, BatchFacts DEF OrderInv, CursorInv, Examine, Handling
    <2>3. seen \in PollT /\ seen.batch = poll[s].batch
      BY <1>1, <2>2, SeenType
    <2>4. p.batch = poll[s].batch \/ p.batch = Tail(poll[s].batch)
      <3> HIDE DEF seen
      <3> QED
        BY <2>1, <2>3, AdvanceTail DEF PollT
    <2> QED
      BY <1>1, <1>4, <2>1, <2>2, <2>4, KeepsOrder, ZenonT(40) DEF Examine
  <1>5. CASE ExamineFails(s) \/ RetractFails(s)
    <2>1. PICK p \in {poll[s], Seen(poll[s])} : poll' = [poll EXCEPT ![s] = Advance(p)]
      BY <1>5 DEF ExamineFails, RetractFails
    <2>2. poll[s].batch # <<>>
      BY <1>5, BatchFacts DEF OrderInv, CursorInv, ExamineFails, RetractFails, Handling
    <2>3. Advance(p).batch = Tail(poll[s].batch)
      BY <1>1, <2>1, <2>2, SeenType, AdvanceTail
    <2>4. UNCHANGED <<misp, events, taken>>
      BY <1>5 DEF ExamineFails, RetractFails
    <2> QED
      BY <1>1, <2>1, <2>2, <2>3, <2>4, KeepsOrder
  <1> QED
    BY <1>2, <1>3, <1>4, <1>5

-----------------------------------------------------------------------------
(* Listings and pages *)

\* Two listed versions are ordered one way.
LEMMA PrecedesOrders ==
  ASSUME NEW r \in Raw, NEW q \in Raw
  PROVE  ~(Precedes(r, q) /\ Precedes(q, r))
  <1>1. \A x \in Raw : x.ts \in Int /\ x.id \in Int
    <2>1. Time \subseteq Int /\ MispId \subseteq Int
      BY TimeFacts, PollerAssumption
    <2> QED
      BY <2>1 DEF Raw
  <1> QED
    BY <1>1 DEF Precedes

\* A listing holds each of the versions once.
LEMMA ListingFacts ==
  ASSUME NEW S, IsFiniteSet(S), S \subseteq Raw, NEW list \in Listings(S)
  PROVE  /\ list \in Seq(S) /\ Len(list) = Cardinality(S) /\ Cardinality(S) \in Nat
         /\ \A i, j \in Places(list) : i < j => Precedes(list[i], list[j])
         /\ \A i, j \in Places(list) : i # j => list[i] # list[j]
         /\ \A r \in S : \E i \in Places(list) : list[i] = r
  <1>1. Cardinality(S) \in Nat
    BY FS_CardinalityType
  <1>2. list \in [1..Cardinality(S) -> S]
    BY DEF Listings
  <1>3. list \in Seq(S) /\ Len(list) = Cardinality(S)
    BY <1>1, <1>2
  <1>4. \A i, j \in Places(list) : i < j => Precedes(list[i], list[j])
    BY <1>1, <1>2, <1>3 DEF Listings, Places
  <1>5. ASSUME NEW i \in Places(list), NEW j \in Places(list), i # j
        PROVE  list[i] # list[j]
    <2>1. list[i] \in Raw /\ list[j] \in Raw /\ i \in Int /\ j \in Int
      BY <1>2, <1>3 DEF Places
    <2> QED
      BY <1>4, <1>5, <2>1, PrecedesOrders
  <1>6. list \in Injection(1..Cardinality(S), S)
    BY <1>2, <1>3, <1>5 DEF Injection, IsInjective, Places
  <1>7. list \in Surjection(1..Cardinality(S), S)
    <2>1. Cardinality(1..Cardinality(S)) = Cardinality(S)
      BY <1>1, FS_Interval
    <2> QED
      BY <1>6, <2>1, FS_Injection
  <1>8. \A r \in S : \E i \in Places(list) : list[i] = r
    BY <1>3, <1>7 DEF Surjection, Places
  <1> QED
    BY <1>1, <1>3, <1>4, <1>5, <1>8

\* A page is the next stretch of the listing, and is short only at its end.
LEMMA PageFacts ==
  ASSUME NEW S, NEW list \in Seq(S), NEW page \in 0..MaxPages - 1
  PROVE  /\ Page(list, page) \in Seq(S)
         /\ \A i \in Places(Page(list, page)) :
              /\ page * PageSize + i \in Places(list)
              /\ page * PageSize + i <= (page + 1) * PageSize
              /\ Page(list, page)[i] = list[page * PageSize + i]
         /\ \A k \in Places(list) :
              page * PageSize < k /\ k <= (page + 1) * PageSize
                => k - page * PageSize \in Places(Page(list, page))
         /\ Len(Page(list, page)) # PageSize => Len(list) <= (page + 1) * PageSize
         /\ Page(list, page) = <<>> => Len(list) <= page * PageSize
         /\ Len(Page(list, page)) <= Len(list)
  <1> DEFINE before == page * PageSize
             last   == (page + 1) * PageSize
             stop   == IF last < Len(list) THEN last ELSE Len(list)
             batch  == Page(list, page)
  <1>1. before \in Nat /\ last = before + PageSize /\ PageSize \in Nat \ {0}
    BY PollerAssumption
  <1>2. batch = SubSeq(list, before + 1, stop)
    BY DEF Page
  <1>3. Len(list) \in Nat
    BY LenProperties
  <1> HIDE DEF before, last, batch
  <1>4. \A i \in before + 1..stop : list[i] \in S
    BY <1>1, <1>3, ElementOfSeq
  <1>5. /\ batch \in Seq(S)
        /\ Len(batch) = IF before + 1 <= stop THEN stop - before ELSE 0
        /\ \A i \in 1..stop - before : batch[i] = list[before + i]
    <2>1. stop \in Int /\ stop <= Len(list)
      BY <1>1, <1>3
    <2> HIDE DEF stop
    <2> QED
      BY <1>1, <1>2, <1>3, <1>4, <2>1, SubSeqProperties
  <1>6. \A i \in Places(batch) : /\ before + i \in Places(list) /\ before + i <= last
                                 /\ batch[i] = list[before + i]
    BY <1>1, <1>3, <1>5 DEF Places
  <1>7. \A k \in Places(list) : before < k /\ k <= last => k - before \in Places(batch)
    BY <1>1, <1>3, <1>5 DEF Places
  <1>8. Len(batch) # PageSize => Len(list) <= last
    BY <1>1, <1>3, <1>5
  <1>9. batch = <<>> => Len(list) <= before
    BY <1>1, <1>3, <1>5
  <1>10. Len(batch) <= Len(list)
    BY <1>1, <1>3, <1>5
  <1> QED
    BY <1>5, <1>6, <1>7, <1>8, <1>9, <1>10 DEF before, last, batch

-----------------------------------------------------------------------------
(* The order is kept *)

\* What a fetch does: the poller has a page of a listing.
LEMMA FetchTakes ==
  ASSUME PollerInv, NEW s \in Source, Fetch(s)
  PROVE  LET S == Listed(s, poll[s].since)
             page == poll[s].page
         IN  /\ S \subseteq Raw /\ IsFiniteSet(S) /\ page \in 0..MaxPages - 1
             /\ \E list \in Listings(S) :
                  /\ Page(list, page) \in Seq(S)
                  /\ poll' = [poll EXCEPT ![s] =
                       IF Page(list, page) = <<>>
                         THEN [poll[s] EXCEPT !.pc = "cursor"]
                         ELSE [poll[s] EXCEPT !.pc = "event", !.batch = Page(list, page),
                                  !.full = Len(Page(list, page)) = PageSize]]
  <1> DEFINE S == Listed(s, poll[s].since)
             page == poll[s].page
  <1>1. poll[s] \in PollT /\ poll \in [Source -> PollT]
    BY BatchFacts
  <1>2. poll[s].since \in Int /\ page \in 0..MaxPages - 1
    BY <1>1 DEF PollT
  <1>3. S \subseteq Raw /\ IsFiniteSet(S)
    BY <1>2, ListedType DEF PollerInv
  <1>4. \A list \in Listings(S) : Page(list, page) \in Seq(S)
    BY <1>2, <1>3, PageType
  <1> HIDE DEF S, page
  <1> QED
    BY <1>1, <1>2, <1>3, <1>4 DEF Fetch, S, page

\* What is listed is the server's version of the event.
LEMMA ListedVersions ==
  ASSUME NEW s \in Source, NEW since, NEW r \in Listed(s, since)
  PROVE  /\ r.id \in MispId /\ r.ts = misp[s][r.id].ts /\ r.ts # Never /\ r.ts >= since
         /\ \A q \in Listed(s, since) : q.id = r.id => q = r
  BY DEF Listed

LEMMA FetchOrder ==
  ASSUME OrderInv, CursorInv', NEW s \in Source, Fetch(s), UNCHANGED runtimeVars
  PROVE  OrderInv'
  <1> DEFINE S == Listed(s, poll[s].since)
             page == poll[s].page
  <1>1. /\ S \subseteq Raw /\ IsFiniteSet(S) /\ page \in 0..MaxPages - 1
        /\ poll[s] \in PollT /\ poll \in [Source -> PollT]
    BY FetchTakes, BatchFacts DEF OrderInv, CursorInv
  <1>2. PICK list \in Listings(S) :
          /\ Page(list, page) \in Seq(S)
          /\ poll' = [poll EXCEPT ![s] =
               IF Page(list, page) = <<>>
                 THEN [poll[s] EXCEPT !.pc = "cursor"]
                 ELSE [poll[s] EXCEPT !.pc = "event", !.batch = Page(list, page),
                          !.full = Len(Page(list, page)) = PageSize]]
    BY FetchTakes DEF OrderInv, CursorInv
  <1> DEFINE batch == Page(list, page)
  <1>3. InOrder(s, batch)
    <2>1. /\ list \in Seq(S)
          /\ \A i, j \in Places(list) : i # j => list[i] # list[j]
      BY <1>1, ListingFacts
    <2>2. \A i \in Places(batch) : /\ page * PageSize + i \in Places(list)
                                   /\ batch[i] = list[page * PageSize + i]
                                   /\ batch[i] \in S /\ i \in Int
      <3>1. \A i \in Places(batch) : batch[i] \in S /\ i \in Int
        BY <1>2, ElementOfSeq DEF Places
      <3> QED
        BY <1>1, <2>1, <3>1, PageFacts
    <2> HIDE DEF S, page, batch
    <2>3. \A i, j \in Places(batch) : i # j => batch[i] # batch[j]
      <3> DEFINE before == page * PageSize
      <3>1. before \in Int
        BY <1>1, PollerAssumption
      <3> HIDE DEF before
      <3>2. \A i \in Places(batch) : /\ before + i \in Places(list) /\ i \in Int
                                     /\ batch[i] = list[before + i]
        BY <2>2 DEF before
      <3>3. ASSUME NEW i \in Places(batch), NEW j \in Places(batch), i # j
            PROVE  batch[i] # batch[j]
        <4>1. i \in Int /\ j \in Int
          BY <3>2
        <4>2. before + i # before + j
          BY <3>1, <3>3, <4>1
        <4> QED
          BY <2>1, <3>2, <4>2
      <3> QED
        BY <3>3
    <2>4. \A r \in S : /\ r.id \in MispId /\ r.ts = misp[s][r.id].ts
                       /\ \A q \in S : q.id = r.id => q = r
      BY ListedVersions DEF S
    <2>5. \A e \in MispId : taken[e] <= misp[s][e].ts /\ misp[s][e].ts \in Int
      BY TimeFacts DEF OrderInv, CursorInv, PollerInv, PollerTypeOK
    <2> QED
      BY <2>2, <2>3, <2>4, <2>5 DEF InOrder
  <1> DEFINE p == IF batch = <<>>
                    THEN [poll[s] EXCEPT !.pc = "cursor"]
                    ELSE [poll[s] EXCEPT !.pc = "event", !.batch = batch,
                                         !.full = Len(batch) = PageSize]
  <1>4. poll' = [poll EXCEPT ![s] = p] /\ p.batch \in {poll[s].batch, batch}
    <2>1. poll' = [poll EXCEPT ![s] = p]
      BY <1>2
    <2> HIDE DEF batch
    <2>2. p.batch \in {poll[s].batch, batch}
      BY <1>1 DEF PollT
    <2> QED
      BY <2>1, <2>2
  <1> HIDE DEF batch, p
  <1>5. \A q \in Source : poll'[q] = IF q = s THEN p ELSE poll[q]
    BY <1>1, <1>4
  <1>6. \A q \in Source : InOrder(q, poll'[q].batch)
    BY <1>3, <1>4, <1>5 DEF OrderInv
  <1>7. UNCHANGED <<queue, misp, events, taken>>
    BY DEF Fetch, runtimeVars
  <1>8. \A q \in Source : InOrder(q, poll[q].batch)'
    BY <1>6, <1>7 DEF InOrder
  <1> QED
    BY <1>7, <1>8 DEF OrderInv, QueueInOrder

LEMMA StoreOrder ==
  ASSUME OneSource, OrderInv, CursorInv', NEW s \in Source, Store(s), UNCHANGED runtimeVars
  PROVE  OrderInv'
  <1> DEFINE raw == Head(poll[s].batch)
  <1>1. /\ poll[s] \in PollT /\ poll \in [Source -> PollT]
        /\ raw \in Raw /\ raw = poll[s].batch[1] /\ 1 \in Places(poll[s].batch)
    BY BatchFacts DEF OrderInv, CursorInv, Store, Handling
  <1>2. raw.ts <= misp[s][raw.id].ts /\ raw.id \in MispId
    BY <1>1 DEF OrderInv, InOrder, Raw
  <1>3. events \in [MispId -> Stamp]
    BY DEF OrderInv, CursorInv, PollerInv, PollerTypeOK
  <1>4. \A q \in Source, e \in MispId : events'[e] <= misp[q][e].ts
    <2>1. \A e \in MispId : events'[e] = events[e] \/ (e = raw.id /\ events'[e] = raw.ts)
      BY <1>2, <1>3 DEF Store
    <2> QED
      BY <1>2, <2>1 DEF OneSource, OrderInv
  <1>5. \A q \in Source : poll'[q].batch = poll[q].batch
    BY <1>1 DEF Store, PollT
  <1>6. UNCHANGED <<queue, misp, taken>>
    BY DEF Store, runtimeVars
  <1>7. \A q \in Source : InOrder(q, poll[q].batch)'
    BY <1>5, <1>6, SMTT(30) DEF OrderInv, InOrder
  <1> QED
    BY <1>4, <1>6, <1>7 DEF OrderInv, QueueInOrder

\* The first event of the page is taken: it is no older than what was taken before.
LEMMA TakeFacts ==
  ASSUME OneSource, OrderInv, NEW s \in Source, SendEvent(s) \/ Retract(s)
  PROVE  LET raw == Head(poll[s].batch)
         IN  /\ raw \in Raw /\ raw.id \in MispId /\ raw.ts \in Int
             /\ taken[raw.id] <= raw.ts
             /\ taken' = [taken EXCEPT ![raw.id] = raw.ts]
             /\ \A q \in Source, e \in MispId : taken'[e] <= misp[q][e].ts
             /\ \A e \in MispId : taken[e] <= taken'[e]
             /\ poll' = [poll EXCEPT ![s] = Advance(poll[s])]
             /\ \A q \in Source : q = s /\ poll'[q].batch = Tail(poll[q].batch)
             /\ \A q \in Source : InOrder(q, poll[q].batch)'
  <1> DEFINE raw == Head(poll[s].batch)
             batch == poll[s].batch
  <1>1. /\ poll[s] \in PollT /\ poll \in [Source -> PollT]
        /\ raw \in Raw /\ raw = batch[1] /\ 1 \in Places(batch)
        /\ batch \in Seq(Raw) /\ batch # <<>> /\ raw.ts \in Int
    BY BatchFacts DEF OrderInv, CursorInv, SendEvent, Retract, Handling
  <1>2. /\ raw.ts <= misp[s][raw.id].ts /\ raw.id \in MispId
        /\ taken[raw.id] <= raw.ts
    BY <1>1 DEF OrderInv, InOrder, Raw
  <1>3. taken \in [MispId -> Stamp] /\ \A e \in MispId : taken[e] \in Int
    BY TimeFacts DEF OrderInv, CursorInv, PollerInv, PollerTypeOK
  <1>4. taken' = [taken EXCEPT ![raw.id] = raw.ts]
    <2>1. taken' = [taken EXCEPT ![raw.id] = IF raw.ts > taken[raw.id] THEN raw.ts
                                                                       ELSE taken[raw.id]]
      BY <1>2, <1>3 DEF SendEvent, Retract, Newest
    <2>2. ~(raw.ts > taken[raw.id]) => taken[raw.id] = raw.ts
      BY <1>1, <1>2, <1>3
    <2> QED
      BY <2>1, <2>2
  <1>5. \A e \in MispId : taken'[e] = IF e = raw.id THEN raw.ts ELSE taken[e]
    BY <1>3, <1>4
  <1>6. \A q \in Source, e \in MispId : taken'[e] <= misp[q][e].ts
    BY <1>2, <1>5 DEF OneSource, OrderInv
  <1>7. \A e \in MispId : taken[e] <= taken'[e]
    BY <1>2, <1>3, <1>5
  <1>8. poll' = [poll EXCEPT ![s] = Advance(poll[s])]
    BY <1>1 DEF SendEvent, Retract
  <1>9. \A q \in Source : q = s /\ poll'[q].batch = Tail(poll[q].batch)
    BY <1>1, <1>8, AdvanceTail DEF OneSource
  <1>10. ASSUME NEW q \in Source PROVE InOrder(q, poll[q].batch)'
    <2>1. q = s /\ poll'[q].batch = Tail(batch) /\ misp' = misp
      BY <1>9 DEF SendEvent, Retract
    <2>2. InOrder(s, Tail(batch))
      BY <1>1, TailInOrder DEF OrderInv
    <2>3. ASSUME NEW k \in Places(Tail(batch)) PROVE Tail(batch)[k].id # raw.id
      <3>1. k + 1 \in Places(batch) /\ Tail(batch)[k] = batch[k + 1] /\ k + 1 # 1
        BY <1>1, TailPlaces DEF Places
      <3> QED
        BY <1>1, <3>1 DEF OrderInv, InOrder
    <2>4. \A k \in Places(Tail(batch)) : Tail(batch)[k].id \in MispId
      <3>1. \A k \in Places(Tail(batch)) : Tail(batch)[k] \in Raw
        BY <1>1, TailPlaces, AtPlaces
      <3> QED
        BY <3>1 DEF Raw
    <2>5. \A k \in Places(Tail(batch)) : taken'[Tail(batch)[k].id] = taken[Tail(batch)[k].id]
      BY <1>5, <2>3, <2>4
    <2> DEFINE rest == Tail(batch)
    <2> HIDE DEF rest, batch, raw
    <2>6. \A k \in Places(rest) : /\ taken'[rest[k].id] <= rest[k].ts
                                  /\ rest[k].ts <= misp'[s][rest[k].id].ts
      BY <2>1, <2>2, <2>5 DEF InOrder, rest
    <2>7. \A i, j \in Places(rest) : i # j => rest[i].id # rest[j].id
      BY <2>2 DEF InOrder, rest
    <2>8. poll'[q].batch = rest
      BY <2>1 DEF rest
    <2> QED
      BY <2>1, <2>6, <2>7, <2>8 DEF InOrder
  <1> QED
    BY <1>1, <1>2, <1>4, <1>6, <1>7, <1>8, <1>9, <1>10

\* An item that is no older than its copies goes to the end of the channel.
LEMMA QueueAppend ==
  ASSUME QueueInOrder, PollerTypeOK, NEW item \in Item, queue' = Append(queue, item),
         \A e \in MispId : taken[e] <= taken'[e],
         taken' \in [MispId -> Stamp],
         IF item.id \in MispId THEN item.ts = taken'[item.id]
                               ELSE item.ts = Never /\ item.id \notin MispId
  PROVE  QueueInOrder'
  <1>1. /\ queue \in Seq(Item) /\ Len(queue) \in Nat
        /\ \A i \in Places(queue) : queue[i] \in Item /\ queue[i].ts \in Int
    BY ItemFacts, AtPlaces
  <1>2. Len(queue') = Len(queue) + 1
        /\ \A i \in Places(queue') :
             \/ i \in Places(queue) /\ queue'[i] = queue[i]
             \/ i = Len(queue) + 1 /\ queue'[i] = item
    BY <1>1, AppendProperties DEF Places
  <1>3. \A e \in MispId : taken[e] \in Int /\ taken'[e] \in Int
    BY TimeFacts DEF PollerTypeOK
  <1>4. \A i \in Places(queue) : queue[i].id \in MispId => queue[i].ts <= taken'[queue[i].id]
    BY <1>1, <1>3 DEF QueueInOrder
  <1>5. ASSUME NEW i \in Places(queue')
        PROVE  IF queue'[i].id \in MispId THEN queue'[i].ts <= taken'[queue'[i].id]
                                           ELSE queue'[i].ts = Never
    <2>1. CASE i \in Places(queue) /\ queue'[i] = queue[i]
      BY <1>4, <2>1 DEF QueueInOrder
    <2>2. CASE queue'[i] = item
      BY <1>3, <2>2
    <2> QED
      BY <1>2, <2>1, <2>2
  <1>6. ASSUME NEW i \in Places(queue'), NEW j \in Places(queue'), i < j,
               queue'[i].id = queue'[j].id
        PROVE  queue'[i].ts <= queue'[j].ts
    <2>1. i \in Places(queue) /\ queue'[i] = queue[i]
      BY <1>1, <1>2, <1>6 DEF Places
    <2>2. CASE j \in Places(queue) /\ queue'[j] = queue[j]
      BY <1>6, <2>1, <2>2 DEF QueueInOrder
    <2>3. CASE queue'[j] = item
      <3>1. CASE item.id \in MispId
        BY <1>4, <1>6, <2>1, <2>3, <3>1
      <3>2. CASE item.id \notin MispId
        <4>1. queue[i].ts = Never /\ item.ts = Never
          BY <1>6, <2>1, <2>3, <3>2 DEF QueueInOrder
        <4> QED
          BY <2>1, <2>3, <4>1 DEF Never
      <3> QED
        BY <3>1, <3>2
    <2> QED
      BY <1>2, <2>2, <2>3
  <1> QED
    BY <1>5, <1>6 DEF QueueInOrder

LEMMA TakeOrder ==
  ASSUME OneSource, OrderInv, CursorInv', NEW s \in Source,
         \/ SendEvent(s) /\ UNCHANGED <<now, run>>
         \/ Retract(s) /\ UNCHANGED runtimeVars
  PROVE  OrderInv'
  <1> DEFINE raw == Head(poll[s].batch)
  <1>1. /\ raw \in Raw /\ raw.id \in MispId /\ taken' = [taken EXCEPT ![raw.id] = raw.ts]
        /\ \A q \in Source, e \in MispId : taken'[e] <= misp[q][e].ts
        /\ \A e \in MispId : taken[e] <= taken'[e]
        /\ \A q \in Source : InOrder(q, poll[q].batch)'
    BY TakeFacts
  <1>2. PollerTypeOK /\ taken' \in [MispId -> Stamp] /\ taken \in [MispId -> Stamp]
    BY DEF OrderInv, CursorInv, PollerInv, PollerTypeOK
  <1>3. taken'[raw.id] = raw.ts
    BY <1>1, <1>2
  <1>4. QueueInOrder'
    <2>1. CASE SendEvent(s)
      <3> DEFINE item == [id |-> raw.id, ts |-> raw.ts]
      <3>1. queue' = Append(queue, item)
        BY <2>1 DEF SendEvent, Send
      <3>2. item \in Item
        BY <1>1, PollerAssumption, TimeFacts DEF Raw, Item
      <3>3. item.id \in MispId /\ item.ts = taken'[item.id]
        BY <1>1, <1>3
      <3> HIDE DEF item, raw
      <3> QED
        BY <1>1, <1>2, <3>1, <3>2, <3>3, QueueAppend DEF OrderInv
    <2>2. CASE Retract(s) /\ UNCHANGED runtimeVars
      <3>1. queue' = queue
        BY <2>2 DEF runtimeVars
      <3>2. \A i \in Places(queue) : queue[i].ts \in Int
        BY <1>2, ItemFacts
      <3>3. \A e \in MispId : taken[e] \in Int /\ taken'[e] \in Int
        BY <1>2, TimeFacts
      <3> QED
        BY <1>1, <3>1, <3>2, <3>3 DEF OrderInv, QueueInOrder
    <2> QED
      BY <2>1, <2>2
  <1>5. misp' = misp /\ events' = events
    BY DEF SendEvent, Retract
  <1> QED
    BY <1>1, <1>4, <1>5 DEF OrderInv

LEMMA QueueTail ==
  ASSUME QueueInOrder, PollerTypeOK, queue # <<>>, queue' = Tail(queue), UNCHANGED taken
  PROVE  QueueInOrder'
  <1>1. ASSUME NEW i \in Places(queue')
        PROVE  i + 1 \in Places(queue) /\ queue'[i] = queue[i + 1] /\ i \in Int
    BY ItemFacts, TailPlaces DEF Places
  <1>2. ASSUME NEW i \in Places(queue'), NEW j \in Places(queue'), i < j,
               queue'[i].id = queue'[j].id
        PROVE  queue'[i].ts <= queue'[j].ts
    <2>1. i + 1 < j + 1
      BY <1>1, <1>2
    <2> QED
      BY <1>1, <1>2, <2>1 DEF QueueInOrder
  <1>3. \A i \in Places(queue') : IF queue'[i].id \in MispId
                                    THEN queue'[i].ts <= taken'[queue'[i].id]
                                    ELSE queue'[i].ts = Never
    BY <1>1 DEF QueueInOrder
  <1> QED
    BY <1>2, <1>3 DEF QueueInOrder

\* An edit stamps the event with a time no earlier than every version of it.
LEMMA EditOrder ==
  ASSUME OrderInv, CursorInv', ServerStep
  PROVE  OrderInv'
  <1>1. PICK s \in Source, e \in MispId, pub \in BOOLEAN : Edit(s, e, pub)
    BY DEF ServerStep
  <1>2. UNCHANGED <<queue, events, poll, taken>>
    BY <1>1 DEF ServerStep, Edit, runtimeVars
  <1>3. PollerTypeOK /\ now \in Int
    BY TimeFacts DEF OrderInv, CursorInv, PollerInv, PollerTypeOK, RuntimeTypeOK
  <1>4. ASSUME NEW q \in Source, NEW f \in MispId
        PROVE  /\ misp[q][f].ts \in Int /\ misp'[q][f].ts \in Int
               /\ misp[q][f].ts <= misp'[q][f].ts
               /\ events[f] \in Int /\ taken[f] \in Int
    <2>1. misp[q][f].ts \in Int /\ misp[q][f].ts <= now
      BY <1>3, TimeFacts DEF OrderInv, CursorInv, PollerTypeOK
    <2>2. misp'[q][f] = IF q = s /\ f = e THEN [ts |-> now, pub |-> pub] ELSE misp[q][f]
      BY <1>1, <1>3 DEF Edit, PollerTypeOK
    <2>3. events[f] \in Int /\ taken[f] \in Int
      BY <1>3, TimeFacts DEF PollerTypeOK
    <2> QED
      BY <1>3, <2>1, <2>2, <2>3
  <1>5. ASSUME NEW q \in Source PROVE InOrder(q, poll[q].batch)'
    <2> DEFINE batch == poll[q].batch
    <2>1. \A i \in Places(batch) : batch[i].id \in MispId /\ batch[i].ts \in Int
      <3>1. batch \in Seq(Raw) /\ \A r \in Raw : r.ts \in Int /\ r.id \in MispId
        BY BatchFacts DEF OrderInv, CursorInv, Raw
      <3> QED
        BY <3>1, AtPlaces
    <2>2. InOrder(q, batch)
      BY DEF OrderInv
    <2> HIDE DEF batch
    <2>3. /\ \A i \in Places(batch) : /\ taken[batch[i].id] <= batch[i].ts
                                      /\ batch[i].ts <= misp'[q][batch[i].id].ts
          /\ \A i, j \in Places(batch) : i # j => batch[i].id # batch[j].id
      BY <1>4, <2>1, <2>2 DEF InOrder
    <2> QED
      BY <1>2, <2>3 DEF InOrder, batch
  <1>6. \A q \in Source, f \in MispId : /\ events[f] <= misp'[q][f].ts
                                        /\ taken[f] <= misp'[q][f].ts
    BY <1>4 DEF OrderInv
  <1> QED
    BY <1>2, <1>5, <1>6 DEF OrderInv, QueueInOrder

\* The rest of the process: it drains the channel, fills it with events that have no
\* time stamp, and loses it.
LEMMA ProcessOrder ==
  ASSUME OrderInv, CursorInv', ChannelStep \/ ProcessStep
  PROVE  OrderInv'
  <1>1. UNCHANGED <<misp, events, taken>> /\ PollerTypeOK /\ PollerTypeOK'
    BY DEF ChannelStep, ProcessStep, PollersDie, pollerVars, OrderInv, CursorInv, PollerInv
  <1>2. ASSUME QueueInOrder', \A s \in Source : poll'[s].batch \in {poll[s].batch, <<>>}
        PROVE  OrderInv'
    <2>1. \A s \in Source : InOrder(s, poll'[s].batch)
      BY <1>2, EmptyInOrder DEF OrderInv
    <2>2. \A s \in Source : InOrder(s, poll[s].batch)'
      BY <1>1, <2>1 DEF InOrder
    <2> QED
      BY <1>1, <1>2, <2>2 DEF OrderInv
  <1>3. CASE ChannelStep
    <2>1. poll' = poll
      BY <1>3 DEF ChannelStep, pollerVars
    <2>2. CASE Receive
      BY <1>1, <1>2, <2>1, <2>2, QueueTail DEF Receive, OrderInv
    <2>3. CASE \E id \in Event \ MispId : TrySend([id |-> id, ts |-> Never])
      <3>1. PICK id \in Event \ MispId : TrySend([id |-> id, ts |-> Never])
        BY <2>3
      <3> DEFINE item == [id |-> id, ts |-> Never]
      <3>2. item \in Item /\ item.id \notin MispId /\ item.ts = Never
        BY TimeFacts DEF Item
      <3>3. queue' = Append(queue, item) \/ queue' = queue
        BY <3>1 DEF TrySend
      <3>4. taken' \in [MispId -> Stamp] /\ \A e \in MispId : taken[e] <= taken'[e]
        <4>1. taken \in [MispId -> Stamp] /\ taken' = taken
          BY <1>1 DEF PollerTypeOK
        <4>2. \A e \in MispId : taken[e] \in Int
          BY <4>1, TimeFacts
        <4> QED
          BY <4>1, <4>2
      <3> HIDE DEF item
      <3>5. QueueInOrder'
        BY <1>1, <3>2, <3>3, <3>4, QueueAppend DEF OrderInv, QueueInOrder
      <3> QED
        BY <1>2, <2>1, <3>5
    <2> QED
      BY <1>3, <2>2, <2>3 DEF ChannelStep
  <1>4. CASE ProcessStep
    <2>1. CASE Die /\ PollersDie
      <3>1. queue' = <<>> /\ \A s \in Source : poll'[s].batch = <<>>
        BY <2>1 DEF Die, PollersDie, OffPoll, Pausing
      <3> QED
        BY <1>2, <3>1 DEF QueueInOrder, Places
    <2>2. CASE UNCHANGED <<queue, poll>>
      BY <1>1, <1>2, <2>2 DEF OrderInv, QueueInOrder
    <2> QED
      BY <1>4, <2>1, <2>2 DEF ProcessStep, pollerVars
  <1> QED
    BY <1>3, <1>4

LEMMA NextOrder ==
  ASSUME OneSource, OrderInv, [PollerNext]_pollerSystem
  PROVE  OrderInv'
  <1>1. CursorInv'
    BY NextCursorInv DEF OrderInv
  <1>2. ASSUME NEW s \in Source, PollerStep(s) PROVE OrderInv'
    BY <1>1, <1>2, QuietOrder, FetchOrder, StoreOrder, TakeOrder DEF PollerStep, QuietStep
  <1>3. CASE ServerStep \/ ChannelStep \/ ProcessStep
    BY <1>1, <1>3, EditOrder, ProcessOrder
  <1>4. CASE UNCHANGED pollerSystem
    BY <1>1, <1>4 DEF pollerSystem, runtimeVars, pollerVars, OrderInv, QueueInOrder, InOrder
  <1> QED
    BY <1>2, <1>3, <1>4 DEF PollerNext

\* With one source, the channel holds the versions of an event in the order they were
\* taken, and what is left of a page is newer than all of them: whatever pages,
\* faults, crashes and edits come between.
THEOREM OrderInvariant ==
  ASSUME OneSource
  PROVE  PollerSpec => []OrderInv
  <1>1. PollerSystemInit => OrderInv
    BY InitOrder
  <1>2. OrderInv /\ [PollerNext]_pollerSystem => OrderInv'
    BY NextOrder
  <1> QED
    BY <1>1, <1>2, PTL DEF PollerSpec

-----------------------------------------------------------------------------
(* Nothing is skipped *)

\* The place of r in the listing of S.
Position(S, r) == Cardinality({q \in S : Precedes(q, r)}) + 1

\* How far into the listing the poll has fetched.
Reach(p) == IF p.pc = "fetch" THEN p.page * PageSize ELSE (p.page + 1) * PageSize

\* All events of the server fit on a page, with room left.
OnePage == Cardinality(MispId) < PageSize

\* Of what was listed up to here, all is settled but the rest of the page; the newest
\* time stamp was seen up to here; and a page that is not full is the last one.
Paged(p, S) ==
    /\ OnePage => ~p.full
    /\ \A i \in Places(p.batch) : /\ p.batch[i] \in S
                                  /\ Position(S, p.batch[i]) <= Reach(p)
    /\ \A r \in S : Position(S, r) <= Reach(p) =>
         Settled(r.id, r.ts) \/ \E i \in Places(p.batch) : p.batch[i] = r
    /\ p.maxTs # Never => \E r \in S : r.ts = p.maxTs /\ Position(S, r) <= Reach(p)
    /\ p.pc \in Handling \ {"event"} => p.maxTs # Never
    /\ p.pc \in {"fetch", "cursor"} => p.batch = <<>> /\ (p.full => p.maxTs # Never)
    /\ p.pc # "fetch" /\ ~p.full => \A r \in S : Position(S, r) <= Reach(p)

\* What a poll does not list is settled.
ListsRest(s, since) == \A e \in MispId :
    misp[s][e].ts # Never /\ misp[s][e].ts < since => Settled(e, misp[s][e].ts)

\* A poller that waits for its ticker starts with the first page.
Progress(s, p) ==
    IF p.pc \in {"off", "idle"}
      THEN p.pc = "idle" => p.page = 0 /\ ~p.full
      ELSE Paged(p, Listed(s, p.since)) /\ ListsRest(s, p.since)

PagedInv ==
    /\ OrderInv
    /\ NothingSkipped
    /\ \A s \in Source : Progress(s, poll[s])

\* What a version's place in its listing is: the number of versions before it, and one.
LEMMA PlaceIsPosition ==
  ASSUME NEW S, IsFiniteSet(S), S \subseteq Raw, NEW list \in Listings(S),
         NEW i \in Places(list)
  PROVE  Position(S, list[i]) = i
  <1> DEFINE before == {q \in S : Precedes(q, list[i])}
             f == [j \in 1..(i - 1) |-> list[j]]
  <1>1. /\ list \in Seq(S) /\ Len(list) \in Nat /\ i \in Nat /\ i >= 1
        /\ \A j, k \in Places(list) : j < k => Precedes(list[j], list[k])
        /\ \A j, k \in Places(list) : j # k => list[j] # list[k]
        /\ \A r \in S : \E j \in Places(list) : list[j] = r
        /\ \A j \in Places(list) : list[j] \in S /\ j \in Int
        /\ \A j \in 1..(i - 1) : j \in Places(list) /\ j < i
    <2>1. list \in Seq(S) /\ Len(list) \in Nat
          /\ \A j \in Places(list) : list[j] \in S /\ j \in Int
      BY ListingFacts, AtPlaces
    <2>2. i \in Nat /\ i >= 1 /\ \A j \in 1..(i - 1) : j \in Places(list) /\ j < i
      BY <2>1 DEF Places
    <2> QED
      BY <2>1, <2>2, ListingFacts
  <1>2. \A j \in Places(list) : Precedes(list[j], list[i]) => j \in 1..(i - 1)
    <2>1. \A j \in Places(list) : j >= i => ~Precedes(list[j], list[i])
      <3> TAKE j \in Places(list)
      <3>1. list[j] \in Raw /\ list[i] \in Raw
        BY <1>1
      <3>2. CASE j = i
        BY <3>1, <3>2, PrecedesOrders
      <3>3. CASE j > i
        BY <1>1, <3>1, <3>3, PrecedesOrders
      <3> QED
        BY <1>1, <3>2, <3>3
    <2> QED
      BY <1>1, <2>1 DEF Places
  <1>3. f \in Bijection(1..(i - 1), before)
    <2>1. \A j \in 1..(i - 1) : list[j] \in before
      BY <1>1
    <2>2. \A j, k \in 1..(i - 1) : list[j] = list[k] => j = k
      BY <1>1
    <2>3. \A q \in before : \E j \in 1..(i - 1) : list[j] = q
      BY <1>1, <1>2
    <2> HIDE DEF before
    <2> QED
      BY <2>1, <2>2, <2>3 DEF Bijection, Injection, Surjection, IsInjective
  <1>4. IsFiniteSet(1..(i - 1)) /\ Cardinality(1..(i - 1)) = i - 1
    <2>1. i - 1 \in Int /\ 1 \in Int
      BY <1>1
    <2>2. /\ IsFiniteSet(1..(i - 1))
          /\ Cardinality(1..(i - 1)) = IF 1 > i - 1 THEN 0 ELSE (i - 1) - 1 + 1
      BY <2>1, FS_Interval
    <2> QED
      BY <1>1, <2>2
  <1>5. Cardinality(before) = i - 1
    BY <1>3, <1>4, FS_Bijection DEF ExistsBijection
  <1> QED
    BY <1>1, <1>5 DEF Position

\* Whatever sequence a version is listed in, it is at its place.
LEMMA AtPosition ==
  ASSUME NEW S, IsFiniteSet(S), S \subseteq Raw, NEW list \in Listings(S), NEW r \in S
  PROVE  Position(S, r) \in Places(list) /\ list[Position(S, r)] = r
  <1>1. PICK i \in Places(list) : list[i] = r
    BY ListingFacts
  <1> QED
    BY <1>1, PlaceIsPosition

\* Positions are ordered as the versions are.
LEMMA PositionFacts ==
  ASSUME NEW S, IsFiniteSet(S), S \subseteq Raw
  PROVE  \A r \in S : Position(S, r) \in Nat \ {0}
  <1> TAKE r \in S
  <1>1. IsFiniteSet({q \in S : Precedes(q, r)})
    BY FS_Subset
  <1>2. Cardinality({q \in S : Precedes(q, r)}) \in Nat
    BY <1>1, FS_CardinalityType
  <1> QED
    BY <1>2 DEF Position

\* Where the server lists by time stamp, older versions have smaller positions.
LEMMA OlderBefore ==
  ASSUME ByTime, NEW S, IsFiniteSet(S), S \subseteq Raw, NEW r \in S, NEW q \in S, q.ts < r.ts
  PROVE  Position(S, q) <= Position(S, r)
  <1> DEFINE before(x) == {y \in S : Precedes(y, x)}
  <1>1. \A x \in S : x.ts \in Int /\ x.id \in Int
    <2>1. Time \subseteq Int /\ MispId \subseteq Int
      BY TimeFacts, PollerAssumption
    <2> QED
      BY <2>1 DEF Raw
  <1>2. before(q) \subseteq before(r)
    BY <1>1 DEF Precedes
  <1>3. IsFiniteSet(before(r)) /\ IsFiniteSet(before(q))
    BY FS_Subset
  <1>4. Cardinality(before(q)) <= Cardinality(before(r))
    BY <1>2, <1>3, FS_Subset
  <1>5. Cardinality(before(q)) \in Nat /\ Cardinality(before(r)) \in Nat
    BY <1>3, FS_CardinalityType
  <1> QED
    BY <1>4, <1>5 DEF Position

\* What a poller has listed has typed versions, at a place each.
LEMMA ListedFacts ==
  ASSUME PollerInv, NEW s \in Source, NEW since \in Int
  PROVE  /\ Listed(s, since) \subseteq Raw /\ IsFiniteSet(Listed(s, since))
         /\ \A r \in Listed(s, since) : /\ Position(Listed(s, since), r) \in Nat \ {0}
                                        /\ r.ts \in Time /\ r.ts >= since
                                        /\ r.id \in MispId /\ r.ts = misp[s][r.id].ts
  <1>1. /\ Listed(s, since) \subseteq Raw /\ IsFiniteSet(Listed(s, since))
        /\ \A r \in Listed(s, since) : r.ts \in Time /\ r.ts >= since
    BY ListedType DEF PollerInv
  <1> QED
    BY <1>1, PositionFacts, ListedVersions

\* A poll lists no more versions than there are events.
LEMMA ListedSize ==
  ASSUME NEW s \in Source, NEW since
  PROVE  Cardinality(Listed(s, since)) <= Cardinality(MispId)
  <1> DEFINE version(e) == [id |-> e, ts |-> misp[s][e].ts, pub |-> misp[s][e].pub]
             recent == {e \in MispId : misp[s][e].ts # Never /\ misp[s][e].ts >= since}
             f == [e \in recent |-> version(e)]
  <1>1. Listed(s, since) = {version(e) : e \in recent}
    BY DEF Listed
  <1>2. /\ IsFiniteSet(recent) /\ Cardinality(recent) <= Cardinality(MispId)
        /\ Cardinality(recent) \in Nat /\ Cardinality(MispId) \in Nat
    BY PollerAssumption, FS_Subset, FS_CardinalityType
  <1>3. f \in Surjection(recent, {version(e) : e \in recent})
    BY Zenon DEF Surjection
  <1>4. /\ IsFiniteSet({version(e) : e \in recent})
        /\ Cardinality({version(e) : e \in recent}) <= Cardinality(recent)
    BY <1>2, <1>3, FS_Surjection
  <1>5. Cardinality({version(e) : e \in recent}) \in Nat
    BY <1>4, FS_CardinalityType
  <1> HIDE DEF recent, version
  <1> QED
    BY <1>1, <1>2, <1>4, <1>5

\* A poller that touches neither what was taken nor the cursor.
LEMMA KeepsPaged ==
  ASSUME OneSource, PagedInv, OrderInv', NEW s \in Source, NEW p,
         poll' = [poll EXCEPT ![s] = p], Progress(s, p),
         NothingSkipped', UNCHANGED <<misp, taken, missed>>
  PROVE  PagedInv'
  <1>1. poll'[s] = p
    BY BatchFacts DEF PagedInv, OrderInv, CursorInv
  <1>2. Listed(s, poll[s].since)' = Listed(s, p.since)
    BY <1>1 DEF Listed
  <1>3. ListsRest(s, p.since) => ListsRest(s, poll[s].since)'
    BY <1>1 DEF ListsRest, Settled
  <1>4. Paged(p, Listed(s, p.since)) => Paged(poll[s], Listed(s, poll[s].since))'
    BY <1>1, <1>2 DEF Paged, Reach, Settled
  <1>5. Progress(s, poll[s])'
    BY <1>1, <1>3, <1>4 DEF Progress
  <1> QED
    BY <1>5 DEF PagedInv, OneSource

\* The steps that end a poll, or start the poller, and leave the cursor.
LEMMA PausePaged ==
  ASSUME OneSource, PagedInv, OrderInv', NEW s \in Source,
         StartPoller(s) \/ FetchFails(s) \/ Quit(s)
  PROVE  PagedInv'
  <1>1. PICK p \in {OffPoll, IdlePoll(poll[s].cold), IdlePoll(TRUE), IdlePoll(FALSE)} :
          poll' = [poll EXCEPT ![s] = p]
    BY DEF StartPoller, FetchFails, Quit
  <1>2. Progress(s, p)
    BY <1>1 DEF Progress, OffPoll, IdlePoll, Pausing
  <1>3. UNCHANGED <<misp, taken, missed, cursor>>
    BY DEF StartPoller, FetchFails, Quit
  <1>4. NothingSkipped'
    BY <1>3 DEF PagedInv, NothingSkipped, Settled
  <1> QED
    BY <1>1, <1>2, <1>3, <1>4, KeepsPaged

\* A poll lists all that was not taken: from the cursor, or from further back than the
\* servers' first event.
LEMMA BeginPaged ==
  ASSUME OneSource, MaxTime <= ColdWindow, PagedInv, OrderInv', NEW s \in Source,
         BeginPoll(s)
  PROVE  PagedInv'
  <1>1. /\ PollerInv /\ PollFresh(poll[s]) /\ poll[s] \in PollT /\ poll[s].pc = "idle"
        /\ poll \in [Source -> PollT] /\ now \in Time /\ cursor \in Int
    BY BatchFacts, TimeFacts
    DEF PagedInv, OrderInv, CursorInv, BeginPoll, PollerInv, PollerTypeOK, RuntimeTypeOK
  <1>2. PICK saved \in {cursor, Never} :
          poll' = [poll EXCEPT ![s] = [poll[s] EXCEPT !.pc = "fetch",
                     !.since = IF poll[s].cold THEN now - ColdWindow ELSE saved]]
    BY <1>1 DEF BeginPoll, Reading
  <1> DEFINE since == IF poll[s].cold THEN now - ColdWindow ELSE saved
             p     == [poll[s] EXCEPT !.pc = "fetch", !.since = since]
             S     == Listed(s, since)
  <1>3. since \in Int
    BY <1>1, <1>2, TimeFacts, PollerAssumption DEF Never
  <1>4. ListsRest(s, since)
    <2> SUFFICES ASSUME NEW e \in MispId, misp[s][e].ts # Never, misp[s][e].ts < since
                 PROVE  Settled(e, misp[s][e].ts)
      BY DEF ListsRest, Settled
    <2>1. misp[s][e].ts \in Nat
      BY <1>1 DEF PollerInv, PollerTypeOK, Stamp, Time
    <2>2. since > 0
      BY <1>3, <2>1
    <2>3. ~poll[s].cold /\ saved = cursor
      <3>1. ~(now - ColdWindow > 0)
        BY <1>1, BaseAssumption, PollerAssumption DEF Time
      <3>2. ~poll[s].cold
        BY <2>2, <3>1
      <3>3. saved > 0
        BY <2>2, <3>2
      <3> QED
        BY <1>2, <3>2, <3>3 DEF Never
    <2> QED
      BY <2>3 DEF PagedInv, NothingSkipped, Settled
  <1>5. /\ p.pc = "fetch" /\ p.since = since /\ p.batch = <<>> /\ p.maxTs = Never
        /\ p.page = 0 /\ ~p.full /\ Reach(p) = 0
    <2>1. /\ poll[s].batch = <<>> /\ poll[s].maxTs = Never
          /\ poll[s].page = 0 /\ ~poll[s].full
      BY <1>1 DEF PagedInv, Progress, PollFresh
    <2>2. PageSize \in Nat
      BY PollerAssumption
    <2> QED
      BY <1>1, <2>1, <2>2 DEF PollT, Reach
  <1>6. \A r \in S : ~(Position(S, r) <= 0)
    BY <1>1, <1>3, ListedFacts
  <1>7. UNCHANGED <<misp, taken, missed, cursor>>
    BY DEF BeginPoll
  <1>8. NothingSkipped'
    BY <1>7 DEF PagedInv, NothingSkipped, Settled
  <1> HIDE DEF p, since
  <1>9. Paged(p, S)
    BY <1>5, <1>6 DEF Paged, Places, Handling
  <1>10. Progress(s, p)
    BY <1>4, <1>5, <1>9 DEF Progress
  <1> QED
    BY <1>2, <1>7, <1>8, <1>10, KeepsPaged DEF p, since

\* What a busy poller has: its listing, and the versions up to its page.
LEMMA BusyFacts ==
  ASSUME PagedInv, NEW s \in Source, poll[s].pc \notin {"off", "idle"}
  PROVE  LET S == Listed(s, poll[s].since)
         IN  /\ PollerInv /\ poll[s] \in PollT /\ poll \in [Source -> PollT]
             /\ poll[s].batch \in Seq(Raw) /\ poll[s].since \in Int
             /\ poll[s].page \in Nat /\ PageSize \in Nat \ {0}
             /\ S \subseteq Raw /\ IsFiniteSet(S)
             /\ \A r \in S : /\ Position(S, r) \in Nat /\ r.ts \in Time
                             /\ r.id \in MispId /\ r.ts = misp[s][r.id].ts
             /\ Paged(poll[s], S) /\ ListsRest(s, poll[s].since)
  <1>1. PollerInv /\ poll[s] \in PollT /\ poll \in [Source -> PollT]
    BY BatchFacts DEF PagedInv, OrderInv, CursorInv
  <1>2. /\ poll[s].batch \in Seq(Raw) /\ poll[s].since \in Int /\ poll[s].page \in Nat
        /\ PageSize \in Nat \ {0}
    BY <1>1, PollerAssumption DEF PollT
  <1>3. Progress(s, poll[s])
    BY DEF PagedInv
  <1> QED
    BY <1>1, <1>2, <1>3, ListedFacts DEF Progress

\* The listing of a poll goes on where it was, since nothing was edited: the page is the
\* next stretch of it.
LEMMA FetchPaged ==
  ASSUME OneSource, PagedInv, OrderInv', NEW s \in Source, Fetch(s)
  PROVE  PagedInv'
  <1> DEFINE S == Listed(s, poll[s].since)
             page == poll[s].page
  <1>1. /\ PollerInv /\ poll[s] \in PollT /\ poll[s].pc = "fetch"
        /\ S \subseteq Raw /\ IsFiniteSet(S) /\ page \in Nat /\ PageSize \in Nat \ {0}
        /\ \A r \in S : Position(S, r) \in Nat
        /\ Paged(poll[s], S) /\ ListsRest(s, poll[s].since)
    BY BusyFacts DEF Fetch
  <1>2. PICK list \in Listings(S) :
          poll' = [poll EXCEPT ![s] =
                    IF Page(list, page) = <<>>
                      THEN [poll[s] EXCEPT !.pc = "cursor"]
                      ELSE [poll[s] EXCEPT !.pc = "event", !.batch = Page(list, page),
                              !.full = Len(Page(list, page)) = PageSize]]
    BY <1>1, FetchTakes
  <1> DEFINE batch == Page(list, page)
             p == IF batch = <<>>
                    THEN [poll[s] EXCEPT !.pc = "cursor"]
                    ELSE [poll[s] EXCEPT !.pc = "event", !.batch = batch,
                            !.full = Len(batch) = PageSize]
  <1>3. /\ batch \in Seq(S)
        /\ \A i \in Places(batch) : /\ page * PageSize + i \in Places(list)
                                    /\ page * PageSize + i <= (page + 1) * PageSize
                                    /\ batch[i] = list[page * PageSize + i]
        /\ \A k \in Places(list) : page * PageSize < k /\ k <= (page + 1) * PageSize
             => k - page * PageSize \in Places(batch)
        /\ Len(batch) # PageSize => Len(list) <= (page + 1) * PageSize
        /\ batch = <<>> => Len(list) <= page * PageSize
        /\ Len(batch) <= Len(list)
    <2>1. list \in Seq(S) /\ page \in 0..MaxPages - 1
      BY <1>1, ListingFacts DEF PollT
    <2> QED
      BY <2>1, PageFacts
  <1>4. \A r \in S : Position(S, r) <= Len(list) /\ list[Position(S, r)] = r
                     /\ Position(S, r) \in Places(list)
    BY <1>1, AtPosition DEF Places
  <1>5. \A i \in Places(batch) : batch[i] \in S /\ Position(S, batch[i]) = page * PageSize + i
    BY <1>1, <1>3, AtPlaces, PlaceIsPosition, SMTT(30)
  <1> DEFINE before == page * PageSize
             last   == (page + 1) * PageSize
  <1>6. before \in Nat /\ last \in Nat /\ before <= last
    BY <1>1
  <1>7. Reach(poll[s]) = before
    BY <1>1 DEF Reach
  <1>8. /\ p.since = poll[s].since /\ p.maxTs = poll[s].maxTs /\ p.page = page
        /\ p.pc \in {"event", "cursor"}
        /\ IF batch = <<>>
             THEN p.pc = "cursor" /\ p.batch = poll[s].batch /\ p.full = poll[s].full
             ELSE p.pc = "event" /\ p.batch = batch /\ p.full = (Len(batch) = PageSize)
    <2> HIDE DEF batch
    <2> QED
      BY <1>1 DEF PollT
  <1>9. Reach(p) = last
    <2> HIDE DEF p
    <2> QED
      BY <1>8 DEF Reach
  <1>10. UNCHANGED <<misp, taken, missed, cursor>>
    BY DEF Fetch
  <1>11. NothingSkipped'
    BY <1>10 DEF PagedInv, NothingSkipped, Settled
  <1>12. Paged(p, S)
    <2> HIDE DEF p, batch, S, before, last
    <2>1. /\ poll[s].batch = <<>> /\ (poll[s].full => poll[s].maxTs # Never)
          /\ OnePage => ~poll[s].full
      BY <1>1 DEF Paged
    <2>2. \A r \in S : Position(S, r) <= before => Settled(r.id, r.ts)
      BY <1>1, <1>7, <2>1 DEF Paged, Places
    <2>3. \A r \in S : Position(S, r) \in Nat
      BY <1>1
    <2>4. p.maxTs # Never => \E r \in S : r.ts = p.maxTs /\ Position(S, r) <= last
      BY <1>1, <1>6, <1>7, <1>8, <2>3 DEF Paged
    <2>5. CASE batch = <<>>
      <3>1. Len(list) <= before
        BY <1>3, <2>5 DEF before
      <3>2. Len(list) \in Nat
        BY <1>1, ListingFacts, AtPlaces DEF S
      <3>3. \A r \in S : Position(S, r) <= before /\ Position(S, r) <= last
        BY <1>4, <1>6, <2>3, <3>1, <3>2
      <3>4. /\ p.pc = "cursor" /\ p.batch = <<>> /\ p.full = poll[s].full
            /\ p.maxTs = poll[s].maxTs
        BY <1>8, <2>1, <2>5
      <3>5. (p.maxTs # Never \/ ~p.full) /\ (OnePage => ~p.full)
        BY <2>1, <3>4
      <3> QED
        BY <1>9, <2>1, <2>2, <2>4, <3>3, <3>4, <3>5 DEF Paged, Places, Handling
    <2>6. CASE batch # <<>>
      <3>1. /\ p.pc = "event" /\ p.batch = batch /\ p.full = (Len(batch) = PageSize)
        BY <1>8, <2>6
      <3>2. \A i \in Places(batch) : batch[i] \in S /\ Position(S, batch[i]) <= last
        BY <1>3, <1>5 DEF last
      <3>3. ASSUME NEW r \in S, Position(S, r) <= last
            PROVE  Settled(r.id, r.ts) \/ \E i \in Places(batch) : batch[i] = r
        <4>1. CASE Position(S, r) <= before
          BY <2>2, <4>1
        <4>2. CASE ~(Position(S, r) <= before)
          <5> DEFINE k == Position(S, r)
                     i == k - before
          <5>1. k \in Places(list) /\ list[k] = r /\ before < k /\ k <= last
            BY <1>4, <1>6, <2>3, <3>3, <4>2
          <5>2. i \in Places(batch)
            BY <1>3, <5>1 DEF before, last
          <5>3. before + i = k
            BY <1>6, <2>3
          <5>4. batch[i] = list[before + i]
            BY <1>3, <5>2 DEF before
          <5> QED
            BY <5>1, <5>2, <5>3, <5>4
        <4> QED
          BY <4>1, <4>2
      <3>4. ~p.full => \A r \in S : Position(S, r) <= last
        <4>1. Len(list) \in Nat
          BY <1>1, ListingFacts, AtPlaces DEF S
        <4>2. ~p.full => Len(list) <= last
          BY <1>3, <3>1 DEF last
        <4> QED
          BY <1>4, <1>6, <2>3, <4>1, <4>2
      <3>5. OnePage => ~p.full
        <4>1. Len(batch) <= Cardinality(S) /\ Cardinality(S) <= Cardinality(MispId)
          BY <1>1, <1>3, ListingFacts, ListedSize DEF S
        <4>2. /\ Len(batch) \in Nat /\ Cardinality(S) \in Nat
              /\ Cardinality(MispId) \in Nat /\ PageSize \in Nat
          BY <1>1, <1>3, AtPlaces, FS_CardinalityType, PollerAssumption
        <4>3. OnePage => Len(batch) # PageSize
          BY <4>1, <4>2 DEF OnePage
        <4> QED
          BY <3>1, <4>3
      <3> QED
        BY <1>9, <2>4, <3>1, <3>2, <3>3, <3>4, <3>5 DEF Paged
    <2> QED
      BY <2>5, <2>6
  <1>13. Progress(s, p)
    <2> HIDE DEF p
    <2> QED
      BY <1>1, <1>8, <1>12 DEF Progress
  <1> QED
    BY <1>2, <1>10, <1>11, <1>13, KeepsPaged DEF p

\* The time stamp of the event in hand is noted; no stored version is newer than it.
LEMMA SeenPaged ==
  ASSUME OneSource, PagedInv, NEW s \in Source, poll[s].pc = "event"
  PROVE  LET S    == Listed(s, poll[s].since)
             raw  == Head(poll[s].batch)
             seen == Seen(poll[s])
         IN  /\ poll[s] \in PollT /\ poll \in [Source -> PollT] /\ poll[s].batch # <<>>
             /\ raw.id \in MispId /\ raw.ts \in Nat /\ events[raw.id] \in Int
             /\ events[raw.id] <= raw.ts
             /\ seen \in PollT /\ seen.pc = "event" /\ seen.batch = poll[s].batch
             /\ seen.since = poll[s].since /\ seen.page = poll[s].page
             /\ seen.full = poll[s].full /\ seen.maxTs # Never
             /\ Paged(seen, S) /\ ListsRest(s, poll[s].since)
  <1> DEFINE S    == Listed(s, poll[s].since)
             raw  == Head(poll[s].batch)
             seen == Seen(poll[s])
  <1>1. /\ PollerInv /\ poll[s] \in PollT /\ poll[s].pc = "event"
        /\ \A r \in S : /\ r.ts \in Time
                        /\ r.id \in MispId /\ r.ts = misp[s][r.id].ts
        /\ Paged(poll[s], S) /\ ListsRest(s, poll[s].since)
    BY BusyFacts
  <1>2. /\ raw = poll[s].batch[1] /\ 1 \in Places(poll[s].batch) /\ poll[s].batch # <<>>
        /\ poll \in [Source -> PollT]
    BY <1>1, BatchFacts DEF Handling
  <1>3. raw \in S /\ Position(S, raw) <= Reach(poll[s])
    BY <1>1, <1>2 DEF Paged
  <1>4. raw.id \in MispId /\ raw.ts \in Nat /\ events[raw.id] <= raw.ts
    <2>1. raw.id \in MispId /\ raw.ts \in Time /\ raw.ts = misp[s][raw.id].ts
      BY <1>1, <1>3
    <2> QED
      BY <2>1 DEF Time, PagedInv, OrderInv
  <1>5. events[raw.id] \in Int
    BY <1>1, <1>4, TimeFacts DEF PollerInv, PollerTypeOK
  <1>6. /\ seen.pc = "event" /\ seen.batch = poll[s].batch /\ seen.since = poll[s].since
        /\ seen.page = poll[s].page /\ seen.full = poll[s].full /\ seen \in PollT
        /\ seen.maxTs \in {poll[s].maxTs, raw.ts} /\ seen.maxTs # Never
    BY <1>1, <1>2, SeenType
  <1> HIDE DEF seen, S, raw
  <1>7. \E r \in S : r.ts = seen.maxTs /\ Position(S, r) <= Reach(poll[s])
    BY <1>1, <1>3, <1>6 DEF Paged
  <1>8. Reach(seen) = Reach(poll[s])
    BY <1>1, <1>6 DEF Reach
  <1>9. Paged(seen, S)
    BY <1>1, <1>6, <1>7, <1>8 DEF Paged, Handling
  <1> QED
    BY <1>1, <1>2, <1>4, <1>5, <1>6, <1>9 DEF seen, S, raw

LEMMA ExaminePaged ==
  ASSUME OneSource, PagedInv, OrderInv', NEW s \in Source, Examine(s)
  PROVE  PagedInv'
  <1> DEFINE S    == Listed(s, poll[s].since)
             raw  == Head(poll[s].batch)
             seen == Seen(poll[s])
  <1>1. /\ raw.ts \in Nat /\ events[raw.id] \in Int /\ events[raw.id] <= raw.ts
        /\ seen \in PollT /\ seen.pc = "event" /\ seen.since = poll[s].since
        /\ seen.maxTs # Never /\ Paged(seen, S) /\ ListsRest(s, poll[s].since)
    BY SeenPaged DEF Examine
  <1> HIDE DEF seen, S
  <1>2. PICK p \in {[seen EXCEPT !.pc = "retract"], [seen EXCEPT !.pc = "store"]} :
          poll' = [poll EXCEPT ![s] = p]
    <2>1. PICK existing \in {events[raw.id], Never} :
            poll' = [poll EXCEPT ![s] =
                       IF existing # Never /\ ~raw.pub
                         THEN [seen EXCEPT !.pc = "retract"]
                         ELSE IF existing > raw.ts
                                THEN Advance(seen)
                                ELSE [seen EXCEPT !.pc = "store"]]
      BY DEF Examine, Reading, raw, seen
    <2>2. ~(existing > raw.ts)
      BY <1>1, <2>1 DEF Never
    <2> QED
      BY <2>1, <2>2
  <1>3. /\ p.pc \in {"retract", "store"} /\ p.batch = seen.batch /\ p.since = seen.since
        /\ p.page = seen.page /\ p.full = seen.full /\ p.maxTs = seen.maxTs
    BY <1>1, <1>2 DEF PollT
  <1>4. Reach(p) = Reach(seen)
    BY <1>1, <1>3 DEF Reach
  <1>5. Paged(p, S)
    BY <1>1, <1>3, <1>4 DEF Paged, Handling
  <1>6. Progress(s, p)
    BY <1>1, <1>3, <1>5 DEF Progress, S
  <1>7. UNCHANGED <<misp, taken, missed, cursor>>
    BY DEF Examine
  <1>8. NothingSkipped'
    BY <1>7 DEF PagedInv, NothingSkipped, Settled
  <1> QED
    BY <1>2, <1>6, <1>7, <1>8, KeepsPaged

LEMMA StorePaged ==
  ASSUME OneSource, PagedInv, OrderInv', NEW s \in Source, Store(s)
  PROVE  PagedInv'
  <1> DEFINE S == Listed(s, poll[s].since)
             p == [poll[s] EXCEPT !.pc = IF poll[s].pc = "store" THEN "send" ELSE "suppress"]
  <1>1. /\ poll[s] \in PollT /\ poll[s].pc \in {"store", "retract"}
        /\ Paged(poll[s], S) /\ ListsRest(s, poll[s].since)
    BY BusyFacts DEF Store
  <1>2. poll' = [poll EXCEPT ![s] = p]
    BY DEF Store
  <1>3. /\ p.pc \in {"send", "suppress"} /\ p.batch = poll[s].batch
        /\ p.since = poll[s].since /\ p.page = poll[s].page /\ p.full = poll[s].full
        /\ p.maxTs = poll[s].maxTs
    BY <1>1 DEF PollT
  <1> HIDE DEF p, S
  <1>4. Reach(p) = Reach(poll[s])
    BY <1>1, <1>3 DEF Reach
  <1>5. Paged(p, S)
    BY <1>1, <1>3, <1>4 DEF Paged, Handling
  <1>6. Progress(s, p)
    BY <1>1, <1>3, <1>5 DEF Progress, S
  <1>7. UNCHANGED <<misp, taken, missed, cursor>>
    BY DEF Store
  <1>8. NothingSkipped'
    BY <1>7 DEF PagedInv, NothingSkipped, Settled
  <1> QED
    BY <1>2, <1>6, <1>7, <1>8, KeepsPaged

\* A history keeps the newest version.
LEMMA NewestFacts ==
  ASSUME NEW history \in [MispId -> Stamp], NEW raw, raw.id \in MispId, raw.ts \in Int
  PROVE  /\ Newest(history, raw)[raw.id] >= raw.ts
         /\ \A e \in MispId : /\ history[e] \in Int /\ Newest(history, raw)[e] \in Int
                              /\ Newest(history, raw)[e] >= history[e]
  <1>1. \A e \in MispId : history[e] \in Int
    BY TimeFacts
  <1> QED
    BY <1>1 DEF Newest

\* The poll is done with the first event of the page, which is settled: what is left of
\* the page is what is not.
LEMMA PassPaged ==
  ASSUME OneSource, PagedInv, OrderInv', NEW s \in Source, NEW old \in PollT,
         old.batch = poll[s].batch, old.since = poll[s].since, old.full = poll[s].full,
         old.pc \in {"event", "send", "suppress"}, old.maxTs # Never,
         Paged(old, Listed(s, poll[s].since)),
         poll[s].pc \in {"event", "send", "suppress"},
         poll' = [poll EXCEPT ![s] = Advance(old)],
         taken' = taken \/ taken' = Newest(taken, Head(poll[s].batch)),
         missed' = missed \/ missed' = Newest(missed, Head(poll[s].batch)),
         \/ taken' = Newest(taken, Head(poll[s].batch))
         \/ missed' = Newest(missed, Head(poll[s].batch)),
         UNCHANGED <<misp, cursor>>
  PROVE  PagedInv'
  <1> DEFINE S   == Listed(s, poll[s].since)
             raw == Head(poll[s].batch)
             p   == Advance(old)
             rest == Tail(poll[s].batch)
  <1>1. /\ PollerInv /\ poll[s].batch \in Seq(Raw) /\ PageSize \in Nat \ {0}
        /\ old.page \in Nat
        /\ \A r \in S : r.ts \in Int /\ r.id \in MispId
        /\ Paged(old, S) /\ ListsRest(s, poll[s].since)
    <2>1. /\ PollerInv /\ PageSize \in Nat \ {0} /\ ListsRest(s, poll[s].since)
          /\ \A r \in S : r.ts \in Int /\ r.id \in MispId
      BY BusyFacts, TimeFacts
    <2>2. old.page \in Nat
      BY DEF PollT
    <2> QED
      BY <2>1, <2>2, BatchFacts
  <1>2. /\ poll[s].batch # <<>> /\ raw = poll[s].batch[1] /\ raw \in Raw
        /\ poll \in [Source -> PollT]
    BY <1>1, BatchFacts DEF Handling
  <1>3. raw.id \in MispId /\ raw.ts \in Int
    BY <1>2, TimeFacts DEF Raw
  <1>4. taken \in [MispId -> Stamp] /\ missed \in [MispId -> Stamp]
    BY <1>1 DEF PollerInv, PollerTypeOK
  <1> HIDE DEF raw
  <1>5. taken'[raw.id] >= raw.ts \/ missed'[raw.id] >= raw.ts
    BY <1>3, <1>4, NewestFacts DEF raw
  <1>6. poll'[s] = p
    BY <1>2
  <1>7. ASSUME NEW e \in MispId, NEW ts \in Int, Settled(e, ts)
        PROVE  Settled(e, ts)'
    <2>1. /\ taken[e] \in Int /\ taken'[e] \in Int /\ taken'[e] >= taken[e]
          /\ missed[e] \in Int /\ missed'[e] \in Int /\ missed'[e] >= missed[e]
      BY <1>3, <1>4, NewestFacts DEF raw
    <2> QED
      BY <1>7, <2>1 DEF Settled
  <1>8. \A q \in Source, e \in MispId : misp[q][e].ts \in Int
    BY <1>1, TimeFacts DEF PollerInv, PollerTypeOK
  <1>9. NothingSkipped'
    BY <1>7, <1>8 DEF PagedInv, NothingSkipped
  <1>10. /\ p.batch = rest /\ p.maxTs = old.maxTs /\ p.since = poll[s].since
         /\ p.full = old.full /\ Reach(p) = Reach(old)
         /\ p.pc \in {"event", "fetch", "cursor"}
         /\ p.pc # "event" => rest = <<>>
    <2>1. /\ p.batch = rest /\ p.maxTs = old.maxTs
          /\ p.since = poll[s].since /\ p.full = old.full
          /\ \/ p.pc = "event" /\ p.page = old.page
             \/ /\ p.pc = "fetch" /\ p.page = old.page + 1
                /\ rest = <<>>
             \/ /\ p.pc = "cursor" /\ p.page = old.page
                /\ rest = <<>>
      BY AdvanceTail
    <2> HIDE DEF p, rest
    <2> QED
      BY <1>1, <2>1 DEF Reach
  <1>11. /\ \A i \in Places(rest) : i + 1 \in Places(poll[s].batch)
                                    /\ rest[i] = poll[s].batch[i + 1]
         /\ \A i \in Places(poll[s].batch) \ {1} : /\ i - 1 \in Places(rest)
                                                   /\ rest[i - 1] = poll[s].batch[i]
    <2>1. /\ \A i \in Places(rest) : i + 1 \in Places(poll[s].batch)
                                     /\ rest[i] = poll[s].batch[i + 1]
          /\ \A i \in Places(poll[s].batch) \ {1} : i - 1 \in Places(rest)
      BY <1>1, <1>2, TailPlaces
    <2>2. \A i \in Places(poll[s].batch) : i \in Int /\ (i - 1) + 1 = i
      BY DEF Places
    <2> QED
      BY <2>1, <2>2
  <1> HIDE DEF p, rest
  <1>12. \A i \in Places(rest) : rest[i] \in S /\ Position(S, rest[i]) <= Reach(p)
    BY <1>1, <1>10, <1>11 DEF Paged
  <1>13. ASSUME NEW r \in S, Position(S, r) <= Reach(p)
         PROVE  Settled(r.id, r.ts)' \/ \E i \in Places(rest) : rest[i] = r
    <2>1. CASE Settled(r.id, r.ts)
      BY <1>1, <1>7, <2>1
    <2>2. ASSUME NEW i \in Places(poll[s].batch), poll[s].batch[i] = r
          PROVE  Settled(r.id, r.ts)' \/ \E j \in Places(rest) : rest[j] = r
      <3>1. CASE i = 1
        <4>1. r = raw
          BY <1>2, <2>2, <3>1
        <4>2. taken'[r.id] >= r.ts \/ missed'[r.id] >= r.ts
          BY <1>5, <4>1
        <4> QED
          BY <4>2 DEF Settled
      <3>2. CASE i # 1
        BY <1>11, <2>2, <3>2
      <3> QED
        BY <3>1, <3>2
    <2> QED
      BY <1>1, <1>10, <1>13, <2>1, <2>2 DEF Paged
  <1>14. /\ p.maxTs # Never => \E r \in S : r.ts = p.maxTs /\ Position(S, r) <= Reach(p)
         /\ p.pc \in {"fetch", "cursor"} => p.batch = <<>> /\ p.maxTs # Never
         /\ ~p.full => \A r \in S : Position(S, r) <= Reach(p)
         /\ p.pc \notin Handling \ {"event"} /\ p.pc \notin {"off", "idle"}
         /\ OnePage => ~p.full
    BY <1>1, <1>10 DEF Paged, Handling
  <1>15. Listed(s, poll[s].since)' = S
    BY <1>6, <1>10 DEF Listed
  <1> HIDE DEF S
  <1>16. Paged(poll[s], Listed(s, poll[s].since))'
    BY <1>6, <1>10, <1>12, <1>13, <1>14, <1>15 DEF Paged, Reach
  <1>17. ListsRest(s, poll[s].since)'
    BY <1>1, <1>6, <1>7, <1>8, <1>10 DEF ListsRest
  <1>18. Progress(s, poll[s])'
    BY <1>6, <1>14, <1>16, <1>17 DEF Progress
  <1> QED
    BY <1>9, <1>18 DEF PagedInv, OneSource

\* The event is sent or retracted, or an error passes it over.
LEMMA TakePaged ==
  ASSUME OneSource, PagedInv, OrderInv', NEW s \in Source,
         SendEvent(s) \/ Retract(s) \/ RetractFails(s)
  PROVE  PagedInv'
  <1>1. /\ poll[s] \in PollT /\ poll[s].pc \in {"send", "suppress"}
        /\ Paged(poll[s], Listed(s, poll[s].since))
    BY BusyFacts DEF SendEvent, Retract, RetractFails
  <1>2. poll[s].maxTs # Never
    BY <1>1 DEF Paged, Handling
  <1>3. /\ poll' = [poll EXCEPT ![s] = Advance(poll[s])]
        /\ UNCHANGED <<misp, cursor>>
        /\ \/ taken' = Newest(taken, Head(poll[s].batch)) /\ missed' = missed
           \/ missed' = Newest(missed, Head(poll[s].batch)) /\ taken' = taken
    BY DEF SendEvent, Retract, RetractFails
  <1> QED
    BY <1>1, <1>2, <1>3, PassPaged

LEMMA ExamineFailsPaged ==
  ASSUME OneSource, PagedInv, OrderInv', NEW s \in Source, ExamineFails(s)
  PROVE  PagedInv'
  <1> DEFINE seen == Seen(poll[s])
  <1>1. /\ poll[s].pc = "event"
        /\ seen \in PollT /\ seen.pc = "event" /\ seen.batch = poll[s].batch
        /\ seen.since = poll[s].since /\ seen.full = poll[s].full /\ seen.maxTs # Never
        /\ Paged(seen, Listed(s, poll[s].since))
    BY SeenPaged DEF ExamineFails
  <1>2. /\ poll' = [poll EXCEPT ![s] = Advance(seen)]
        /\ UNCHANGED <<misp, cursor, taken>>
        /\ missed' = Newest(missed, Head(poll[s].batch))
    BY DEF ExamineFails
  <1> HIDE DEF seen
  <1> QED
    BY <1>1, <1>2, PassPaged

\* All that is older than what the poll stores is settled: the cursor may pass it.
LEMMA SavePaged ==
  ASSUME OneSource, ByTime \/ OnePage, PagedInv, OrderInv', NEW s \in Source, SaveCursor(s)
  PROVE  PagedInv'
  <1> DEFINE S == Listed(s, poll[s].since)
             next == IF poll[s].full /\ poll[s].maxTs # Never THEN poll[s].maxTs ELSE now
  <1>1. /\ PollerInv /\ poll[s] \in PollT /\ poll[s].pc = "cursor" /\ poll[s].since \in Int
        /\ S \subseteq Raw /\ IsFiniteSet(S) /\ PageSize \in Nat \ {0} /\ poll[s].page \in Nat
        /\ \A r \in S : /\ r.ts \in Int /\ r.id \in MispId /\ r.ts = misp[s][r.id].ts
                        /\ Position(S, r) \in Nat
        /\ Paged(poll[s], S) /\ ListsRest(s, poll[s].since)
    BY BusyFacts, TimeFacts DEF SaveCursor
  <1>2. \A r \in S : Position(S, r) <= Reach(poll[s]) => Settled(r.id, r.ts)
    BY <1>1 DEF Paged, Places
  <1>3. Reach(poll[s]) \in Nat
    BY <1>1 DEF Reach
  <1>4. ASSUME NEW r \in S, r.ts < next PROVE Settled(r.id, r.ts)
    <2>1. CASE ~poll[s].full
      BY <1>1, <1>2, <2>1 DEF Paged
    <2>2. CASE poll[s].full
      <3>1. poll[s].maxTs # Never /\ ByTime
        BY <1>1, <2>2 DEF Paged
      <3>2. PICK top \in S : top.ts = poll[s].maxTs /\ Position(S, top) <= Reach(poll[s])
        BY <1>1, <3>1 DEF Paged
      <3>3. Position(S, r) <= Position(S, top)
        BY <1>1, <1>4, <2>2, <3>1, <3>2, OlderBefore
      <3> QED
        BY <1>1, <1>2, <1>3, <3>2, <3>3
    <2> QED
      BY <2>1, <2>2
  <1>5. UNCHANGED <<misp, taken, missed>> /\ cursor' \in {next, cursor}
        /\ poll' = [poll EXCEPT ![s] = IdlePoll(FALSE)]
    BY DEF SaveCursor
  <1>6. ASSUME NEW e \in MispId, misp[s][e].ts # Never, misp[s][e].ts < next
        PROVE  Settled(e, misp[s][e].ts)
    <2>1. CASE misp[s][e].ts < poll[s].since
      BY <1>1, <1>6, <2>1 DEF ListsRest, Settled
    <2>2. CASE ~(misp[s][e].ts < poll[s].since)
      <3> DEFINE r == [id |-> e, ts |-> misp[s][e].ts, pub |-> misp[s][e].pub]
      <3>1. misp[s][e].ts \in Int
        BY <1>1, TimeFacts DEF PollerInv, PollerTypeOK
      <3>2. r \in S
        BY <1>1, <1>6, <2>2, <3>1 DEF Listed
      <3> QED
        BY <1>4, <1>6, <3>2
    <2> QED
      BY <2>1, <2>2
  <1>7. NothingSkipped'
    <2>1. \A q \in Source : q = s
      BY DEF OneSource
    <2>2. \A e \in MispId : misp[s][e].ts # Never /\ misp[s][e].ts < cursor'
                              => Settled(e, misp[s][e].ts)
      <3> HIDE DEF next
      <3>1. CASE cursor' = next
        BY <1>6, <3>1
      <3>2. CASE cursor' = cursor
        BY <3>2 DEF PagedInv, NothingSkipped, Settled
      <3> QED
        BY <1>5, <3>1, <3>2
    <2> QED
      BY <1>5, <2>1, <2>2 DEF NothingSkipped, Settled
  <1>8. Progress(s, IdlePoll(FALSE))
    BY DEF Progress, IdlePoll, Pausing
  <1> QED
    BY <1>5, <1>7, <1>8, KeepsPaged

LEMMA SameProgress ==
  ASSUME PagedInv, UNCHANGED <<misp, poll, taken, missed>>, NEW s \in Source
  PROVE  Progress(s, poll[s])'
  <1>1. Listed(s, poll[s].since)' = Listed(s, poll[s].since)
    BY DEF Listed
  <1>2. ListsRest(s, poll[s].since) => ListsRest(s, poll[s].since)'
    BY DEF ListsRest, Settled
  <1>3. Paged(poll[s], Listed(s, poll[s].since)) => Paged(poll[s], Listed(s, poll[s].since))'
    BY <1>1 DEF Paged, Reach, Settled
  <1> QED
    BY <1>2, <1>3 DEF Progress, PagedInv

\* What touches no poller that is polling: with the servers quiet, an edit too.
LEMMA AroundPaged ==
  ASSUME Quiet, PagedInv, OrderInv', ServerStep \/ ChannelStep \/ ProcessStep
  PROVE  PagedInv'
  <1>1. CASE ServerStep
    <2>1. PICK s \in Source, e \in MispId, pub \in BOOLEAN : Edit(s, e, pub)
      BY <1>1 DEF ServerStep
    <2>2. UNCHANGED <<now, cursor, poll, taken, missed>> /\ \A q \in Source : poll[q].pc \in {"off", "idle"}
      BY <1>1, <2>1 DEF ServerStep, Edit, Polling, runtimeVars
    <2>3. /\ misp \in [Source -> [MispId -> [ts : Stamp, pub : BOOLEAN]]]
          /\ now \in Int /\ cursor \in Int /\ cursor <= now
      BY TimeFacts
      DEF PagedInv, OrderInv, CursorInv, PollerInv, PollerTypeOK, RuntimeTypeOK
    <2>4. ASSUME NEW q \in Source, NEW f \in MispId
          PROVE  misp'[q][f] = misp[q][f] \/ misp'[q][f].ts = now
      BY <2>1, <2>3 DEF Edit
    <2>5. NothingSkipped'
      <3>1. \A q \in Source, f \in MispId :
              misp'[q][f].ts # Never /\ misp'[q][f].ts < cursor => Settled(f, misp'[q][f].ts)
        <4> SUFFICES ASSUME NEW q \in Source, NEW f \in MispId,
                            misp'[q][f].ts # Never, misp'[q][f].ts < cursor
                     PROVE  Settled(f, misp'[q][f].ts)
          OBVIOUS
        <4>1. misp'[q][f].ts # now
          BY <2>3
        <4>2. misp'[q][f] = misp[q][f]
          BY <2>4, <4>1, Zenon
        <4> QED
          BY <4>2, Zenon DEF PagedInv, NothingSkipped
      <3> QED
        BY <2>2, <3>1 DEF NothingSkipped, Settled
    <2>6. \A q \in Source : Progress(q, poll[q])'
      BY <2>2 DEF PagedInv, Progress
    <2> QED
      BY <2>5, <2>6 DEF PagedInv
  <1>2. CASE UNCHANGED pollerVars
    <2>1. \A s \in Source : Progress(s, poll[s])'
      BY <1>2, SameProgress DEF pollerVars
    <2> QED
      BY <1>2, <2>1 DEF pollerVars, PagedInv, NothingSkipped, Settled
  <1>3. CASE PollersDie
    <2>1. UNCHANGED <<misp, cursor, taken, missed>> /\ \A s \in Source : poll'[s] = OffPoll
      BY <1>3 DEF PollersDie
    <2>2. \A s \in Source : Progress(s, poll[s])'
      BY <2>1 DEF Progress, OffPoll, Pausing
    <2> QED
      BY <2>1, <2>2 DEF PagedInv, NothingSkipped, Settled
  <1> QED
    BY <1>1, <1>2, <1>3 DEF ChannelStep, ProcessStep

LEMMA NextPaged ==
  ASSUME OneSource, Quiet, ByTime \/ OnePage, MaxTime <= ColdWindow, PagedInv,
         [PollerNext]_pollerSystem
  PROVE  PagedInv'
  <1>1. OrderInv'
    BY NextOrder DEF PagedInv
  <1>2. ASSUME NEW s \in Source, PollerStep(s) PROVE PagedInv'
    BY <1>1, <1>2, PausePaged, BeginPaged, FetchPaged, ExaminePaged,
       ExamineFailsPaged, StorePaged, TakePaged, SavePaged DEF PollerStep, QuietStep
  <1>3. CASE ServerStep \/ ChannelStep \/ ProcessStep
    BY <1>1, <1>3, AroundPaged
  <1>4. CASE UNCHANGED pollerSystem
    <2>1. UNCHANGED <<misp, cursor, poll, taken, missed>>
      BY <1>4 DEF pollerSystem, pollerVars
    <2>2. \A s \in Source : Progress(s, poll[s])'
      BY <2>1, SameProgress
    <2> QED
      BY <1>1, <2>1, <2>2 DEF PagedInv, NothingSkipped, Settled
  <1> QED
    BY <1>2, <1>3, <1>4 DEF PollerNext

\* One source, whose server lists by time stamp or has no more events than a page short of
\* full holds, and whose events change only between polls, and a cold start that reaches
\* back to the server's first event: then whatever version the cursor has passed was sent
\* or retracted, or one of the two logged errors passed it over, for pages of any size, any
\* number of them, and faults, crashes and restarts at every point of a poll. None of the
\* four can be dropped: without it TLC finds a version that is passed over.
THEOREM NothingIsSkipped ==
  ASSUME OneSource, Quiet, ByTime \/ OnePage, MaxTime <= ColdWindow
  PROVE  PollerSpec => []NothingSkipped
  <1>1. PollerSystemInit => PagedInv
    <2> SUFFICES ASSUME PollerSystemInit PROVE PagedInv
      OBVIOUS
    <2>1. OrderInv
      BY InitOrder
    <2>2. \A s \in Source : poll[s].pc = "off" /\ \A e \in MispId : misp[s][e].ts = Never
      BY DEF PollerSystemInit, PollerInit, OffPoll, Pausing
    <2> QED
      BY <2>1, <2>2 DEF PagedInv, NothingSkipped, Settled, Progress
  <1>2. PagedInv /\ [PollerNext]_pollerSystem => PagedInv'
    BY NextPaged
  <1>3. PagedInv => NothingSkipped
    BY DEF PagedInv
  <1> QED
    BY <1>1, <1>2, <1>3, PTL DEF PollerSpec


=============================================================================
