--------------------------- MODULE PipelineProofs ---------------------------
(***************************************************************************)
(* Proofs about the process. It implements the specification of the alert  *)
(* store and the one of the MISP pollers, so what is proved of each alone  *)
(* holds of the whole; and a retraction with no copy of the event in       *)
(* flight sticks.                                                          *)
(***************************************************************************)
EXTENDS Pipeline, AlertStoreProofs, PollProofs

-----------------------------------------------------------------------------
(* The process implements the pollers *)

LEMMA StepPollers == [Next]_vars => [PollerNext]_pollerSystem
  <1> SUFFICES ASSUME [Next]_vars PROVE [PollerNext]_pollerSystem
    OBVIOUS
  <1>1. ASSUME NEW s \in Source, PollerActs(s) PROVE PollerNext
    <2>1. PollerStep(s)
      BY <1>1 DEF PollerActs, Poll, PollSends, PollRetracts, PollerStep,
                  SuppressAlertsForEvent, runtimeVars
    <2> QED
      BY <2>1 DEF PollerNext
  <1>2. CASE ProcessorRuns \/ Delivered
    <2>1. CASE Process
      <3>1. Receive /\ UNCHANGED <<now, run, pollerVars>>
        BY <2>1 DEF Process
      <3> QED
        BY <3>1 DEF PollerNext, ChannelStep
    <2>2. CASE SaveStep \/ Deliver \/ Delivered \/ ProcessorQuits
      BY <2>2 DEF SaveStep, Deliver, Delivered, ProcessorQuits, CheckDedup, InsertHash,
                  InsertAlert, SaveFails, EndSave, pollerSystem, runtimeVars
    <2> QED
      BY <1>2, <2>1, <2>2 DEF ProcessorRuns
  <1>3. CASE KevPolls
    BY <1>3 DEF KevPolls, KevFetch, KevQuit, pollerSystem, runtimeVars
  <1>4. CASE KevOffers
    <2>1. PICK k \in KevId : KevOffer(k)
      BY <1>4 DEF KevOffers
    <2>2. k \in Event \ MispId
      BY KevAssumption, PipelineAssumption
    <2>3. ChannelStep
      BY <1>4, <2>1, <2>2 DEF KevOffers, KevOffer, ChannelStep
    <2> QED
      BY <2>3 DEF PollerNext
  <1>5. CASE Acknowledge
    BY <1>5 DEF Acknowledge, Ack, pollerSystem, runtimeVars
  <1>6. CASE SourceChanges
    BY <1>6 DEF SourceChanges, PollerNext, ServerStep
  <1>7. CASE TimePasses \/ ProcessStarts \/ Signal \/ ProcessEnds
    BY <1>7 DEF TimePasses, ProcessStarts, Signal, ProcessEnds, StoreDie,
                PollerNext, ProcessStep
  <1>8. CASE UNCHANGED vars
    BY <1>8 DEF vars, pollerSystem
  <1> QED
    BY <1>1, <1>2, <1>3, <1>4, <1>5, <1>6, <1>7, <1>8 DEF Next

\* The processor, the KEV poller and the API leave the pollers what their
\* specification assumes of the rest of the process.
THEOREM ProcessImplementsPollers == Spec => PollerSpec
  <1>1. Init => PollerSystemInit
    BY DEF Init, PollerSystemInit
  <1>2. [Next]_vars => [PollerNext]_pollerSystem
    BY StepPollers
  <1> QED
    BY <1>1, <1>2, PTL DEF Spec, PollerSpec

-----------------------------------------------------------------------------
(* The process implements the alert store *)

\* The key of a version of a relevant event is a hash, of that event.
LEMMA KeyType ==
  ASSUME NEW item \in Item, item.id \in Relevant
  PROVE  KeyOf(item) \in Hash /\ EventOf[KeyOf(item)] = item.id
  BY PipelineAssumption DEF KeyOf, Item

\* The processor drives SaveAlert through its statements, and does nothing else to
\* the store.
LEMMA ProcessorStore ==
  ASSUME PollerInv, ProcessorRuns \/ Delivered
  PROVE  [StoreNext]_storeVars
  <1>1. CASE Process
    <2>3. Head(queue) \in Item
      BY <1>1 DEF Process, Receive, PollerInv, PollerTypeOK, RuntimeTypeOK
    <2>1. CASE Head(queue).id \in Relevant
      <3>1. BeginSave(KeyOf(Head(queue)))
        BY <1>1, <2>1 DEF Process
      <3> QED
        BY <2>1, <2>3, <3>1, KeyType DEF StoreNext
    <2>2. CASE Head(queue).id \notin Relevant
      BY <1>1, <2>2 DEF Process, saveVars, storeVars
    <2> QED
      BY <2>1, <2>2
  <1>2. CASE SaveStep
    BY <1>2 DEF SaveStep, StoreNext
  <1>3. CASE Deliver
    BY <1>3 DEF Deliver, StoreNext
  <1>4. CASE ProcessorQuits \/ Delivered
    BY <1>4 DEF ProcessorQuits, Delivered, runtimeVars, saveVars, storeVars
  <1> QED
    BY <1>1, <1>2, <1>3, <1>4 DEF ProcessorRuns

\* Suppressing the alerts of something that is no event changes no row.
LEMMA SuppressNothing ==
  ASSUME StoreInv, NEW e, e \notin Event, SuppressAlertsForEvent(e)
  PROVE  UNCHANGED storeVars
  <1>1. \A h \in Hash : EventOf[h] # e
    BY StoreAssumption
  <1>2. alerts' = alerts
    BY <1>1 DEF SuppressAlertsForEvent, StoreInv, StoreTypeOK
  <1> QED
    BY <1>2 DEF SuppressAlertsForEvent, storeVars

\* Only a retraction touches the store, by suppressing the alerts of one event.
LEMMA PollerStore ==
  ASSUME StoreInv, NEW s \in Source, PollerActs(s)
  PROVE  [StoreNext]_storeVars
  <1>1. CASE Poll(s)
    BY <1>1 DEF Poll, runtimeVars, saveVars, storeVars
  <1>2. CASE PollSends(s)
    BY <1>2 DEF PollSends, saveVars, storeVars
  <1>3. CASE PollRetracts(s)
    <2>1. PICK e : SuppressAlertsForEvent(e)
      BY <1>3 DEF PollRetracts
    <2> QED
      BY <2>1, SuppressNothing DEF StoreNext
  <1> QED
    BY <1>1, <1>2, <1>3 DEF PollerActs

LEMMA StepStore == StoreInv /\ PollerInv /\ [Next]_vars => [StoreNext]_storeVars
  <1> SUFFICES ASSUME StoreInv, PollerInv, [Next]_vars PROVE [StoreNext]_storeVars
    OBVIOUS
  <1>1. CASE \E s \in Source : PollerActs(s)
    BY <1>1, PollerStore
  <1>2. CASE ProcessorRuns \/ Delivered
    BY <1>2, ProcessorStore
  <1>3. CASE KevPolls \/ KevOffers \/ SourceChanges \/ ProcessStarts \/ Signal
    BY <1>3 DEF KevPolls, KevOffers, SourceChanges, ProcessStarts, Signal,
                runtimeVars, saveVars, storeVars
  <1>4. CASE Acknowledge
    BY <1>4 DEF Acknowledge, StoreNext
  <1>5. CASE TimePasses
    BY <1>5 DEF TimePasses, StoreNext, StoreTick, saveVars
  <1>6. CASE ProcessEnds
    BY <1>6 DEF ProcessEnds, StoreNext
  <1>7. CASE UNCHANGED vars
    BY <1>7 DEF vars, runtimeVars, storeVars
  <1> QED
    BY <1>1, <1>2, <1>3, <1>4, <1>5, <1>6, <1>7 DEF Next

\* The store's invariant holds in the process.
LEMMA StoreInvInProcess == Spec => []StoreInv
  <1>1. Init => StoreInv
    BY InitInv DEF Init
  <1>2. StoreInv /\ PollerInv /\ [Next]_vars => StoreInv'
    BY StepStore, NextInv
  <1>3. Spec => []PollerInv
    BY ProcessImplementsPollers, PollerInvariant, PTL
  <1> QED
    BY <1>1, <1>2, <1>3, PTL DEF Spec

\* The process uses the alert store as its specification says: all that is true of
\* the store alone is true of it within the process.
THEOREM ProcessImplementsStore == Spec => StoreSpec
  <1>1. Init => StoreInit
    BY DEF Init
  <1>2. StoreInv /\ PollerInv /\ [Next]_vars => [StoreNext]_storeVars
    BY StepStore
  <1>3. Spec => []PollerInv
    BY ProcessImplementsPollers, PollerInvariant, PTL
  <1> QED
    BY <1>1, <1>2, <1>3, StoreInvInProcess, PTL DEF Spec, StoreSpec

-----------------------------------------------------------------------------
(* Types of the rest of the process *)

RestTypeOK ==
    /\ KevTypeOK
    /\ work \in {Off, Idle, Delivering} \cup [pc : {"saving"}, item : Item]
    /\ retracted \in [MispHash -> {"no", "racing", "clean"}]

LEMMA RestTypes == PollerInv /\ RestTypeOK /\ [Next]_vars => RestTypeOK'
  <1> SUFFICES ASSUME PollerInv, RestTypeOK, [Next]_vars PROVE RestTypeOK'
    OBVIOUS
  <1>1. ASSUME NEW s \in Source, PollerActs(s) PROVE RestTypeOK'
    BY <1>1 DEF PollerActs, Poll, PollSends, PollRetracts,
                kevVars, KevTypeOK, RestTypeOK
  <1>2. CASE ProcessorRuns \/ Delivered
    <2>1. CASE Process
      <3>1. queue # <<>> /\ queue \in Seq(Item)
        BY <2>1 DEF Process, Receive, PollerInv, PollerTypeOK, RuntimeTypeOK
      <3>2. Head(queue) \in Item
        BY <3>1
      <3> QED
        BY <2>1, <3>2 DEF Process, kevVars, KevTypeOK, RestTypeOK
    <2>2. CASE SaveStep \/ Deliver \/ Delivered \/ ProcessorQuits
      BY <2>2 DEF SaveStep, Deliver, Delivered, ProcessorQuits, kevVars, KevTypeOK, RestTypeOK
    <2> QED
      BY <1>2, <2>1, <2>2 DEF ProcessorRuns
  <1>3. CASE KevPolls
    <2>1. KevTypeOK'
      <3>1. CASE \E listed \in SUBSET KevId : KevFetch(listed)
        BY <3>1 DEF KevFetch, KevTypeOK, RestTypeOK
      <3>2. CASE KevQuit
        BY <3>2 DEF KevQuit, KevOff, KevTypeOK, RestTypeOK
      <3> QED
        BY <1>3, <3>1, <3>2 DEF KevPolls
    <2> QED
      BY <1>3, <2>1 DEF KevPolls, RestTypeOK
  <1>4. CASE KevOffers
    BY <1>4 DEF KevOffers, KevOffer, KevTypeOK, RestTypeOK
  <1>5. CASE Acknowledge \/ SourceChanges \/ TimePasses \/ Signal
    BY <1>5 DEF Acknowledge, SourceChanges, TimePasses, Signal, kevVars,
                KevTypeOK, RestTypeOK
  <1>6. CASE ProcessStarts \/ ProcessEnds
    <2>1. KevTypeOK'
      <3>1. catalog' \subseteq KevId
        BY <1>6 DEF ProcessStarts, ProcessEnds, StartKev, KevDie, KevTypeOK, RestTypeOK
      <3>2. offer' \in {[on |-> TRUE, todo |-> {}], [on |-> FALSE, todo |-> {}]}
        BY <1>6 DEF ProcessStarts, ProcessEnds, StartKev, KevDie, KevOff
      <3>3. \A b \in BOOLEAN : [on |-> b, todo |-> {}] \in [on : BOOLEAN, todo : SUBSET KevId]
        OBVIOUS
      <3> QED
        BY <3>1, <3>2, <3>3 DEF KevTypeOK
    <2> QED
      BY <1>6, <2>1 DEF ProcessStarts, ProcessEnds, RestTypeOK
  <1>7. CASE UNCHANGED vars
    BY <1>7 DEF vars, kevVars, KevTypeOK, RestTypeOK
  <1> QED
    BY <1>1, <1>2, <1>3, <1>4, <1>5, <1>6, <1>7 DEF Next

\* Every variable of the process keeps its type, and the channel its capacity.
THEOREM TypeCorrect == Spec => []TypeOK
  <1>1. Init => RestTypeOK
    BY DEF Init, KevInit, KevOff, RestTypeOK, KevTypeOK
  <1>2. PollerInv /\ RestTypeOK /\ [Next]_vars => RestTypeOK'
    BY RestTypes
  <1>3. PollerInv /\ RestTypeOK /\ StoreInv => TypeOK
    BY DEF PollerInv, RestTypeOK, StoreInv, TypeOK
  <1>4. Spec => []PollerInv
    BY ProcessImplementsPollers, PollerInvariant, PTL
  <1> QED
    BY <1>1, <1>2, <1>3, <1>4, StoreInvInProcess, PTL DEF Spec

-----------------------------------------------------------------------------
(* A retraction sticks *)

\* The alert being saved is one of the event in the processor's hands.
SavesItsEvent ==
    step # "idle" => work.pc = "saving" /\ EventOf[alert.hash] = work.item.id

\* What a clean retraction of an alert's event establishes.
Retracted(h) ==
    retracted[h] = "clean" => ~InFlight(EventOf[h]) /\ alerts[h].status # "new"

\* No process, no processor.
DownOff == run = "down" => work.pc = "off"

StickInv == SavesItsEvent /\ \A h \in MispHash : Retracted(h)

\* Shorter channels and idle processors hold no more events.
LEMMA InFlightShrinks ==
  ASSUME NEW e, ~InFlight(e),
         \/ UNCHANGED queue
         \/ queue' = <<>>
         \/ \E S : queue \in Seq(S) /\ queue # <<>> /\ queue' = Tail(queue),
         \/ UNCHANGED work
         \/ work'.pc # "saving"
         \/ work'.item.id # e
  PROVE  ~InFlight(e)'
  <1>1. \A i \in 1..Len(queue') : queue'[i].id # e
    <2>1. CASE UNCHANGED queue \/ queue' = <<>>
      BY <2>1 DEF InFlight
    <2>2. CASE \E S : queue \in Seq(S) /\ queue # <<>> /\ queue' = Tail(queue)
      <3>1. PICK S : queue \in Seq(S) /\ queue # <<>> /\ queue' = Tail(queue)
        BY <2>2
      <3>2. /\ Len(queue') = Len(queue) - 1 /\ Len(queue) \in Nat
            /\ \A i \in 1..Len(queue') : queue'[i] = queue[i + 1]
        BY <3>1
      <3>3. \A i \in 1..Len(queue') : i + 1 \in 1..Len(queue)
        BY <3>2
      <3> QED
        BY <3>2, <3>3 DEF InFlight
    <2> QED
      BY <2>1, <2>2
  <1> QED
    BY <1>1 DEF InFlight

\* An item of another event in the channel is no copy of the event.
LEMMA InFlightAppend ==
  ASSUME NEW e, NEW S, queue \in Seq(S), NEW item \in S, item.id # e, ~InFlight(e),
         UNCHANGED work, queue' = Append(queue, item) \/ UNCHANGED queue
  PROVE  ~InFlight(e)'
  <1>1. CASE UNCHANGED queue
    BY <1>1 DEF InFlight
  <1>2. CASE queue' = Append(queue, item)
    <2>1. /\ Len(queue) \in Nat /\ Len(queue') = Len(queue) + 1
          /\ \A i \in 1..Len(queue) : queue'[i] = queue[i]
          /\ queue'[Len(queue) + 1] = item
      BY <1>2, AppendProperties
    <2>2. \A i \in 1..Len(queue') : queue'[i].id # e
      BY <2>1 DEF InFlight
    <2> QED
      BY <2>2 DEF InFlight
  <1> QED
    BY <1>1, <1>2

\* Nothing that a step does to the rest of the process disturbs a retraction.
LEMMA StickKept ==
  ASSUME StickInv, UNCHANGED <<queue, alerts, step, alert, work, retracted>>
  PROVE  StickInv'
  BY DEF StickInv, SavesItsEvent, Retracted, InFlight

LEMMA ProcessorSticks ==
  ASSUME StoreInv, PollerInv, StickInv, ProcessorRuns \/ Delivered
  PROVE  StickInv'
  <1>1. queue \in Seq(Item)
    BY DEF PollerInv, PollerTypeOK, RuntimeTypeOK
  <1>2. CASE Process
    <2> DEFINE item == Head(queue)
    <2>1. queue # <<>> /\ queue' = Tail(queue) /\ UNCHANGED <<alerts, retracted>>
      BY <1>2 DEF Process, Receive, BeginSave, saveVars
    <2>2. Len(queue) \in Nat /\ Len(queue) >= 1 /\ item = queue[1]
      BY <1>1, <2>1
    <2>3. ASSUME NEW h \in MispHash, retracted[h] = "clean"
          PROVE  item.id # EventOf[h]
      BY <2>2, <2>3 DEF StickInv, Retracted, InFlight
    <2>4. CASE item.id \in Relevant
      <3>1. BeginSave(KeyOf(item)) /\ work' = [pc |-> "saving", item |-> item]
        BY <1>2, <2>4 DEF Process
      <3>2. SavesItsEvent'
        <4>1. alert'.hash = KeyOf(item) /\ work'.pc = "saving" /\ work'.item = item
          BY <3>1 DEF BeginSave
        <4> QED
          BY <1>1, <2>2, <2>4, <4>1, KeyType DEF SavesItsEvent
      <3>3. ASSUME NEW h \in MispHash PROVE Retracted(h)'
        BY <1>1, <2>1, <2>3, <3>1, InFlightShrinks DEF StickInv, Retracted
      <3> QED
        BY <3>2, <3>3 DEF StickInv
    <2>5. CASE item.id \notin Relevant
      <3>1. UNCHANGED <<step, alert, work>>
        BY <1>2, <2>5 DEF Process, saveVars
      <3>2. ASSUME NEW h \in MispHash PROVE Retracted(h)'
        BY <1>1, <2>1, <3>1, InFlightShrinks DEF StickInv, Retracted
      <3> QED
        BY <3>1, <3>2 DEF StickInv, SavesItsEvent
    <2> QED
      BY <2>4, <2>5
  <1>3. CASE SaveStep
    <2>1. UNCHANGED <<queue, work, retracted, alert>> /\ step # "idle"
      BY <1>3 DEF SaveStep, CheckDedup, InsertHash, InsertAlert, SaveFails
    <2>2. SavesItsEvent'
      BY <2>1 DEF StickInv, SavesItsEvent
    <2>3. ASSUME NEW h \in MispHash PROVE Retracted(h)'
      <3>1. CASE InsertAlert
        <4>1. EventOf[alert.hash] = work.item.id /\ work.pc = "saving"
          BY <2>1 DEF StickInv, SavesItsEvent
        <4>2. \A g \in Hash : EventOf[g] # work.item.id => alerts'[g] = alerts[g]
          BY <3>1, <4>1 DEF InsertAlert, StoreInv, StoreTypeOK
        <4> QED
          BY <2>1, <4>1, <4>2 DEF StickInv, Retracted, InFlight, MispHash
      <3>2. CASE CheckDedup \/ InsertHash \/ SaveFails
        BY <2>1, <3>2 DEF CheckDedup, InsertHash, SaveFails, StickInv, Retracted,
                          InFlight
      <3> QED
        BY <1>3, <3>1, <3>2 DEF SaveStep
    <2> QED
      BY <2>2, <2>3 DEF StickInv
  <1>4. CASE Deliver \/ Delivered \/ ProcessorQuits
    <2>1. /\ UNCHANGED <<queue, alerts, retracted>> /\ work'.pc # "saving"
          /\ step' # "idle" => step' = step /\ work.pc # "saving"
      BY <1>4 DEF Deliver, Delivered, ProcessorQuits, EndSave, Idle, Off, Delivering,
                  runtimeVars, saveVars
    <2>2. SavesItsEvent'
      BY <2>1 DEF StickInv, SavesItsEvent
    <2>3. ASSUME NEW h \in MispHash PROVE Retracted(h)'
      BY <2>1, InFlightShrinks DEF StickInv, Retracted
    <2> QED
      BY <2>2, <2>3 DEF StickInv
  <1> QED
    BY <1>2, <1>3, <1>4 DEF ProcessorRuns

\* A retraction establishes what it claims, and a send withdraws it.
LEMMA PollerSticks ==
  ASSUME StoreInv, PollerInv, RestTypeOK, StickInv, NEW s \in Source, PollerActs(s)
  PROVE  StickInv'
  <1> DEFINE raw == Head(poll[s].batch)
  <1>1. /\ queue \in Seq(Item) /\ poll[s] \in PollT /\ HasEvent(poll[s])
        /\ retracted \in [MispHash -> {"no", "racing", "clean"}]
    BY DEF PollerInv, PollerTypeOK, RuntimeTypeOK, RestTypeOK
  <1>2. CASE Poll(s)
    BY <1>2, StickKept DEF Poll, runtimeVars, saveVars
  <1>3. CASE PollSends(s)
    <2>1. /\ UNCHANGED <<work, dedup, alerts, step, alert>>
          /\ retracted' = [h \in MispHash |->
                              IF EventOf[h] = raw.id THEN "no" ELSE retracted[h]]
          /\ queue' = Append(queue, [id |-> raw.id, ts |-> raw.ts])
          /\ poll[s].pc = "send"
      BY <1>3 DEF PollSends, SendEvent, Send, saveVars
    <2>2. raw \in Raw
      BY <1>1, <2>1 DEF PollT, HasEvent, Handling
    <2>3. [id |-> raw.id, ts |-> raw.ts] \in Item
      BY <2>2, PollerAssumption, TimeFacts DEF Raw, Item
    <2>4. ASSUME NEW h \in MispHash PROVE Retracted(h)'
      <3>1. CASE EventOf[h] = raw.id
        BY <1>1, <2>1, <2>2, <3>1 DEF Retracted
      <3>2. CASE EventOf[h] # raw.id
        BY <1>1, <2>1, <2>3, <3>2, InFlightAppend DEF StickInv, Retracted
      <3> QED
        BY <3>1, <3>2
    <2> QED
      BY <2>1, <2>4 DEF StickInv, SavesItsEvent
  <1>4. CASE PollRetracts(s)
    <2>1. /\ UNCHANGED <<queue, work, step, alert>>
          /\ retracted' = [h \in MispHash |->
                              IF EventOf[h] # raw.id THEN retracted[h]
                              ELSE IF InFlight(raw.id) THEN "racing" ELSE "clean"]
          /\ SuppressAlertsForEvent(raw.id)
      BY <1>4 DEF PollRetracts, SuppressAlertsForEvent
    <2>2. \A h \in Hash : /\ EventOf[h] # raw.id => alerts'[h] = alerts[h]
                          /\ EventOf[h] = raw.id => alerts'[h].status # "new"
      <3> SUFFICES ASSUME NEW h \in Hash, EventOf[h] = raw.id
                   PROVE  alerts'[h].status # "new"
        BY <2>1 DEF SuppressAlertsForEvent
      <3>1. CASE Exists(h)
        <4>1. alerts[h] \in Row
          BY <3>1, ExistingRow DEF StoreInv
        <4>2. alerts'[h] = [alerts[h] EXCEPT !.status = "suppressed"]
          BY <2>1, <3>1 DEF SuppressAlertsForEvent
        <4> QED
          BY <4>1, <4>2 DEF Row
      <3>2. CASE ~Exists(h)
        <4>1. alerts[h] = NoRow
          BY <3>2, TimeFacts DEF StoreInv, StoreTypeOK, Exists, Row
        <4> QED
          BY <2>1, <3>2, <4>1 DEF SuppressAlertsForEvent, NoRow
      <3> QED
        BY <3>1, <3>2
    <2>3. ASSUME NEW h \in MispHash PROVE Retracted(h)'
      <3>1. InFlight(EventOf[h])' <=> InFlight(EventOf[h])
        BY <2>1 DEF InFlight
      <3>2. h \in Hash
        BY DEF MispHash
      <3> QED
        BY <1>1, <2>1, <2>2, <3>1, <3>2 DEF StickInv, Retracted
    <2> QED
      BY <2>1, <2>3 DEF StickInv, SavesItsEvent
  <1> QED
    BY <1>2, <1>3, <1>4 DEF PollerActs

LEMMA AcknowledgeSticks ==
  ASSUME StoreInv, StickInv, Acknowledge
  PROVE  StickInv'
  <1>1. PICK h \in Hash, s \in AckStatus \cup {""} :
            /\ Ack(h, s)
            /\ retracted' = [g \in MispHash |->
                               IF g = h /\ s = "new" THEN "no" ELSE retracted[g]]
    BY DEF Acknowledge
  <1> DEFINE set == IF s = "" THEN "acked" ELSE s
  <1>2. alerts' = [alerts EXCEPT ![h].status = set] /\ (s # "new" => set # "new")
    BY <1>1 DEF Ack
  <1> HIDE DEF set
  <1>3. alerts[h] \in Row /\ alerts \in [Hash -> Row \cup {NoRow}]
    BY <1>1, ExistingRow DEF Ack, StoreInv, StoreTypeOK
  <1>4. alerts'[h].status = set /\ \A g \in Hash \ {h} : alerts'[g] = alerts[g]
    BY <1>2, <1>3 DEF Row
  <1>5. UNCHANGED <<queue, work, step, alert>>
    BY <1>1 DEF Acknowledge, Ack
  <1>6. ASSUME NEW g \in MispHash PROVE Retracted(g)'
    <2>1. g \in Hash /\ (InFlight(EventOf[g])' <=> InFlight(EventOf[g]))
      BY <1>5 DEF MispHash, InFlight
    <2> QED
      BY <1>1, <1>2, <1>4, <2>1 DEF StickInv, Retracted
  <1> QED
    BY <1>5, <1>6 DEF StickInv, SavesItsEvent

LEMMA RestSticks ==
  ASSUME PollerInv, StickInv, DownOff,
         \/ KevPolls \/ KevOffers \/ SourceChanges \/ TimePasses
         \/ ProcessStarts \/ Signal \/ ProcessEnds
  PROVE  StickInv'
  <1>1. queue \in Seq(Item)
    BY DEF PollerInv, PollerTypeOK, RuntimeTypeOK
  <1>2. CASE KevPolls \/ SourceChanges \/ TimePasses \/ Signal
    BY <1>2, StickKept DEF KevPolls, KevFetch, KevQuit, SourceChanges, TimePasses,
                           Signal, runtimeVars, saveVars
  <1>3. CASE KevOffers
    <2>1. PICK k \in KevId : KevOffer(k)
      BY <1>3 DEF KevOffers
    <2> DEFINE item == [id |-> k, ts |-> Never]
    <2>2. item \in Item /\ item.id \notin MispId
      BY KevAssumption, PipelineAssumption, TimeFacts DEF Item
    <2>3. queue' = Append(queue, item) \/ UNCHANGED queue
      BY <2>1 DEF KevOffer, TrySend
    <2>4. UNCHANGED <<work, alerts, step, alert, retracted>>
      BY <1>3 DEF KevOffers, saveVars
    <2> HIDE DEF item
    <2>5. ASSUME NEW h \in MispHash PROVE Retracted(h)'
      BY <1>1, <2>2, <2>3, <2>4, InFlightAppend DEF StickInv, Retracted, MispHash
    <2> QED
      BY <2>4, <2>5 DEF StickInv, SavesItsEvent
  <1>4. CASE ProcessEnds
    <2>1. /\ queue' = <<>> /\ work'.pc # "saving" /\ step' = "idle"
          /\ UNCHANGED <<alerts, retracted>>
      BY <1>4 DEF ProcessEnds, Die, StoreDie, Off
    <2>2. ASSUME NEW h \in MispHash PROVE Retracted(h)'
      BY <2>1, InFlightShrinks DEF StickInv, Retracted
    <2> QED
      BY <2>1, <2>2 DEF StickInv, SavesItsEvent
  <1>5. CASE ProcessStarts
    <2>1. /\ UNCHANGED <<queue, alerts, retracted, step, alert>>
          /\ work'.pc # "saving" /\ run = "down"
      BY <1>5 DEF ProcessStarts, Start, Idle, saveVars
    <2>2. ASSUME NEW h \in MispHash PROVE Retracted(h)'
      BY <2>1, InFlightShrinks DEF StickInv, Retracted
    <2>3. step = "idle"
      BY <2>1 DEF StickInv, SavesItsEvent, DownOff
    <2> QED
      BY <2>1, <2>2, <2>3 DEF StickInv, SavesItsEvent
  <1> QED
    BY <1>2, <1>3, <1>4, <1>5

LEMMA NextDownOff == DownOff /\ [Next]_vars => DownOff'
  <1> SUFFICES ASSUME DownOff, [Next]_vars PROVE DownOff'
    OBVIOUS
  <1>1. ASSUME NEW s \in Source, PollerActs(s) PROVE UNCHANGED <<run, work>>
    BY <1>1 DEF PollerActs, Poll, PollSends, PollRetracts, runtimeVars
  <1>2. CASE ProcessorRuns \/ Delivered
    <2>1. CASE Process \/ Deliver \/ Delivered \/ ProcessorQuits
      BY <2>1 DEF Process, Deliver, Delivered, ProcessorQuits, Delivering, runtimeVars,
                  DownOff
    <2>2. CASE SaveStep
      BY <2>2 DEF SaveStep, DownOff
    <2> QED
      BY <1>2, <2>1, <2>2 DEF ProcessorRuns
  <1>3. CASE \/ KevPolls \/ KevOffers \/ Acknowledge \/ SourceChanges \/ TimePasses
             \/ UNCHANGED vars
    <2>1. UNCHANGED <<run, work>>
      BY <1>3 DEF KevPolls, KevOffers, Acknowledge, SourceChanges, TimePasses, vars,
                  runtimeVars
    <2> QED
      BY <2>1 DEF DownOff
  <1>4. CASE ProcessStarts
    BY <1>4 DEF ProcessStarts, Start, DownOff
  <1>5. CASE Signal
    BY <1>5 DEF Signal, Cancel, DownOff
  <1>6. CASE ProcessEnds
    BY <1>6 DEF ProcessEnds, Off, DownOff
  <1> QED
    BY <1>1, <1>2, <1>3, <1>4, <1>5, <1>6 DEF Next, DownOff

LEMMA NextStickInv ==
  ASSUME StoreInv, PollerInv, RestTypeOK, StickInv, DownOff, [Next]_vars
  PROVE  StickInv'
  <1>1. ASSUME NEW s \in Source, PollerActs(s) PROVE StickInv'
    BY <1>1, PollerSticks
  <1>2. CASE ProcessorRuns \/ Delivered
    BY <1>2, ProcessorSticks
  <1>3. CASE Acknowledge
    BY <1>3, AcknowledgeSticks
  <1>4. CASE \/ KevPolls \/ KevOffers \/ SourceChanges \/ TimePasses
             \/ ProcessStarts \/ Signal \/ ProcessEnds
    BY <1>4, RestSticks
  <1>5. CASE UNCHANGED vars
    BY <1>5, StickKept DEF vars, runtimeVars
  <1> QED
    BY <1>1, <1>2, <1>3, <1>4, <1>5 DEF Next

\* A retraction that finds no copy of the event in the channel or in the processor's
\* hands sticks: no statement of SaveAlert, restart or expired hash makes an alert of
\* the event new again before a poller sends the event again or a request sets that
\* very alert to new.
THEOREM RetractionSticks == Spec => []SuppressionSticks
  <1>1. Init => RestTypeOK /\ StickInv /\ DownOff
    BY DEF Init, KevInit, KevOff, RestTypeOK, KevTypeOK, StickInv, StoreInit,
           SavesItsEvent, Retracted, DownOff, Off
  <1>2. Spec => [](StoreInv /\ PollerInv)
    BY StoreInvInProcess, ProcessImplementsPollers, PollerInvariant, PTL
  <1>3. StoreInv /\ PollerInv /\ RestTypeOK /\ StickInv /\ DownOff /\ [Next]_vars
          => RestTypeOK' /\ StickInv' /\ DownOff'
    BY RestTypes, NextStickInv, NextDownOff
  <1>4. StickInv => SuppressionSticks
    BY Zenon DEF StickInv, Retracted, SuppressionSticks
  <1> QED
    BY <1>1, <1>2, <1>3, <1>4, PTL DEF Spec

-----------------------------------------------------------------------------
(* The versions of an event are processed in order *)

\* A version the pollers have taken, or an event of another source.
TakenItem(item) == IF item.id \in MispId THEN item.ts <= taken[item.id]
                                         ELSE item.ts = Never

\* The processor has a taken version, and no newer copy of it is behind an older one.
HandInOrder ==
    /\ TakenItem(work.item)
    /\ \A i \in Places(queue) : work.item.id = queue[i].id => work.item.ts <= queue[i].ts

\* What was taken is only replaced by newer versions.
LEMMA TakenGrows ==
  ASSUME OneSource, OrderInv, [Next]_vars
  PROVE  \A e \in MispId : taken[e] <= taken'[e]
  <1>1. \A e \in MispId : taken[e] <= taken[e]
    <2>1. taken \in [MispId -> Stamp]
      BY DEF OrderInv, CursorInv, PollerInv, PollerTypeOK
    <2>2. \A e \in MispId : taken[e] \in Int
      BY <2>1, TimeFacts
    <2> QED
      BY <2>2
  <1>2. CASE \E s \in Source : SendEvent(s) \/ Retract(s)
    BY <1>2, TakeFacts
  <1>3. CASE taken' = taken
    BY <1>1, <1>3
  <1>4. [PollerNext]_pollerSystem
    BY StepPollers
  <1> QED
    BY <1>2, <1>3, <1>4
    DEF PollerNext, PollerStep, QuietStep, StartPoller, BeginPoll, Fetch, FetchFails,
        Examine, Store, SaveCursor, Quit, ExamineFails,
        RetractFails, ServerStep, Edit, ChannelStep, ProcessStep,
        PollersDie, pollerSystem, pollerVars

\* The item in hand has a type, whether the processor works or waits.
LEMMA HandType ==
  ASSUME RestTypeOK
  PROVE  work.item.ts \in Int
  <1>1. NoItem.ts \in Int /\ \A item \in Item : item.ts \in Int
    BY TimeFacts DEF NoItem, Item, Never
  <1>2. work.item \in Item \cup {NoItem}
    BY DEF RestTypeOK, Off, Idle, Delivering
  <1> QED
    BY <1>1, <1>2

\* No item in hand, or the same, and a channel that lost its first item or all.
LEMMA HandKept ==
  ASSUME OneSource, OrderInv, RestTypeOK, HandInOrder, [Next]_vars,
         work'.item \in {work.item, NoItem},
         \/ queue' \in {queue, <<>>}
         \/ queue # <<>> /\ queue' = Tail(queue)
  PROVE  HandInOrder'
  <1>1. PollerTypeOK /\ taken' \in [MispId -> Stamp]
    <2>1. OrderInv'
      BY StepPollers, NextOrder
    <2> QED
      BY <2>1 DEF OrderInv, CursorInv, PollerInv, PollerTypeOK
  <1>2. /\ \A i \in Places(queue) : queue[i].ts \in Int /\ queue[i].ts >= Never
        /\ \A e \in MispId : taken[e] \in Int /\ taken'[e] \in Int /\ taken'[e] >= Never
        /\ queue \in Seq(Item)
    <2>1. \A t \in Stamp : t \in Int /\ t >= Never
      BY BaseAssumption DEF Stamp, Time, Never
    <2>2. queue \in Seq(Item) /\ \A i \in Places(queue) : queue[i] \in Item
      BY <1>1, ItemFacts
    <2> QED
      BY <1>1, <2>1, <2>2 DEF PollerTypeOK, Item
  <1>3. ASSUME NEW i \in Places(queue') PROVE \E j \in Places(queue) : queue'[i] = queue[j]
    <2>1. CASE queue' = queue \/ queue' = <<>>
      BY <2>1 DEF Places
    <2>2. CASE queue # <<>> /\ queue' = Tail(queue)
      BY <1>2, <2>2, TailPlaces
    <2> QED
      BY <2>1, <2>2
  <1>4. work.item.ts \in Int /\ \A e \in MispId : taken[e] <= taken'[e]
    BY HandType, TakenGrows
  <1>5. CASE work'.item = work.item
    <2>1. TakenItem(work.item)'
      BY <1>2, <1>4, <1>5 DEF HandInOrder, TakenItem
    <2>2. \A i \in Places(queue') : work'.item.id = queue'[i].id
                                      => work'.item.ts <= queue'[i].ts
      BY <1>3, <1>5 DEF HandInOrder
    <2> QED
      BY <2>1, <2>2 DEF HandInOrder
  <1>6. CASE work'.item = NoItem
    <2>1. work'.item.ts = Never
      BY <1>6 DEF NoItem
    <2>2. TakenItem(work.item)'
      BY <1>2, <2>1 DEF TakenItem
    <2>3. \A i \in Places(queue') : work'.item.ts <= queue'[i].ts
      BY <1>2, <1>3, <2>1
    <2> QED
      BY <2>2, <2>3 DEF HandInOrder
  <1> QED
    BY <1>5, <1>6

\* The processor takes the first item of the channel: every copy behind it is as new.
LEMMA ProcessHand ==
  ASSUME OneSource, OrderInv, RestTypeOK, HandInOrder, Process
  PROVE  HandInOrder'
  <1>1. queue # <<>> /\ queue' = Tail(queue) /\ queue \in Seq(Item) /\ taken' = taken
    BY DEF Process, Receive, OrderInv, CursorInv, PollerInv, PollerTypeOK, RuntimeTypeOK,
           pollerVars
  <1>2. CASE Head(queue).id \notin Relevant
    BY <1>1, <1>2, HandKept DEF Process, Next, ProcessorRuns
  <1>3. CASE Head(queue).id \in Relevant
    <2>1. work'.item = queue[1] /\ 1 \in Places(queue)
      <3>1. Head(queue) = queue[1] /\ 1 \in Places(queue)
        BY <1>1, HeadTailProperties, EmptySeq DEF Places
      <3>2. work' = [pc |-> "saving", item |-> Head(queue)]
        BY <1>3 DEF Process
      <3> QED
        BY <3>1, <3>2
    <2>2. TakenItem(work.item)'
      BY <1>1, <2>1 DEF OrderInv, QueueInOrder, TakenItem
    <2>3. ASSUME NEW i \in Places(queue'), work'.item.id = queue'[i].id
          PROVE  work'.item.ts <= queue'[i].ts
      <3>1. i + 1 \in Places(queue) /\ queue'[i] = queue[i + 1] /\ 1 < i + 1
        BY <1>1, TailPlaces DEF Places
      <3> QED
        BY <2>1, <2>3, <3>1 DEF OrderInv, QueueInOrder
    <2> QED
      BY <2>2, <2>3 DEF HandInOrder
  <1> QED
    BY <1>2, <1>3

\* What goes to the end of the channel is as new as the copy in hand.
LEMMA SendHand ==
  ASSUME OneSource, OrderInv, RestTypeOK, HandInOrder, [Next]_vars, UNCHANGED work,
         NEW item, queue' = Append(queue, item),
         IF item.id \in MispId THEN item.ts = taken'[item.id] ELSE item.ts = Never
  PROVE  HandInOrder'
  <1>1. /\ queue \in Seq(Item) /\ taken \in [MispId -> Stamp] /\ work.item.ts \in Int
        /\ \A e \in MispId : taken[e] <= taken'[e]
    BY HandType, TakenGrows
    DEF OrderInv, CursorInv, PollerInv, PollerTypeOK, RuntimeTypeOK
  <1>2. \A e \in MispId : taken[e] \in Int /\ taken'[e] \in Int
    <2>1. OrderInv'
      BY StepPollers, NextOrder
    <2> QED
      BY <1>1, <2>1, TimeFacts DEF OrderInv, CursorInv, PollerInv, PollerTypeOK
  <1>3. TakenItem(work.item)'
    BY <1>1, <1>2 DEF HandInOrder, TakenItem
  <1>4. work.item.id = item.id => work.item.ts <= item.ts
    BY <1>1, <1>2 DEF HandInOrder, TakenItem
  <1>5. ASSUME NEW i \in Places(queue')
        PROVE  \/ i \in Places(queue) /\ queue'[i] = queue[i]
               \/ queue'[i] = item
    BY <1>1 DEF Places
  <1>6. \A i \in Places(queue') : work'.item.id = queue'[i].id
                                    => work'.item.ts <= queue'[i].ts
    BY <1>4, <1>5 DEF HandInOrder
  <1> QED
    BY <1>3, <1>6 DEF HandInOrder

LEMMA NextHand ==
  ASSUME OneSource, OrderInv, RestTypeOK, HandInOrder, [Next]_vars
  PROVE  HandInOrder'
  <1>1. CASE \/ \E s \in Source : Poll(s) \/ PollRetracts(s)
             \/ SaveStep \/ KevPolls \/ Acknowledge \/ SourceChanges \/ TimePasses \/ Signal
             \/ UNCHANGED vars
    <2>1. UNCHANGED <<queue, work>>
      BY <1>1 DEF Poll, PollRetracts, SaveStep, KevPolls, Acknowledge,
                  SourceChanges, TimePasses, Signal, vars, runtimeVars
    <2> QED
      BY <2>1, HandKept
  <1>2. ASSUME NEW s \in Source, PollSends(s) PROVE HandInOrder'
    <2> DEFINE raw == Head(poll[s].batch)
               item == [id |-> raw.id, ts |-> raw.ts]
    <2>1. queue' = Append(queue, item) /\ UNCHANGED work /\ SendEvent(s)
      BY <1>2 DEF PollSends, SendEvent, Send
    <2>2. raw.id \in MispId /\ taken' = [taken EXCEPT ![raw.id] = raw.ts]
      BY <2>1, TakeFacts
    <2>3. taken \in [MispId -> Stamp]
      BY DEF OrderInv, CursorInv, PollerInv, PollerTypeOK
    <2>4. item.id \in MispId /\ item.ts = taken'[item.id]
      BY <2>2, <2>3
    <2> HIDE DEF item
    <2> QED
      BY <2>1, <2>4, SendHand
  <1>3. CASE KevOffers
    <2>1. PICK k \in KevId : KevOffer(k)
      BY <1>3 DEF KevOffers
    <2> DEFINE item == [id |-> k, ts |-> Never]
    <2>2. UNCHANGED work /\ (queue' = Append(queue, item) \/ queue' = queue)
      BY <1>3, <2>1 DEF KevOffers, KevOffer, TrySend
    <2>3. item.id \notin MispId /\ item.ts = Never
      BY PipelineAssumption
    <2> HIDE DEF item
    <2> QED
      BY <2>2, <2>3, SendHand, HandKept
  <1>4. CASE Process
    BY <1>4, ProcessHand
  <1>5. CASE Deliver \/ Delivered \/ ProcessorQuits \/ ProcessStarts \/ ProcessEnds
    <2>1. work'.item = NoItem /\ queue' \in {queue, <<>>}
      BY <1>5 DEF Deliver, Delivered, ProcessorQuits, ProcessStarts, ProcessEnds, Die, Idle,
                  Off, Delivering,
                  runtimeVars
    <2> QED
      BY <2>1, HandKept
  <1> QED
    BY <1>1, <1>2, <1>3, <1>4, <1>5 DEF Next, PollerActs, ProcessorRuns

LEMMA OrderedLine ==
  ASSUME OrderInv, HandInOrder, work.item.ts \in Int
  PROVE  VersionsInOrder
  <1> DEFINE line == <<work.item>> \o queue
  <1>1. queue \in Seq(Item) /\ Len(queue) \in Nat
    BY DEF OrderInv, CursorInv, PollerInv, PollerTypeOK, RuntimeTypeOK
  <1>2. /\ Len(line) = Len(queue) + 1
        /\ line[1] = work.item
        /\ \A i \in 2..Len(line) : line[i] = queue[i - 1] /\ i - 1 \in Places(queue)
    BY <1>1 DEF Places
  <1> HIDE DEF line
  <1>3. ASSUME NEW i \in 1..Len(line), NEW j \in 1..Len(line), i < j, line[i].id = line[j].id
        PROVE  line[i].ts <= line[j].ts
    <2>1. line[j] = queue[j - 1] /\ j - 1 \in Places(queue)
      BY <1>1, <1>2, <1>3
    <2>2. CASE i = 1
      BY <1>2, <1>3, <2>1, <2>2 DEF HandInOrder
    <2>3. CASE i # 1
      <3>1. line[i] = queue[i - 1] /\ i - 1 \in Places(queue) /\ i - 1 < j - 1
        BY <1>1, <1>2, <1>3, <2>3
      <3> QED
        BY <1>3, <2>1, <3>1 DEF OrderInv, QueueInOrder
    <2> QED
      BY <2>2, <2>3
  <1> QED
    BY <1>3 DEF VersionsInOrder, line

\* With one source, the versions of an event are processed in the order the server made
\* them, through any channel, pages, faults, restarts and edits during a poll.
THEOREM ProcessedInOrder ==
  ASSUME OneSource
  PROVE  Spec => []VersionsInOrder
  <1>1. Init => RestTypeOK /\ HandInOrder
    <2> SUFFICES ASSUME Init PROVE RestTypeOK /\ HandInOrder
      OBVIOUS
    <2>1. RestTypeOK
      BY DEF Init, KevInit, KevOff, RestTypeOK, KevTypeOK
    <2>2. queue = <<>> /\ work.item.ts = Never /\ \A e \in MispId : taken[e] = Never
      BY DEF Init, RuntimeInit, PollerInit, Off, NoItem
    <2> QED
      BY <2>1, <2>2 DEF HandInOrder, TakenItem, Places, Never
  <1>2. Spec => []OrderInv
    BY ProcessImplementsPollers, OrderInvariant, PTL
  <1>3. Spec => []PollerInv
    BY ProcessImplementsPollers, PollerInvariant, PTL
  <1>4. PollerInv /\ OrderInv /\ RestTypeOK /\ HandInOrder /\ [Next]_vars
          => RestTypeOK' /\ HandInOrder'
    BY RestTypes, NextHand
  <1>5. OrderInv /\ RestTypeOK /\ HandInOrder => VersionsInOrder
    BY HandType, OrderedLine
  <1> QED
    BY <1>1, <1>2, <1>3, <1>4, <1>5, PTL DEF Spec

\* The processor, the KEV poller and the API cost the pollers no version: under the
\* hypotheses of NothingIsSkipped, what the cursor has passed went into the channel of the
\* whole process, or its alerts were suppressed, or one of the two errors that poll logs
\* and passes over took it away.
THEOREM ProcessSkipsNothing ==
  ASSUME OneSource, Quiet, ByTime \/ OnePage, MaxTime <= ColdWindow
  PROVE  Spec => []NothingSkipped
  <1>1. PollerSpec => []NothingSkipped
    BY NothingIsSkipped
  <1> QED
    BY <1>1, ProcessImplementsPollers, PTL

=============================================================================
