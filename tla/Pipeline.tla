------------------------------ MODULE Pipeline ------------------------------
(***************************************************************************)
(* The arbiter process (cmd/arbiter/main.go): MISP pollers and the KEV     *)
(* poller feed one channel; one processor takes events from it, filters,   *)
(* matches and scores them, saves the alert, and notifies; the HTTP API    *)
(* acknowledges alerts; a signal or a crash ends it all, and the process   *)
(* is started again on the same database.                                  *)
(*                                                                         *)
(* Filtering, matching and scoring are functions of the event, of the      *)
(* organisation (fixed while the process runs) and of the KEV catalog at   *)
(* the moment of the match; what the pipeline needs of them is whether an  *)
(* event raises an alert, and under which deduplication key: the key holds *)
(* the title, the severity and the score, which its versions may change.   *)
(***************************************************************************)
EXTENDS MispPoller, KevPoller, AlertStore

CONSTANTS Relevant,   \* events that pass the filter and match the organisation
          CveOf,      \* the known CVEs an event carries
          DedupKey    \* key of the alert of a version, with the KEV boost or without

ASSUME PipelineAssumption ==
    /\ Relevant \subseteq Event
    /\ MispId \cap KevId = {}
    /\ CveOf \in [Event -> SUBSET KevId]
    /\ DedupKey \in [Relevant \X Stamp \X BOOLEAN -> Hash]
    /\ \A e \in Relevant, ts \in Stamp, boosted \in BOOLEAN :
            EventOf[DedupKey[<<e, ts, boosted>>]] = e

VARIABLES work,       \* the processor goroutine: where it stands, with which event
          retracted   \* history: the last retraction of an alert's event, if neither
                      \* a poller nor a request called for the alert since, and
                      \* whether a copy of the event was then in flight

vars == <<runtimeVars, pollerVars, kevVars, dedup, alerts, step, alert, work, retracted>>

saveVars == <<dedup, alerts, step, alert>>

NoItem == [id |-> 0, ts |-> Never]
Off    == [pc |-> "off",  item |-> NoItem]
Idle   == [pc |-> "idle", item |-> NoItem]
Delivering == [pc |-> "delivering", item |-> NoItem]

\* The alerts of MISP events: KEV entries are never retracted.
MispHash == {h \in Hash : EventOf[h] \in MispId}

\* The event is in the channel or in the processor's hands.
InFlight(e) == \/ \E i \in 1..Len(queue) : queue[i].id = e
               \/ work.pc = "saving" /\ work.item.id = e

TypeOK ==
    /\ PollerTypeOK /\ KevTypeOK /\ StoreTypeOK
    /\ work \in {Off, Idle, Delivering} \cup [pc : {"saving"}, item : Item]
    /\ retracted \in [MispHash -> {"no", "racing", "clean"}]

Init ==
    /\ RuntimeInit /\ PollerInit /\ KevInit /\ StoreInit
    /\ work = Off
    /\ retracted = [h \in MispHash |-> "no"]

-----------------------------------------------------------------------------
(* The event processor *)

KeyOf(item) == DedupKey[<<item.id, item.ts, CveOf[item.id] \cap catalog # {}>>]

\* Faulty variant: the deduplication check is skipped.
ProcessUnchecked ==
    /\ work.pc = "idle"
    /\ Receive
    /\ LET item == Head(queue) IN
         IF item.id \in Relevant
           THEN /\ step' = "hash"
                /\ alert' = [hash |-> KeyOf(item), at |-> now]
                /\ work' = [pc |-> "saving", item |-> item]
                /\ UNCHANGED <<dedup, alerts>>
           ELSE UNCHANGED <<saveVars, work>>
    /\ UNCHANGED <<now, run, pollerVars, kevVars, retracted>>

\* One event is taken, tagged, filtered, matched and scored; NewAlert and the
\* call of SaveAlert follow if it matched.
Process ==
    /\ work.pc = "idle"
    /\ Receive
    /\ LET item == Head(queue) IN
         IF item.id \in Relevant
           THEN /\ BeginSave(KeyOf(item))
                /\ work' = [pc |-> "saving", item |-> item]
           ELSE UNCHANGED <<saveVars, work>>
    /\ UNCHANGED <<now, run, pollerVars, kevVars, retracted>>

SaveStep ==
    /\ CheckDedup \/ InsertHash \/ InsertAlert \/ SaveFails
    /\ UNCHANGED <<run, queue, pollerVars, kevVars, work, retracted>>

\* Faulty variant: an event whose alert was not saved is put back.
DeliverOrRequeue ==
    /\ work.pc = "saving" /\ EndSave
    /\ IF step = "failed" THEN TrySend(work.item) ELSE UNCHANGED queue
    /\ work' = Delivering
    /\ UNCHANGED <<run, pollerVars, kevVars, retracted>>

\* Faulty variant: an error ends the processor.
DeliverOrReturn ==
    /\ work.pc = "saving" /\ EndSave
    /\ work' = IF step = "failed" THEN Off ELSE Delivering
    /\ UNCHANGED <<run, queue, pollerVars, kevVars, retracted>>

\* SaveAlert has returned. Whether it stored the alert, found a duplicate or
\* failed, the processor itself sends the alert to the channels of its rules, and
\* then its indicators to the EDR export.
Deliver ==
    /\ work.pc = "saving" /\ EndSave
    /\ work' = Delivering
    /\ UNCHANGED <<run, queue, pollerVars, kevVars, retracted>>

\* The last of those calls has returned; its error is only logged. A mail server
\* that neither answers nor refuses keeps the processor here for ever.
Delivered ==
    /\ work = Delivering
    /\ work' = Idle
    /\ UNCHANGED <<runtimeVars, pollerVars, kevVars, saveVars, retracted>>

\* The select may take an event although the context is cancelled.
ProcessorQuits ==
    /\ run = "stopping" /\ work.pc = "idle"
    /\ work' = Off
    /\ UNCHANGED <<runtimeVars, pollerVars, kevVars, saveVars, retracted>>

-----------------------------------------------------------------------------
(* The pollers, with what they do to the alerts *)

Poll(s) ==
    /\ QuietStep(s)
    /\ UNCHANGED <<runtimeVars, kevVars, saveVars, work, retracted>>

PollSends(s) ==
    /\ SendEvent(s)
    /\ retracted' = [h \in MispHash |->
                        IF EventOf[h] = Head(poll[s].batch).id THEN "no" ELSE retracted[h]]
    /\ UNCHANGED <<now, run, kevVars, saveVars, work>>

PollRetracts(s) ==
    LET e == Head(poll[s].batch).id IN
    /\ Retract(s)
    /\ SuppressAlertsForEvent(e)
    /\ retracted' = [h \in MispHash |->
                        IF EventOf[h] # e THEN retracted[h]
                        ELSE IF InFlight(e) THEN "racing" ELSE "clean"]
    /\ UNCHANGED <<run, queue, kevVars, work>>

KevPolls ==
    /\ (\E listed \in SUBSET KevId : KevFetch(listed)) \/ KevQuit
    /\ UNCHANGED <<runtimeVars, pollerVars, saveVars, work, retracted>>

KevOffers ==
    /\ \E k \in KevId : KevOffer(k)
    /\ UNCHANGED <<now, run, pollerVars, saveVars, work, retracted>>

-----------------------------------------------------------------------------
(* The analyst, the sources, the clock and the process *)

\* The request may carry any status, and so make a suppressed alert new again.
Acknowledge ==
    /\ run # "down"
    /\ \E h \in Hash, s \in AckStatus \cup {""} :
            /\ Ack(h, s)
            /\ retracted' = [g \in MispHash |->
                                IF g = h /\ s = "new" THEN "no" ELSE retracted[g]]
    /\ UNCHANGED <<run, queue, pollerVars, kevVars, work>>

SourceChanges ==
    /\ \E s \in Source, e \in MispId, pub \in BOOLEAN : Edit(s, e, pub)
    /\ UNCHANGED <<runtimeVars, kevVars, saveVars, work, retracted>>

TimePasses ==
    /\ Tick
    /\ UNCHANGED <<run, queue, pollerVars, kevVars, saveVars, work, retracted>>

ProcessStarts ==
    /\ Start /\ StartKev
    /\ work' = Idle
    /\ UNCHANGED <<now, queue, pollerVars, saveVars, retracted>>

Signal ==
    /\ Cancel
    /\ UNCHANGED <<now, queue, pollerVars, kevVars, saveVars, work, retracted>>

ProcessEnds ==
    /\ Die /\ PollersDie /\ KevDie /\ StoreDie
    /\ work' = Off
    /\ UNCHANGED retracted

PollerActs(s) == Poll(s) \/ PollSends(s) \/ PollRetracts(s)
ProcessorRuns == Process \/ SaveStep \/ Deliver \/ ProcessorQuits

Next ==
    \/ \E s \in Source : PollerActs(s)
    \/ ProcessorRuns \/ Delivered
    \/ KevPolls \/ KevOffers
    \/ Acknowledge \/ SourceChanges \/ TimePasses
    \/ ProcessStarts \/ Signal \/ ProcessEnds

Spec == Init /\ [][Next]_vars

\* The Go scheduler runs every goroutine that can run, and a sender that waits on
\* the channel is served before a later one. That a delivery returns is not assumed.
FairSpec == /\ Spec
            /\ WF_vars(ProcessorRuns)
            /\ \A s \in Source : WF_vars(Poll(s)) /\ SF_vars(PollSends(s))

-----------------------------------------------------------------------------
(* What the pipeline promises *)

\* The versions of an event are processed in the order MISP produced them: no copy
\* of an event waits behind a newer one, in the processor's hands or in the channel.
VersionsInOrder ==
    LET line == <<work.item>> \o queue IN
    \A i, j \in 1..Len(line) :
        i < j /\ line[i].id = line[j].id => line[i].ts <= line[j].ts

\* A retraction with no copy of the event in flight sticks: until a poller sends the
\* event again, or a request sets the status of that very alert to new, none of its
\* alerts is new again, whatever fails, ends or expires in between.
SuppressionSticks ==
    \A h \in MispHash : retracted[h] = "clean" => alerts[h].status # "new"

\* Deliveries are all that a poller which waits on the full channel depends on: if
\* each of them returns, it does not wait for ever. (A hung mail server, which no
\* timeout covers, blocks the processor and with it every poller.)
BlockedSendReleased ==
    []<>(work # Delivering)
        => \A s \in Source : poll[s].pc = "send" ~> poll[s].pc # "send"

\* Retracted intelligence leaves no active alert: SuppressAlertsForEvent "marks all
\* alerts for a given event as suppressed", and design.md has DELETED events
\* suppress existing alerts.
RetractedNotActive ==
    \A h \in MispHash : retracted[h] # "no" /\ ~InFlight(EventOf[h])
                            => alerts[h].status # "new"
=============================================================================
