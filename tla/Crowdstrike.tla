---------------------------- MODULE Crowdstrike -----------------------------
(***************************************************************************)
(* The CrowdStrike export (internal/notify/crowdstrike.go) with            *)
(* credentials configured. The event processor hands indicators (IOCs)     *)
(* over; a flusher goroutine posts whatever is pending to the Falcon API,  *)
(* and Close posts once more while the flusher may be in the middle of a   *)
(* post. The two share a token and, under the mutex mu, the maps and the   *)
(* pending list: every critical section and every request is an action.    *)
(*                                                                         *)
(* An IOC is its type and its cleaned value. Spellings that cleaning,      *)
(* validation, the deny lists or the TLP gate reject have no IOC. What is  *)
(* posted with it (action, severity, description) is left out. The channel *)
(* flushCh only hastens a flush the ticker would make.                     *)
(* The Falcon API is external: a request may be refused, or carried out    *)
(* with the answer lost. What earlier processes delivered is still there.  *)
(***************************************************************************)
EXTENDS Naturals, Sequences, FiniteSets, Functions

CONSTANTS Ioc,           \* cleaned indicators
          Rejected,      \* what a rejected spelling is cleaned to
          Spelling,      \* indicators as the events spell them
          Clean,         \* spelling -> IOC or Rejected (validateIOC and the gates)
          PendingLimit,  \* IOCs a failed post leaves pending, at most (1000)
          SentLimit      \* IOCs remembered as sent between two prunings (10000)

ASSUME CrowdstrikeAssumption ==
    /\ IsFiniteSet(Ioc) /\ Rejected \notin Ioc
    /\ Clean \in [Spelling -> Ioc \cup {Rejected}]
    /\ PendingLimit \in Nat /\ SentLimit \in Nat

VARIABLES sent,         \* IOCs known to be delivered
          pendingKeys,  \* IOCs on their way, which Notify passes over
          pending,      \* the list the next flush posts
          notify,       \* the IOC Notify has marked and not yet appended
          worker,       \* the two callers of flush: where each stands, and its batch
          token,        \* a token is cached and not expired
          refreshing,   \* single-flight guard of the token request
          closed,       \* Close was called
          falcon,       \* external: how often Falcon was given an IOC (2: or more)
          forgotten,    \* history: IOCs whose delivery the notifier cannot know of
          dropped       \* history: IOCs a full pending list lost

csVars == <<sent, pendingKeys, pending, notify, worker, token, refreshing, closed,
            falcon, forgotten, dropped>>

Worker  == {"flusher", "main"}
WorkerT == [pc : {"off", "ready", "auth", "refresh", "post", "ok", "failed"},
            batch : Seq(Ioc)]

CrowdstrikeTypeOK ==
    /\ sent \subseteq Ioc /\ pendingKeys \subseteq Ioc
    /\ pending \in Seq(Ioc)
    /\ notify \in Ioc \cup {Rejected}
    /\ worker \in [Worker -> WorkerT]
    /\ token \in BOOLEAN /\ refreshing \in BOOLEAN /\ closed \in BOOLEAN
    /\ falcon \in [Ioc -> 0..2]
    /\ forgotten \subseteq Ioc /\ dropped \subseteq Ioc

CrowdstrikeInit ==
    /\ sent = {} /\ pendingKeys = {} /\ pending = <<>> /\ notify = Rejected
    /\ worker = [w \in Worker |-> [pc    |-> IF w = "flusher" THEN "ready" ELSE "off",
                                   batch |-> <<>>]]
    /\ token = FALSE /\ refreshing = FALSE /\ closed = FALSE
    /\ falcon \in [Ioc -> 0..1]
    /\ forgotten = {k \in Ioc : falcon[k] = 1}
    /\ dropped = {}

-----------------------------------------------------------------------------
(* Notify, for one IOC of an event that meets the severity *)

\* Faulty variant: only delivered IOCs are passed over.
MarkIfUnsent(x) ==
    /\ notify = Rejected /\ Clean[x] \in Ioc
    /\ Clean[x] \notin sent
    /\ pendingKeys' = pendingKeys \cup {Clean[x]}
    /\ notify' = Clean[x]
    /\ UNCHANGED <<sent, pending, worker, token, refreshing, closed, falcon,
                   forgotten, dropped>>

\* Faulty variant: a spelling that cleaning rejects is not skipped.
MarkUnchecked(x) ==
    /\ notify = Rejected
    /\ Clean[x] \notin sent \cup pendingKeys
    /\ pendingKeys' = pendingKeys \cup {Clean[x]}
    /\ notify' = Clean[x]
    /\ UNCHANGED <<sent, pending, worker, token, refreshing, closed, falcon,
                   forgotten, dropped>>

\* The first critical section: an IOC that was sent or is on its way is passed over.
Mark(x) ==
    /\ notify = Rejected /\ Clean[x] \in Ioc
    /\ Clean[x] \notin sent \cup pendingKeys
    /\ pendingKeys' = pendingKeys \cup {Clean[x]}
    /\ notify' = Clean[x]
    /\ UNCHANGED <<sent, pending, worker, token, refreshing, closed, falcon,
                   forgotten, dropped>>

\* The second one. Nothing looks at closed.
Enqueue ==
    /\ notify # Rejected
    /\ pending' = Append(pending, notify)
    /\ notify' = Rejected
    /\ UNCHANGED <<sent, pendingKeys, worker, token, refreshing, closed, falcon,
                   forgotten, dropped>>

-----------------------------------------------------------------------------
(* flush, called by the flusher goroutine and by Close *)

At(w, pc)   == worker[w].pc = pc
GoTo(w, pc) == worker' = [worker EXCEPT ![w].pc = pc]
Batch(w)    == Range(worker[w].batch)

\* The flusher waits for its next tick, and Close returns.
Finished(w) == [pc |-> IF w = "flusher" THEN "ready" ELSE "off", batch |-> <<>>]

\* The batch is copied and the list emptied. The select of the flusher may choose
\* the ticker although closed is ready too.
Take(w) ==
    /\ At(w, "ready") /\ pending # <<>>
    /\ worker' = [worker EXCEPT ![w] = [pc |-> "auth", batch |-> pending]]
    /\ pending' = <<>>
    /\ UNCHANGED <<sent, pendingKeys, notify, token, refreshing, closed, falcon,
                   forgotten, dropped>>

\* getToken: a cached token is used; a caller that finds a refresh under way waits.
UseToken(w) ==
    /\ At(w, "auth") /\ token
    /\ GoTo(w, "post")
    /\ UNCHANGED <<sent, pendingKeys, pending, notify, token, refreshing, closed,
                   falcon, forgotten, dropped>>

BeginRefresh(w) ==
    /\ At(w, "auth") /\ ~token /\ ~refreshing
    /\ refreshing' = TRUE
    /\ GoTo(w, "refresh")
    /\ UNCHANGED <<sent, pendingKeys, pending, notify, token, closed, falcon,
                   forgotten, dropped>>

\* A token that lives less than a minute is expired when it arrives, but is used.
EndRefresh(w) ==
    /\ At(w, "refresh")
    /\ refreshing' = FALSE
    /\ \/ token' \in BOOLEAN /\ GoTo(w, "post")
       \/ token' = token /\ GoTo(w, "failed")
    /\ UNCHANGED <<sent, pendingKeys, pending, notify, closed, falcon, forgotten,
                   dropped>>

Given(keys) == [k \in Ioc |-> IF k \in keys /\ falcon[k] < 2 THEN falcon[k] + 1
                                                             ELSE falcon[k]]

\* The post is answered with success.
PostAccepted(w) ==
    /\ At(w, "post")
    /\ falcon' = Given(Batch(w))
    /\ GoTo(w, "ok")
    /\ UNCHANGED <<sent, pendingKeys, pending, notify, token, refreshing, closed,
                   forgotten, dropped>>

\* The post is carried out, but the answer is lost or the client times out.
PostUnanswered(w) ==
    /\ At(w, "post")
    /\ falcon' = Given(Batch(w))
    /\ forgotten' = forgotten \cup Batch(w)
    /\ GoTo(w, "failed")
    /\ UNCHANGED <<sent, pendingKeys, pending, notify, token, refreshing, closed,
                   dropped>>

\* The post does not arrive, or its status is 400 or above. The token stays.
PostRefused(w) ==
    /\ At(w, "post")
    /\ GoTo(w, "failed")
    /\ UNCHANGED <<sent, pendingKeys, pending, notify, token, refreshing, closed,
                   falcon, forgotten, dropped>>

\* Faulty variant: the batch counts as sent before it is known to be.
RequeueAsSent(w) ==
    /\ At(w, "failed")
    /\ sent' = sent \cup Batch(w)
    /\ pending' = worker[w].batch \o pending
    /\ worker' = [worker EXCEPT ![w] = Finished(w)]
    /\ UNCHANGED <<pendingKeys, notify, token, refreshing, closed, falcon, forgotten,
                   dropped>>

\* Faulty variant: the failed batch is not put back.
RequeueNothing(w) ==
    /\ At(w, "failed")
    /\ worker' = [worker EXCEPT ![w] = Finished(w)]
    /\ UNCHANGED <<sent, pendingKeys, pending, notify, token, refreshing, closed,
                   falcon, forgotten, dropped>>

\* A failed batch goes back to the front of the list, whose front is cut off when it
\* is too long. The keys cut off stay in pendingKeys.
Requeue(w) ==
    /\ At(w, "failed")
    /\ LET all  == worker[w].batch \o pending
           over == IF Len(all) > PendingLimit THEN Len(all) - PendingLimit ELSE 0
       IN  /\ pending' = SubSeq(all, over + 1, Len(all))
           /\ dropped' = dropped \cup Range(SubSeq(all, 1, over))
    /\ worker' = [worker EXCEPT ![w] = Finished(w)]
    /\ UNCHANGED <<sent, pendingKeys, notify, token, refreshing, closed, falcon,
                   forgotten>>

\* A delivered batch is remembered as sent, and is no longer on its way.
Confirm(w) ==
    /\ At(w, "ok")
    /\ sent' = sent \cup Batch(w)
    /\ pendingKeys' = pendingKeys \ Batch(w)
    /\ worker' = [worker EXCEPT ![w] = Finished(w)]
    /\ UNCHANGED <<pending, notify, token, refreshing, closed, falcon, forgotten,
                   dropped>>

-----------------------------------------------------------------------------
(* The flusher's other work, Close, and the token's life *)

\* pruneSent: everything is forgotten.
PruneSent ==
    /\ At("flusher", "ready") /\ Cardinality(sent) > SentLimit
    /\ sent' = {}
    /\ forgotten' = forgotten \cup sent
    /\ UNCHANGED <<pendingKeys, pending, notify, worker, token, refreshing, closed,
                   falcon, dropped>>

FlusherQuits ==
    /\ closed /\ At("flusher", "ready")
    /\ GoTo("flusher", "off")
    /\ UNCHANGED <<sent, pendingKeys, pending, notify, token, refreshing, closed,
                   falcon, forgotten, dropped>>

\* main calls Close once, whatever Notify and the flusher are doing; its own flush comes
\* after.
Close ==
    /\ ~closed
    /\ closed' = TRUE
    /\ GoTo("main", "ready")
    /\ UNCHANGED <<sent, pendingKeys, pending, notify, token, refreshing, falcon,
                   forgotten, dropped>>

\* There is nothing to flush, or the flusher was faster.
CloseEmpty ==
    /\ At("main", "ready") /\ pending = <<>>
    /\ GoTo("main", "off")
    /\ UNCHANGED <<sent, pendingKeys, pending, notify, token, refreshing, closed,
                   falcon, forgotten, dropped>>

TokenExpires ==
    /\ token
    /\ token' = FALSE
    /\ UNCHANGED <<sent, pendingKeys, pending, notify, worker, refreshing, closed,
                   falcon, forgotten, dropped>>

Notify == Enqueue \/ \E x \in Spelling : Mark(x)

Request(w) == PostAccepted(w) \/ PostUnanswered(w) \/ PostRefused(w)
Flush(w)   == \/ Take(w) \/ UseToken(w) \/ BeginRefresh(w) \/ EndRefresh(w)
              \/ Request(w) \/ Requeue(w) \/ Confirm(w)

CrowdstrikeNext ==
    \/ Notify
    \/ \E w \in Worker : Flush(w)
    \/ PruneSent \/ FlusherQuits \/ Close \/ CloseEmpty \/ TokenExpires

CrowdstrikeSpec == CrowdstrikeInit /\ [][CrowdstrikeNext]_csVars

\* The flusher's ticker ticks and its requests end (the client's timeout); a Falcon
\* that is asked again and again grants a token and accepts a post at last.
FairCrowdstrikeSpec ==
    /\ CrowdstrikeSpec
    /\ WF_csVars(Enqueue)
    /\ WF_csVars(Flush("flusher"))
    /\ SF_csVars(EndRefresh("flusher") /\ worker'["flusher"].pc = "post")
    /\ SF_csVars(PostAccepted("flusher"))

-----------------------------------------------------------------------------
(* What the export promises *)

\* The key of an IOC in the list, in a batch or in Notify's hands.
OnItsWay(k) == \/ k = notify \/ k \in Range(pending)
               \/ \E w \in Worker : k \in Batch(w)

\* "Once sent, the same IOC is never re-sent" (docs/edr-crowdstrike.md), but for what
\* the notifier cannot know: an answer that was lost, a pruned entry, an earlier
\* process. Spellings, requeued batches and the two callers of flush never do it.
NeverResent == \A k \in Ioc : falcon[k] > 1 => k \in forgotten

\* The deduplication record is written after the delivery only: Falcon has every IOC
\* that is passed over because it was sent.
SentWasDelivered == \A k \in sent : falcon[k] > 0

\* An IOC that Notify takes on is delivered and known to be, unless the overflow of the
\* list drops it or the process shuts down.
Exported == \A k \in Ioc :
    k \in pendingKeys ~> k \in sent \cup dropped \/ closed

\* pendingKeys holds "in-flight IOC keys (not yet delivered)".
KeysAreInFlight == \A k \in pendingKeys : OnItsWay(k)
=============================================================================
