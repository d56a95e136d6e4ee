----------------------------- MODULE KevPoller ------------------------------
(***************************************************************************)
(* The poller of the CISA Known Exploited Vulnerabilities catalog          *)
(* (internal/source/kev.go) and the catalog it shares with the KEV matcher *)
(* (internal/match/kev_matcher.go). A poll replaces the catalog first and  *)
(* then offers every entry to the event channel without ever waiting. The  *)
(* feed is external. A fetch that fails changes nothing.                   *)
(***************************************************************************)
EXTENDS Runtime

CONSTANT KevId   \* CVE identifiers, which are the identifiers of KEV events

ASSUME KevAssumption == KevId \subseteq Event

VARIABLES catalog,  \* KEVMatcher's set
          offer     \* the poller: what it still has to offer, and whether it runs

kevVars == <<catalog, offer>>

KevTypeOK == /\ catalog \subseteq KevId
             /\ offer \in [on : BOOLEAN, todo : SUBSET KevId]

KevOff == [on |-> FALSE, todo |-> {}]

KevInit == catalog = {} /\ offer = KevOff

\* Run polls at once, and then at every tick.
StartKev == /\ offer' = [on |-> TRUE, todo |-> {}]
            /\ UNCHANGED catalog

\* Fetch, with the entries the feed lists, and OnCatalog before the first event is
\* offered.
KevFetch(listed) == /\ offer.on /\ offer.todo = {}
                    /\ catalog' = listed
                    /\ offer' = [offer EXCEPT !.todo = listed]

\* NormalizeKEV gives the event no time stamp.
KevOffer(k) == /\ k \in offer.todo
               /\ TrySend([id |-> k, ts |-> Never])
               /\ offer' = [offer EXCEPT !.todo = @ \ {k}]
               /\ UNCHANGED catalog

\* The cancelled context is noticed between polls only.
KevQuit == /\ run = "stopping" /\ offer.on /\ offer.todo = {}
           /\ offer' = KevOff
           /\ UNCHANGED catalog

KevDie == catalog' = {} /\ offer' = KevOff
=============================================================================
