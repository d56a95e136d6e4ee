----------------------------- MODULE AlertStore -----------------------------
(***************************************************************************)
(* The alert table and the deduplication cache (internal/store/alerts.go), *)
(* as every writer sees them:                                              *)
(*   - SaveAlert, called by the one event processor, is three separate SQL *)
(*     statements with no transaction: each is an action, each may fail,   *)
(*     and the process may die between two of them;                        *)
(*   - SuppressAlertsForEvent, called by a MISP poller;                    *)
(*   - the acknowledgement handler of the HTTP API.                        *)
(* An alert is abstracted to its identifier, which is its deduplication    *)
(* hash, the event it was derived from, its status and its creation time.  *)
(***************************************************************************)
EXTENDS Base

CONSTANTS Hash,      \* alert identifiers (risk.DedupKey)
          EventOf,   \* the event an alert identifier was derived from
          TTL,       \* how long a deduplication hash suppresses
          AckStatus  \* statuses the requests to /admin/ack carry: any string

\* What SaveAlert, SuppressAlertsForEvent and the requests write. A request that
\* carries no status means "acked", so no row has an empty one.
Status == {"new", "suppressed", "acked"} \cup (AckStatus \ {""})

ASSUME StoreAssumption == /\ Hash # {}
                          /\ EventOf \in [Hash -> Event]
                          /\ TTL \in Nat \ {0}

VARIABLES dedup,   \* table dedup_hashes: hash -> created_at
          alerts,  \* table alerts: id -> status and created_at
          step,    \* the statement SaveAlert is about to run, or its result
          alert    \* the alert SaveAlert was called with

storeVars == <<now, dedup, alerts, step, alert>>

\* SaveAlert's results: (true, nil), (false, nil) and (false, err).
Outcome == {"stored", "duplicate", "failed"}

NoRow == [status |-> "none", at |-> Never]
Row   == [status : Status, at : Time]
NoAlert == [hash |-> CHOOSE h \in Hash : TRUE, at |-> 0]
Exists(h) == alerts[h].at # Never

StoreTypeOK ==
    /\ now \in Time
    /\ dedup \in [Hash -> Stamp]
    /\ alerts \in [Hash -> Row \cup {NoRow}]
    /\ step \in {"idle", "check", "hash", "row"} \cup Outcome
    /\ alert \in [hash : Hash, at : Time]

StoreInit ==
    /\ now = 0
    /\ dedup = [h \in Hash |-> Never]
    /\ alerts = [h \in Hash |-> NoRow]
    /\ step = "idle"
    /\ alert = NoAlert

-----------------------------------------------------------------------------
(* SaveAlert *)

\* NewAlert stamps the alert, and SaveAlert starts with it.
BeginSave(h) ==
    /\ step = "idle"
    /\ step' = "check"
    /\ alert' = [hash |-> h, at |-> now]
    /\ UNCHANGED <<now, dedup, alerts>>

\* SELECT COUNT(*) ... WHERE hash = ? AND created_at > cutoff
Duplicate(h) ==
    /\ dedup[h] # Never
    /\ dedup[h] > now - TTL

\* Faulty variant: the statement that stores the hash is forgotten.
CheckDedupOnly ==
    /\ step = "check"
    /\ step' = IF Duplicate(alert.hash) THEN "duplicate" ELSE "row"
    /\ UNCHANGED <<now, dedup, alerts, alert>>

CheckDedup ==
    /\ step = "check"
    /\ step' = IF Duplicate(alert.hash) THEN "duplicate" ELSE "hash"
    /\ UNCHANGED <<now, dedup, alerts, alert>>

\* Faulty variant: INSERT OR IGNORE, which keeps the expired row of the hash.
InsertHashOrIgnore ==
    /\ step = "hash"
    /\ dedup' = [dedup EXCEPT ![alert.hash] = IF @ = Never THEN now ELSE @]
    /\ step' = "row"
    /\ UNCHANGED <<now, alerts, alert>>

\* INSERT OR REPLACE INTO dedup_hashes
InsertHash ==
    /\ step = "hash"
    /\ dedup' = [dedup EXCEPT ![alert.hash] = now]
    /\ step' = "row"
    /\ UNCHANGED <<now, alerts, alert>>

\* INSERT OR REPLACE INTO alerts: whatever status the row had, it is new again.
InsertAlert ==
    /\ step = "row"
    /\ alerts' = [alerts EXCEPT ![alert.hash] =
                                    [status |-> "new", at |-> alert.at]]
    /\ step' = "stored"
    /\ UNCHANGED <<now, dedup, alert>>

\* Any of the three statements may return an error (a locked database): the
\* statements before it stay done, and the caller only logs the error.
SaveFails ==
    /\ step \in {"check", "hash", "row"}
    /\ step' = "failed"
    /\ UNCHANGED <<now, dedup, alerts, alert>>

\* The caller has SaveAlert's result.
EndSave ==
    /\ step \in Outcome
    /\ step' = "idle"
    /\ alert' = NoAlert
    /\ UNCHANGED <<now, dedup, alerts>>

-----------------------------------------------------------------------------
(* The other writers of the table *)

\* Faulty variant: only alerts that somebody has acknowledged are suppressed.
SuppressAcked(e) ==
    /\ alerts' = [h \in Hash |->
                    IF EventOf[h] = e /\ alerts[h].status = "acked"
                      THEN [alerts[h] EXCEPT !.status = "suppressed"]
                      ELSE alerts[h]]
    /\ UNCHANGED <<now, dedup, step, alert>>

\* UPDATE alerts SET status = 'suppressed' WHERE event_id = ?
SuppressAlertsForEvent(e) ==
    /\ alerts' = [h \in Hash |->
                    IF EventOf[h] = e /\ Exists(h)
                      THEN [alerts[h] EXCEPT !.status = "suppressed"]
                      ELSE alerts[h]]
    /\ UNCHANGED <<now, dedup, step, alert>>

\* Faulty variant: the request's status is stored as it came.
AckAsSent(h, s) ==
    /\ Exists(h)
    /\ alerts' = [alerts EXCEPT ![h].status = s]
    /\ UNCHANGED <<now, dedup, step, alert>>

\* UPDATE alerts SET status = ? WHERE id = ?, whatever the status was and whatever
\* the request's is: nothing keeps it to the three the handler's comment lists, and
\* "new" undoes a suppression. A request without a status means "acked".
Ack(h, s) ==
    /\ Exists(h)
    /\ alerts' = [alerts EXCEPT ![h].status = IF s = "" THEN "acked" ELSE s]
    /\ UNCHANGED <<now, dedup, step, alert>>

\* The process ends: the tables stay, SaveAlert's remaining statements do not run.
StoreDie ==
    /\ step' = "idle"
    /\ alert' = NoAlert
    /\ UNCHANGED <<now, dedup, alerts>>

StoreTick == Tick /\ UNCHANGED <<dedup, alerts, step, alert>>

StoreNext ==
    \/ \E h \in Hash : BeginSave(h)
    \/ CheckDedup \/ InsertHash \/ InsertAlert \/ SaveFails \/ EndSave
    \/ \E e \in Event : SuppressAlertsForEvent(e)
    \/ \E h \in Hash, s \in AckStatus \cup {""} : Ack(h, s)
    \/ StoreDie
    \/ StoreTick

StoreSpec == StoreInit /\ [][StoreNext]_storeVars

-----------------------------------------------------------------------------
(* What the store promises *)

\* An alert never stands in the table without its deduplication hash, and the
\* hash is never older than the alert: wherever SaveAlert stops (an error, the
\* end of the process), it errs towards a hash with no alert.
RowHasHash ==
    \A h \in Hash : Exists(h) => /\ dedup[h] # Never
                                 /\ alerts[h].at <= dedup[h]

\* The row of an alert is written again only when the row it replaces is at least
\* a TTL old: until then, whatever an analyst or a retraction made of the alert
\* stands, however often the event is seen again.
OneRowPerTtl ==
    [][\A h \in Hash :
          Exists(h) /\ alerts'[h].at # alerts[h].at
            => now - alerts[h].at >= TTL]_storeVars

=============================================================================
