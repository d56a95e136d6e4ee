-------------------------- MODULE AlertStoreProofs --------------------------
(***************************************************************************)
(* Proofs about the alert store. The two promises of the store are not     *)
(* inductive: that a row is replaced only when it is a TTL old depends on  *)
(* what SaveAlert read one or two statements earlier, so the invariant     *)
(* carries what the check established to the statements that act on it.    *)
(***************************************************************************)
EXTENDS AlertStore, TLAPS

\* No hash is from the future.
HashesPast == \A h \in Hash : dedup[h] <= now

\* What SaveAlert knows when it is about to store the hash: the row of the alert, if
\* there is one, has outlived its hash.
Checked ==
    step \in {"hash", "row"} /\ Exists(alert.hash)
        => alerts[alert.hash].at + TTL <= now

\* What it knows when it is about to store the row: the hash is there.
Hashed ==
    step = "row" => /\ dedup[alert.hash] # Never
                    /\ alert.at <= dedup[alert.hash]

StoreInv ==
    /\ StoreTypeOK
    /\ HashesPast
    /\ alert.at <= now
    /\ RowHasHash
    /\ Checked
    /\ Hashed

-----------------------------------------------------------------------------

LEMMA NoAlertType == NoAlert \in [hash : Hash, at : Time] /\ NoAlert.at = 0
  BY StoreAssumption, BaseAssumption DEF NoAlert, Time

\* The row of an alert that exists is a Row.
LEMMA ExistingRow ==
  ASSUME StoreTypeOK, NEW h \in Hash, Exists(h)
  PROVE  /\ alerts[h] \in Row
         /\ alerts[h].at \in Time
  BY DEF StoreTypeOK, Exists, NoRow, Row

LEMMA InitInv == StoreInit => StoreInv
  <1> SUFFICES ASSUME StoreInit PROVE StoreInv
    OBVIOUS
  <1>1. StoreTypeOK
    BY NoAlertType, BaseAssumption
    DEF StoreInit, StoreTypeOK, Time, Stamp, Never
  <1>2. HashesPast /\ alert.at <= now
    BY NoAlertType DEF StoreInit, HashesPast, Never
  <1>3. RowHasHash /\ Checked /\ Hashed
    BY DEF StoreInit, RowHasHash, Checked, Hashed, Exists, NoRow
  <1> QED
    BY <1>1, <1>2, <1>3 DEF StoreInv

-----------------------------------------------------------------------------
(* Steps that keep the identity and the age of every row *)

\* No row appears, disappears or changes its creation time.
SameRows ==
    \A h \in Hash : /\ alerts'[h].at = alerts[h].at
                    /\ Exists(h)' <=> Exists(h)

\* A change of status alone keeps the invariant.
LEMMA SameRowsStep ==
  ASSUME StoreInv, StoreTypeOK', SameRows,
         UNCHANGED <<now, dedup, step, alert>>
  PROVE  StoreInv'
  <1>1. HashesPast' /\ (alert.at <= now)' /\ Hashed'
    BY DEF StoreInv, HashesPast, Hashed
  <1>2. RowHasHash'
    BY DEF StoreInv, RowHasHash, SameRows
  <1>3. Checked'
    BY DEF StoreInv, StoreTypeOK, Checked, SameRows, Exists
  <1> QED
    BY <1>1, <1>2, <1>3 DEF StoreInv

LEMMA SuppressStep ==
  ASSUME StoreInv, NEW e \in Event, SuppressAlertsForEvent(e)
  PROVE  StoreInv' /\ SameRows
  <1>1. \A h \in Hash :
          /\ alerts'[h] \in Row \cup {NoRow}
          /\ alerts'[h].at = alerts[h].at
    <2> SUFFICES ASSUME NEW h \in Hash
                 PROVE  /\ alerts'[h] \in Row \cup {NoRow}
                        /\ alerts'[h].at = alerts[h].at
                    OBVIOUS
    <2>1. CASE EventOf[h] = e /\ Exists(h)
      <3>1. alerts[h] \in Row
        BY <2>1, ExistingRow DEF StoreInv
      <3>2. alerts'[h] = [alerts[h] EXCEPT !.status = "suppressed"]
        BY <2>1 DEF SuppressAlertsForEvent
      <3> QED
        BY <2>1, <3>1, <3>2 DEF Row, Status, Exists
    <2>2. CASE ~(EventOf[h] = e /\ Exists(h))
      BY <2>2 DEF SuppressAlertsForEvent, StoreInv, StoreTypeOK
    <2> QED
      BY <2>1, <2>2
  <1>2. SameRows
    BY <1>1 DEF SameRows, Exists
  <1>3. StoreTypeOK'
    <2>1. alerts' \in [Hash -> Row \cup {NoRow}]
      BY <1>1 DEF SuppressAlertsForEvent
    <2> QED
      BY <2>1 DEF SuppressAlertsForEvent, StoreInv, StoreTypeOK
  <1> QED
    BY <1>2, <1>3, SameRowsStep DEF SuppressAlertsForEvent

LEMMA AckStep ==
  ASSUME StoreInv, NEW h \in Hash, NEW s \in AckStatus \cup {""}, Ack(h, s)
  PROVE  StoreInv' /\ SameRows
  <1> DEFINE set == IF s = "" THEN "acked" ELSE s
  <1>1. set \in Status
    BY DEF Status
  <1>2. alerts[h] \in Row
    BY ExistingRow DEF StoreInv, Ack
  <1>3. alerts' = [alerts EXCEPT ![h].status = set]
    BY DEF Ack
  <1>4. alerts \in [Hash -> Row \cup {NoRow}]
    BY DEF StoreInv, StoreTypeOK
  <1> HIDE DEF set
  <1>5. /\ alerts'[h] \in Row
        /\ alerts'[h].at = alerts[h].at
    BY <1>1, <1>2, <1>3, <1>4 DEF Row, Status
  <1>6. \A g \in Hash \ {h} : alerts'[g] = alerts[g]
    BY <1>3, <1>4
  <1>7. SameRows
    BY <1>5, <1>6 DEF SameRows, Exists, Ack
  <1>8. StoreTypeOK'
    <2>1. alerts' \in [Hash -> Row \cup {NoRow}]
      BY <1>3, <1>4, <1>5, <1>6
    <2> QED
      BY <2>1 DEF Ack, StoreInv, StoreTypeOK
  <1> QED
    BY <1>7, <1>8, SameRowsStep DEF Ack

-----------------------------------------------------------------------------
(* The statements of SaveAlert *)

LEMMA BeginStep ==
  ASSUME StoreInv, NEW h \in Hash, BeginSave(h)
  PROVE  StoreInv'
  <1>1. StoreTypeOK'
    BY DEF StoreInv, StoreTypeOK, BeginSave
  <1>2. HashesPast' /\ (alert.at <= now)'
    BY DEF StoreInv, StoreTypeOK, HashesPast, BeginSave, Time
  <1>3. RowHasHash' /\ Checked' /\ Hashed'
    BY DEF StoreInv, RowHasHash, Checked, Hashed, Exists, BeginSave
  <1> QED
    BY <1>1, <1>2, <1>3 DEF StoreInv

\* The check establishes Checked: a row is never younger than its hash.
LEMMA CheckStep ==
  ASSUME StoreInv, CheckDedup
  PROVE  StoreInv'
  <1>1. StoreTypeOK'
    BY DEF StoreInv, StoreTypeOK, CheckDedup, Outcome
  <1>2. HashesPast' /\ (alert.at <= now)' /\ RowHasHash' /\ Hashed'
    BY DEF StoreInv, HashesPast, RowHasHash, Hashed, Exists, CheckDedup
  <1>3. Checked'
    <2> SUFFICES ASSUME step' = "hash", Exists(alert.hash)
                 PROVE  alerts[alert.hash].at + TTL <= now
      BY DEF Checked, CheckDedup, Exists
    <2>1. alert.hash \in Hash
      BY DEF StoreInv, StoreTypeOK
    <2>2. alerts[alert.hash] \in Row
      BY <2>1, ExistingRow DEF StoreInv
    <2>3. ~Duplicate(alert.hash)
      BY DEF CheckDedup
    <2>4. /\ dedup[alert.hash] # Never
          /\ alerts[alert.hash].at <= dedup[alert.hash]
      BY <2>1 DEF StoreInv, RowHasHash
    <2>5. /\ now \in Int /\ TTL \in Int /\ dedup[alert.hash] \in Int
          /\ alerts[alert.hash].at \in Int
      BY <2>1, <2>2, StoreAssumption
      DEF StoreInv, StoreTypeOK, Stamp, Time, Never, Row
    <2> QED
      BY <2>3, <2>4, <2>5 DEF Duplicate
  <1> QED
    BY <1>1, <1>2, <1>3 DEF StoreInv

LEMMA InsertHashStep ==
  ASSUME StoreInv, InsertHash
  PROVE  StoreInv'
  <1>1. alert.hash \in Hash /\ now \in Time /\ now # Never
    BY DEF StoreInv, StoreTypeOK, Time, Never
  <1>2. StoreTypeOK'
    BY <1>1 DEF StoreInv, StoreTypeOK, InsertHash, Stamp
  <1>3. dedup'[alert.hash] = now
    BY <1>1 DEF StoreInv, StoreTypeOK, InsertHash
  <1>4. \A h \in Hash \ {alert.hash} : dedup'[h] = dedup[h]
    BY DEF StoreInv, StoreTypeOK, InsertHash
  <1>5. HashesPast' /\ (alert.at <= now)' /\ Hashed'
    BY <1>1, <1>3, <1>4
    DEF StoreInv, HashesPast, Hashed, InsertHash, Time
  <1>6. RowHasHash'
    <2> SUFFICES ASSUME NEW h \in Hash, Exists(h)
                 PROVE  dedup'[h] # Never /\ alerts[h].at <= dedup'[h]
      BY DEF RowHasHash, Exists, InsertHash
    <2>1. CASE h # alert.hash
      BY <2>1, <1>4 DEF StoreInv, RowHasHash
    <2>2. CASE h = alert.hash
      <3>1. alerts[h].at <= dedup[h] /\ dedup[h] <= now
        BY DEF StoreInv, RowHasHash, HashesPast
      <3>2. alerts[h].at \in Int /\ dedup[h] \in Int /\ now \in Int
        BY <1>1, ExistingRow
        DEF StoreInv, StoreTypeOK, Row, Time, Stamp, Never
      <3> QED
        BY <2>2, <3>1, <3>2, <1>1, <1>3
    <2> QED
      BY <2>1, <2>2
  <1>7. Checked'
    BY DEF StoreInv, Checked, Exists, InsertHash
  <1> QED
    BY <1>2, <1>5, <1>6, <1>7 DEF StoreInv

LEMMA InsertAlertStep ==
  ASSUME StoreInv, InsertAlert
  PROVE  StoreInv'
  <1>1. alert.hash \in Hash /\ alert.at \in Time
    BY DEF StoreInv, StoreTypeOK
  <1>2. alerts'[alert.hash] = [status |-> "new", at |-> alert.at]
    BY <1>1 DEF StoreInv, StoreTypeOK, InsertAlert
  <1>3. \A h \in Hash \ {alert.hash} : alerts'[h] = alerts[h]
    BY DEF StoreInv, StoreTypeOK, InsertAlert
  <1>4. StoreTypeOK'
    <2>1. [status |-> "new", at |-> alert.at] \in Row
      BY <1>1 DEF Row, Status
    <2> QED
      BY <1>1, <2>1 DEF StoreInv, StoreTypeOK, InsertAlert, Outcome
  <1>5. HashesPast' /\ (alert.at <= now)' /\ Checked' /\ Hashed'
    BY DEF StoreInv, HashesPast, Checked, Hashed, InsertAlert
  <1>6. RowHasHash'
    BY <1>2, <1>3 DEF StoreInv, Hashed, RowHasHash, Exists, InsertAlert
  <1> QED
    BY <1>4, <1>5, <1>6 DEF StoreInv

\* SaveAlert fails, returns, or is cut off by the end of the process.
LEMMA EndStep ==
  ASSUME StoreInv, SaveFails \/ EndSave \/ StoreDie
  PROVE  StoreInv'
  <1>1. /\ UNCHANGED <<now, dedup, alerts>>
        /\ step' \in {"failed", "idle"}
        /\ alert' \in {alert, NoAlert}
    BY DEF SaveFails, EndSave, StoreDie
  <1>2. StoreTypeOK'
    BY <1>1, NoAlertType DEF StoreInv, StoreTypeOK, Outcome
  <1>3. (alert.at <= now)'
    BY <1>1, NoAlertType DEF StoreInv, StoreTypeOK, Time
  <1>4. HashesPast' /\ RowHasHash' /\ Checked' /\ Hashed'
    BY <1>1 DEF StoreInv, HashesPast, RowHasHash, Checked, Hashed, Exists
  <1> QED
    BY <1>2, <1>3, <1>4 DEF StoreInv

LEMMA TickStep ==
  ASSUME StoreInv, StoreTick
  PROVE  StoreInv'
  <1>1. /\ now \in Time /\ now' = now + 1 /\ now' \in Time
        /\ UNCHANGED <<dedup, alerts, step, alert>>
    BY BaseAssumption DEF StoreInv, StoreTypeOK, StoreTick, Tick, Time
  <1>2. StoreTypeOK'
    BY <1>1 DEF StoreInv, StoreTypeOK
  <1>3. HashesPast' /\ (alert.at <= now)'
    BY <1>1 DEF StoreInv, StoreTypeOK, HashesPast, Stamp, Never, Time
  <1>4. RowHasHash' /\ Hashed'
    BY <1>1 DEF StoreInv, RowHasHash, Hashed, Exists
  <1>5. Checked'
    <2> SUFFICES ASSUME step \in {"hash", "row"}, Exists(alert.hash)
                 PROVE  alerts[alert.hash].at + TTL <= now'
      BY <1>1 DEF Checked, Exists
    <2>1. alerts[alert.hash].at \in Int
      BY ExistingRow DEF StoreInv, StoreTypeOK, Row, Time
    <2> QED
      BY <1>1, <2>1, StoreAssumption DEF StoreInv, Checked, Time
  <1> QED
    BY <1>2, <1>3, <1>4, <1>5 DEF StoreInv

-----------------------------------------------------------------------------

LEMMA NextInv == StoreInv /\ [StoreNext]_storeVars => StoreInv'
  <1> SUFFICES ASSUME StoreInv, [StoreNext]_storeVars
               PROVE  StoreInv'
    OBVIOUS
  <1>1. CASE \E h \in Hash : BeginSave(h)
    BY <1>1, BeginStep
  <1>2. CASE CheckDedup
    BY <1>2, CheckStep
  <1>3. CASE InsertHash
    BY <1>3, InsertHashStep
  <1>4. CASE InsertAlert
    BY <1>4, InsertAlertStep
  <1>5. CASE SaveFails \/ EndSave \/ StoreDie
    BY <1>5, EndStep
  <1>6. CASE \E e \in Event : SuppressAlertsForEvent(e)
    BY <1>6, SuppressStep
  <1>7. CASE \E h \in Hash, s \in AckStatus \cup {""} : Ack(h, s)
    BY <1>7, AckStep
  <1>8. CASE StoreTick
    BY <1>8, TickStep
  <1>9. CASE UNCHANGED storeVars
    BY <1>9 DEF storeVars, StoreInv, StoreTypeOK, HashesPast, RowHasHash,
                Checked, Hashed, Exists
  <1> QED
    BY <1>1, <1>2, <1>3, <1>4, <1>5, <1>6, <1>7, <1>8, <1>9 DEF StoreNext

\* The store's inductive invariant holds throughout: its types, and what SaveAlert
\* knows at each of its statements.
THEOREM StoreInvariant == StoreSpec => []StoreInv
  <1>1. StoreInit => StoreInv
    BY InitInv
  <1>2. StoreInv /\ [StoreNext]_storeVars => StoreInv'
    BY NextInv
  <1> QED
    BY <1>1, <1>2, PTL DEF StoreSpec

\* The tables of internal/store/alerts.go hold what their writers mean to store: an
\* existing row has a creation time and a status that SaveAlert, a retraction or a
\* request named, whatever the requests send.
THEOREM StoreTypeCorrect == StoreSpec => []StoreTypeOK
  <1>1. StoreInv => StoreTypeOK
    BY DEF StoreInv
  <1> QED
    BY <1>1, StoreInvariant, PTL

\* SaveAlert leaves no alert without a deduplication hash at least as recent,
\* wherever it fails or is cut off, for any number of alerts and any TTL.
THEOREM AlertsAreHashed == StoreSpec => []RowHasHash
  <1>1. StoreInv => RowHasHash
    BY DEF StoreInv
  <1> QED
    BY <1>1, StoreInvariant, PTL

\* Only SaveAlert's last statement changes the age of a row.
LEMMA OneRowStep ==
  ASSUME StoreInv, [StoreNext]_storeVars,
         NEW h \in Hash, Exists(h), alerts'[h].at # alerts[h].at
  PROVE  now - alerts[h].at >= TTL
  <1>1. ~ UNCHANGED alerts
    OBVIOUS
  <1>2. ~ SameRows
    BY DEF SameRows
  <1>3. InsertAlert
    <2>1. ~ \E e \in Event : SuppressAlertsForEvent(e)
      BY <1>2, SuppressStep
    <2>2. ~ \E g \in Hash, s \in AckStatus \cup {""} : Ack(g, s)
      BY <1>2, AckStep
    <2> QED
      BY <1>1, <2>1, <2>2 DEF StoreNext, storeVars, BeginSave, CheckDedup,
           InsertHash, SaveFails, EndSave, StoreDie, StoreTick
  <1>4. h = alert.hash /\ step = "row"
    BY <1>3 DEF StoreInv, StoreTypeOK, InsertAlert
  <1>5. alerts[h].at + TTL <= now
    BY <1>4 DEF StoreInv, Checked
  <1>6. alerts[h].at \in Int /\ now \in Int /\ TTL \in Int
    BY ExistingRow, StoreAssumption DEF StoreInv, StoreTypeOK, Row, Time
  <1> QED
    BY <1>5, <1>6

\* However SaveAlert's three statements interleave with acknowledgements,
\* retractions, failures and restarts, the row of an alert is replaced only when it
\* is at least a TTL old.
THEOREM RowsReplacedByTtl == StoreSpec => OneRowPerTtl
  <1>1. StoreInv /\ [StoreNext]_storeVars
          => [\A h \in Hash : Exists(h) /\ alerts'[h].at # alerts[h].at
                                => now - alerts[h].at >= TTL]_storeVars
    BY OneRowStep
  <1> QED
    BY <1>1, StoreInvariant, PTL DEF StoreSpec, OneRowPerTtl
=============================================================================
