-------------------------- MODULE CrowdstrikeProofs --------------------------
(***************************************************************************)
(* Proofs about the export. That no IOC is sent twice is not inductive: it *)
(* rests on an IOC being in one place at a time (Notify's hands, the list, *)
(* the batch of the flusher or that of Close), on its key being marked     *)
(* there and unmarked only when it counts as sent, and on the notifier     *)
(* knowing of each delivery that it has not forgotten.                     *)
(***************************************************************************)
EXTENDS Crowdstrike, TLAPS, SequenceTheorems

\* An IOC is in one place at a time.
OnePlace ==
    /\ notify \notin Range(pending)
    /\ \A w \in Worker : notify \notin Batch(w) /\ Range(pending) \cap Batch(w) = {}
    /\ \A v, w \in Worker : v # w => Batch(v) \cap Batch(w) = {}

\* Whatever is on its way is marked, and what counts as sent is not.
Marked ==
    /\ notify # Rejected => notify \in pendingKeys
    /\ Range(pending) \subseteq pendingKeys
    /\ \A w \in Worker : Batch(w) \subseteq pendingKeys
    /\ sent \cap pendingKeys = {}

\* A caller of flush that is not in the middle of one has no batch; Close has not begun
\* before closed is set.
Standing ==
    /\ \A w \in Worker : worker[w].pc \in {"off", "ready"} => worker[w].batch = <<>>
    /\ ~closed => worker["main"].pc = "off"

\* The notifier knows of each delivery, or is about to, unless it has forgotten.
Known ==
    /\ \A k \in Ioc : falcon[k] > 0 =>
         k \in forgotten \cup sent \/ \E w \in Worker : At(w, "ok") /\ k \in Batch(w)
    /\ \A w \in Worker : At(w, "ok") => \A k \in Batch(w) : falcon[k] > 0

ExportInv == /\ CrowdstrikeTypeOK
             /\ OnePlace /\ Marked /\ Standing /\ Known
             /\ NeverResent /\ SentWasDelivered

-----------------------------------------------------------------------------
(* The elements of the sequences *)

LEMMA RangeEmpty == Range(<<>>) = {}
  BY DEF Range

LEMMA RangeInside ==
  ASSUME NEW S, NEW s \in Seq(S)
  PROVE  Range(s) \subseteq S /\ Range(s) = {s[i] : i \in 1..Len(s)}
  BY LenProperties, ElementOfSeq DEF Range

LEMMA RangeAppend ==
  ASSUME NEW S, NEW s \in Seq(S), NEW e \in S
  PROVE  Append(s, e) \in Seq(S) /\ Range(Append(s, e)) = Range(s) \cup {e}
  <1>1. /\ Append(s, e) \in Seq(S) /\ Len(Append(s, e)) = Len(s) + 1
        /\ \A i \in 1..(Len(s) + 1) : Append(s, e)[i] = IF i <= Len(s) THEN s[i] ELSE e
    BY LenProperties
  <1>2. Len(s) \in Nat
    BY LenProperties
  <1>3. Range(Append(s, e)) = {Append(s, e)[i] : i \in 1..(Len(s) + 1)}
    BY <1>1, RangeInside
  <1>4. Range(s) = {s[i] : i \in 1..Len(s)}
    BY RangeInside
  <1> QED
    BY <1>1, <1>2, <1>3, <1>4

LEMMA RangeConcat ==
  ASSUME NEW S, NEW s \in Seq(S), NEW t \in Seq(S)
  PROVE  s \o t \in Seq(S) /\ Range(s \o t) = Range(s) \cup Range(t)
  <1>1. /\ s \o t \in Seq(S) /\ Len(s \o t) = Len(s) + Len(t)
        /\ \A i \in 1..(Len(s) + Len(t)) :
             (s \o t)[i] = IF i <= Len(s) THEN s[i] ELSE t[i - Len(s)]
    BY ConcatProperties
  <1>2. Len(s) \in Nat /\ Len(t) \in Nat
    BY LenProperties
  <1>3. Range(s \o t) = {(s \o t)[i] : i \in 1..(Len(s) + Len(t))}
    BY <1>1, RangeInside
  <1>4. Range(s) = {s[i] : i \in 1..Len(s)} /\ Range(t) = {t[i] : i \in 1..Len(t)}
    BY RangeInside
  <1>5. ASSUME NEW i \in 1..Len(s) PROVE s[i] \in Range(s \o t)
    BY <1>1, <1>2, <1>3
  <1>6. ASSUME NEW i \in 1..Len(t) PROVE t[i] \in Range(s \o t)
    <2>1. Len(s) + i \in 1..(Len(s) + Len(t)) /\ (s \o t)[Len(s) + i] = t[i]
      BY <1>1, <1>2
    <2> QED
      BY <1>3, <2>1
  <1>7. ASSUME NEW i \in 1..(Len(s) + Len(t)) PROVE (s \o t)[i] \in Range(s) \cup Range(t)
    BY <1>1, <1>2, <1>4
  <1> QED
    BY <1>1, <1>3, <1>4, <1>5, <1>6, <1>7, ZenonT(40)

LEMMA RangeSubSeq ==
  ASSUME NEW S, NEW s \in Seq(S), NEW m \in Nat \ {0}, NEW n \in Nat, n <= Len(s)
  PROVE  SubSeq(s, m, n) \in Seq(S) /\ Range(SubSeq(s, m, n)) \subseteq Range(s)
  <1>1. Len(s) \in Nat /\ \A i \in 1..Len(s) : s[i] \in S
    BY LenProperties, ElementOfSeq
  <1>2. \A i \in m..n : s[i] \in S
    BY <1>1
  <1>3. /\ SubSeq(s, m, n) \in Seq(S)
        /\ Len(SubSeq(s, m, n)) = IF m <= n THEN n - m + 1 ELSE 0
        /\ \A i \in 1..(n - m + 1) : SubSeq(s, m, n)[i] = s[m + i - 1]
    BY <1>2, SubSeqProperties
  <1>4. ASSUME NEW i \in 1..Len(SubSeq(s, m, n)) PROVE SubSeq(s, m, n)[i] \in Range(s)
    <2>1. m <= n /\ m + i - 1 \in 1..Len(s) /\ SubSeq(s, m, n)[i] = s[m + i - 1]
      BY <1>1, <1>3
    <2> QED
      BY <2>1, RangeInside
  <1>5. Range(SubSeq(s, m, n)) = {SubSeq(s, m, n)[i] : i \in 1..Len(SubSeq(s, m, n))}
    BY <1>3, RangeInside
  <1> QED
    BY <1>3, <1>4, <1>5

-----------------------------------------------------------------------------
(* Steps of a caller of flush *)

LEMMA InitInv == CrowdstrikeInit => ExportInv
  <1> SUFFICES ASSUME CrowdstrikeInit PROVE ExportInv
    OBVIOUS
  <1>1. \A w \in Worker : worker[w].batch = <<>> /\ worker[w].pc \in {"off", "ready"}
    BY DEF CrowdstrikeInit, Worker
  <1>2. \A w \in Worker : Batch(w) = {}
    BY <1>1, RangeEmpty DEF Batch
  <1>3. CrowdstrikeTypeOK
    <2>1. <<>> \in Seq(Ioc)
      BY EmptySeq
    <2>2. worker \in [Worker -> WorkerT]
      BY <2>1 DEF CrowdstrikeInit, WorkerT
    <2>3. falcon \in [Ioc -> 0..2]
      <3>1. falcon \in [Ioc -> 0..1]
        BY DEF CrowdstrikeInit
      <3> QED
        BY <3>1
    <2> QED
      BY <2>1, <2>2, <2>3 DEF CrowdstrikeInit, CrowdstrikeTypeOK
  <1>4. OnePlace /\ Marked
    BY <1>2, RangeEmpty DEF CrowdstrikeInit, OnePlace, Marked
  <1>5. Standing
    BY <1>1 DEF CrowdstrikeInit, Standing, Worker
  <1>6. \A k \in Ioc : falcon[k] \in 0..1 /\ (falcon[k] = 1 => k \in forgotten)
    BY DEF CrowdstrikeInit
  <1>7. Known /\ NeverResent /\ SentWasDelivered
    BY <1>2, <1>6 DEF CrowdstrikeInit, Known, NeverResent, SentWasDelivered
  <1> QED
    BY <1>3, <1>4, <1>5, <1>7 DEF ExportInv

\* A caller that moves on keeps its batch, and the other caller stays.
LEMMA GoToMoves ==
  ASSUME CrowdstrikeTypeOK, NEW w \in Worker,
         NEW pc \in {"off", "ready", "auth", "refresh", "post", "ok", "failed"}, GoTo(w, pc)
  PROVE  /\ worker' \in [Worker -> WorkerT]
         /\ worker'[w].pc = pc /\ worker'[w].batch = worker[w].batch
         /\ \A v \in Worker \ {w} : worker'[v] = worker[v]
         /\ \A v \in Worker : Batch(v)' = Batch(v)
  <1>1. worker[w] \in WorkerT
    BY DEF CrowdstrikeTypeOK
  <1>2. /\ worker'[w] = [worker[w] EXCEPT !.pc = pc]
        /\ \A v \in Worker \ {w} : worker'[v] = worker[v]
    BY DEF GoTo, CrowdstrikeTypeOK
  <1>3. [worker[w] EXCEPT !.pc = pc] \in WorkerT
    BY <1>1 DEF WorkerT
  <1>4. worker' \in [Worker -> WorkerT]
    BY <1>3 DEF GoTo, CrowdstrikeTypeOK
  <1>5. worker'[w].pc = pc /\ worker'[w].batch = worker[w].batch
    BY <1>1, <1>2 DEF WorkerT
  <1> QED
    BY <1>2, <1>4, <1>5 DEF Batch

\* A caller that is done has no batch any more.
LEMMA FinishedMoves ==
  ASSUME CrowdstrikeTypeOK, NEW w \in Worker,
         worker' = [worker EXCEPT ![w] = Finished(w)]
  PROVE  /\ worker' \in [Worker -> WorkerT]
         /\ worker'[w].pc = IF w = "flusher" THEN "ready" ELSE "off"
         /\ worker'[w].batch = <<>> /\ Batch(w)' = {}
         /\ \A v \in Worker \ {w} : worker'[v] = worker[v] /\ Batch(v)' = Batch(v)
  <1>1. Finished(w) \in WorkerT
    BY EmptySeq DEF Finished, WorkerT
  <1>2. worker'[w] = Finished(w) /\ \A v \in Worker \ {w} : worker'[v] = worker[v]
    BY DEF CrowdstrikeTypeOK
  <1>3. worker' \in [Worker -> WorkerT]
    BY <1>1 DEF CrowdstrikeTypeOK
  <1> QED
    BY <1>2, <1>3, RangeEmpty DEF Finished, Batch

\* A caller moves between two requests: nothing else does.
LEMMA MoveStep ==
  ASSUME ExportInv, NEW w \in Worker, ~At(w, "ok"),
         NEW pc \in {"off", "ready", "auth", "refresh", "post", "failed"}, GoTo(w, pc),
         pc \in {"off", "ready"} => worker[w].batch = <<>> /\ (closed' \/ w # "main"),
         token' \in BOOLEAN, refreshing' \in BOOLEAN, closed' \in BOOLEAN,
         w = "main" => closed' \/ pc = "off", closed => closed',
         UNCHANGED <<sent, pendingKeys, pending, notify, falcon, forgotten, dropped>>
  PROVE  ExportInv'
  <1> USE DEF ExportInv
  <1>1. /\ worker' \in [Worker -> WorkerT]
        /\ worker'[w].pc = pc /\ worker'[w].batch = worker[w].batch
        /\ \A v \in Worker \ {w} : worker'[v] = worker[v]
        /\ \A v \in Worker : Batch(v)' = Batch(v)
    BY GoToMoves
  <1>2. CrowdstrikeTypeOK'
    BY <1>1 DEF CrowdstrikeTypeOK
  <1>3. OnePlace' /\ Marked'
    BY <1>1 DEF OnePlace, Marked
  <1>4. Standing'
    BY <1>1 DEF Standing, Worker
  <1>5. Known'
    BY <1>1 DEF Known, At
  <1> QED
    BY <1>2, <1>3, <1>4, <1>5 DEF NeverResent, SentWasDelivered

LEMMA TakeStep ==
  ASSUME ExportInv, NEW w \in Worker, Take(w)
  PROVE  ExportInv'
  <1> USE DEF ExportInv
  <1>1. /\ worker' = [worker EXCEPT ![w] = [pc |-> "auth", batch |-> pending]]
        /\ pending' = <<>> /\ At(w, "ready")
        /\ UNCHANGED <<sent, pendingKeys, notify, token, refreshing, closed, falcon,
                       forgotten, dropped>>
    BY DEF Take
  <1>2. [pc |-> "auth", batch |-> pending] \in WorkerT
    BY DEF CrowdstrikeTypeOK, WorkerT
  <1>3. /\ worker'[w].pc = "auth" /\ worker'[w].batch = pending
        /\ \A v \in Worker \ {w} : worker'[v] = worker[v]
    BY <1>1 DEF CrowdstrikeTypeOK
  <1>4. /\ Batch(w)' = Range(pending) /\ \A v \in Worker \ {w} : Batch(v)' = Batch(v)
        /\ Range(pending') = {}
    BY <1>1, <1>3, RangeEmpty DEF Batch
  <1>5. CrowdstrikeTypeOK'
    BY <1>1, <1>2, EmptySeq DEF CrowdstrikeTypeOK
  <1>6. OnePlace'
    BY <1>1, <1>4 DEF OnePlace
  <1>7. Marked'
    BY <1>1, <1>4 DEF Marked
  <1>8. Standing'
    BY <1>1, <1>3 DEF Standing, At
  <1>9. Known'
    BY <1>1, <1>3, <1>4 DEF Known, At
  <1> QED
    BY <1>1, <1>5, <1>6, <1>7, <1>8, <1>9 DEF NeverResent, SentWasDelivered

\* A batch that is given to Falcon is new to it, or Falcon's having it was forgotten.
LEMMA GivenCounts ==
  ASSUME ExportInv, NEW w \in Worker, At(w, "post"), falcon' = Given(Batch(w))
  PROVE  /\ falcon' \in [Ioc -> 0..2]
         /\ \A k \in Ioc : /\ falcon'[k] > 0 <=> falcon[k] > 0 \/ k \in Batch(w)
                           /\ falcon'[k] > 1 => k \in forgotten
  <1> USE DEF ExportInv
  <1>1. \A k \in Ioc : falcon[k] \in 0..2
    BY DEF CrowdstrikeTypeOK
  <1>2. \A k \in Ioc : falcon'[k] = IF k \in Batch(w) /\ falcon[k] < 2 THEN falcon[k] + 1
                                                                       ELSE falcon[k]
    BY DEF Given
  <1>3. falcon' \in [Ioc -> 0..2]
    BY <1>1 DEF Given
  <1>4. ASSUME NEW k \in Ioc, k \in Batch(w), falcon[k] > 0 PROVE k \in forgotten
    <2>1. k \notin sent
      BY <1>4 DEF Marked
    <2>2. ASSUME NEW v \in Worker, At(v, "ok"), k \in Batch(v) PROVE FALSE
      BY <1>4, <2>2 DEF OnePlace, At
    <2> QED
      BY <1>4, <2>1, <2>2 DEF Known
  <1> QED
    BY <1>1, <1>2, <1>3, <1>4 DEF NeverResent

LEMMA AcceptedStep ==
  ASSUME ExportInv, NEW w \in Worker, PostAccepted(w)
  PROVE  ExportInv'
  <1> USE DEF ExportInv
  <1>1. /\ At(w, "post") /\ falcon' = Given(Batch(w)) /\ GoTo(w, "ok")
        /\ UNCHANGED <<sent, pendingKeys, pending, notify, token, refreshing, closed,
                       forgotten, dropped>>
    BY DEF PostAccepted
  <1>2. /\ worker' \in [Worker -> WorkerT]
        /\ worker'[w].pc = "ok"
        /\ \A v \in Worker \ {w} : worker'[v] = worker[v]
        /\ \A v \in Worker : Batch(v)' = Batch(v)
    BY <1>1, GoToMoves
  <1>3. /\ falcon' \in [Ioc -> 0..2]
        /\ \A k \in Ioc : /\ falcon'[k] > 0 <=> falcon[k] > 0 \/ k \in Batch(w)
                          /\ falcon'[k] > 1 => k \in forgotten
    BY <1>1, GivenCounts
  <1>4. CrowdstrikeTypeOK'
    BY <1>1, <1>2, <1>3 DEF CrowdstrikeTypeOK
  <1>5. OnePlace' /\ Marked'
    BY <1>1, <1>2 DEF OnePlace, Marked
  <1>6. Standing'
    BY <1>1, <1>2 DEF Standing, Worker, At
  <1>7. \A v \in Worker : Batch(v) \subseteq Ioc
    BY RangeInside DEF CrowdstrikeTypeOK, WorkerT, Batch
  <1>8. Known'
    <2>1. ASSUME NEW k \in Ioc, falcon'[k] > 0
          PROVE  k \in forgotten \cup sent \/ \E v \in Worker : At(v, "ok")' /\ k \in Batch(v)'
      <3>1. CASE k \in Batch(w)
        BY <1>2, <3>1 DEF At
      <3>2. CASE k \notin Batch(w)
        BY <1>2, <1>3, <2>1, <3>2 DEF Known, At
      <3> QED
        BY <3>1, <3>2
    <2>2. ASSUME NEW v \in Worker, At(v, "ok")', NEW k \in Batch(v)' PROVE falcon'[k] > 0
      BY <1>2, <1>3, <1>7, <2>2 DEF Known, At
    <2> QED
      BY <1>1, <2>1, <2>2 DEF Known
  <1>9. NeverResent' /\ SentWasDelivered'
    BY <1>1, <1>3 DEF NeverResent, SentWasDelivered, CrowdstrikeTypeOK
  <1> QED
    BY <1>4, <1>5, <1>6, <1>8, <1>9

LEMMA UnansweredStep ==
  ASSUME ExportInv, NEW w \in Worker, PostUnanswered(w)
  PROVE  ExportInv'
  <1> USE DEF ExportInv
  <1>1. /\ At(w, "post") /\ falcon' = Given(Batch(w)) /\ GoTo(w, "failed")
        /\ forgotten' = forgotten \cup Batch(w)
        /\ UNCHANGED <<sent, pendingKeys, pending, notify, token, refreshing, closed, dropped>>
    BY DEF PostUnanswered
  <1>2. /\ worker' \in [Worker -> WorkerT]
        /\ worker'[w].pc = "failed"
        /\ \A v \in Worker \ {w} : worker'[v] = worker[v]
        /\ \A v \in Worker : Batch(v)' = Batch(v)
    BY <1>1, GoToMoves
  <1>3. /\ falcon' \in [Ioc -> 0..2]
        /\ \A k \in Ioc : /\ falcon'[k] > 0 <=> falcon[k] > 0 \/ k \in Batch(w)
                          /\ falcon'[k] > 1 => k \in forgotten
    BY <1>1, GivenCounts
  <1>4. \A v \in Worker : Batch(v) \subseteq Ioc
    BY RangeInside DEF CrowdstrikeTypeOK, WorkerT, Batch
  <1>5. CrowdstrikeTypeOK'
    BY <1>1, <1>2, <1>3, <1>4 DEF CrowdstrikeTypeOK
  <1>6. OnePlace' /\ Marked'
    BY <1>1, <1>2 DEF OnePlace, Marked
  <1>7. Standing'
    BY <1>1, <1>2 DEF Standing, Worker, At
  <1>8. Known'
    BY <1>1, <1>2, <1>3, <1>4 DEF Known, At
  <1>9. NeverResent' /\ SentWasDelivered'
    BY <1>1, <1>3 DEF NeverResent, SentWasDelivered, CrowdstrikeTypeOK
  <1> QED
    BY <1>5, <1>6, <1>7, <1>8, <1>9

LEMMA RequeueStep ==
  ASSUME ExportInv, NEW w \in Worker, Requeue(w)
  PROVE  ExportInv'
  <1> USE DEF ExportInv
  <1> DEFINE all  == worker[w].batch \o pending
             over == IF Len(all) > PendingLimit THEN Len(all) - PendingLimit ELSE 0
  <1>1. /\ At(w, "failed")
        /\ pending' = SubSeq(all, over + 1, Len(all))
        /\ dropped' = dropped \cup Range(SubSeq(all, 1, over))
        /\ worker' = [worker EXCEPT ![w] = Finished(w)]
        /\ UNCHANGED <<sent, pendingKeys, notify, token, refreshing, closed, falcon, forgotten>>
    BY DEF Requeue
  <1>2. worker[w].batch \in Seq(Ioc) /\ pending \in Seq(Ioc)
    BY DEF CrowdstrikeTypeOK, WorkerT
  <1>3. all \in Seq(Ioc) /\ Range(all) = Batch(w) \cup Range(pending)
    BY <1>2, RangeConcat DEF Batch
  <1>4. Len(all) \in Nat
    BY <1>3, LenProperties
  <1> HIDE DEF all
  <1>5. over \in Nat /\ over <= Len(all)
    BY <1>4, CrowdstrikeAssumption
  <1> HIDE DEF over
  <1>6. pending' \in Seq(Ioc) /\ Range(pending') \subseteq Batch(w) \cup Range(pending)
    BY <1>1, <1>3, <1>4, <1>5, RangeSubSeq
  <1>7. Range(SubSeq(all, 1, over)) \subseteq Ioc
    <2>1. SubSeq(all, 1, over) \in Seq(Ioc)
      BY <1>3, <1>4, <1>5, RangeSubSeq
    <2> QED
      BY <2>1, RangeInside
  <1>8. /\ worker' \in [Worker -> WorkerT]
        /\ worker'[w].pc = IF w = "flusher" THEN "ready" ELSE "off"
        /\ worker'[w].batch = <<>> /\ Batch(w)' = {}
        /\ \A v \in Worker \ {w} : worker'[v] = worker[v] /\ Batch(v)' = Batch(v)
    BY <1>1, FinishedMoves
  <1>9. CrowdstrikeTypeOK'
    BY <1>1, <1>6, <1>7, <1>8 DEF CrowdstrikeTypeOK
  <1>10. OnePlace'
    BY <1>1, <1>6, <1>8 DEF OnePlace
  <1>11. Marked'
    BY <1>1, <1>6, <1>8 DEF Marked
  <1>12. Standing'
    BY <1>1, <1>8 DEF Standing, Worker
  <1>13. Known'
    BY <1>1, <1>8 DEF Known, At, Worker
  <1> QED
    BY <1>1, <1>9, <1>10, <1>11, <1>12, <1>13 DEF NeverResent, SentWasDelivered

LEMMA ConfirmStep ==
  ASSUME ExportInv, NEW w \in Worker, Confirm(w)
  PROVE  ExportInv'
  <1> USE DEF ExportInv
  <1>1. /\ At(w, "ok")
        /\ sent' = sent \cup Batch(w) /\ pendingKeys' = pendingKeys \ Batch(w)
        /\ worker' = [worker EXCEPT ![w] = Finished(w)]
        /\ UNCHANGED <<pending, notify, token, refreshing, closed, falcon, forgotten, dropped>>
    BY DEF Confirm
  <1>2. /\ worker' \in [Worker -> WorkerT]
        /\ worker'[w].pc = IF w = "flusher" THEN "ready" ELSE "off"
        /\ worker'[w].batch = <<>> /\ Batch(w)' = {}
        /\ \A v \in Worker \ {w} : worker'[v] = worker[v] /\ Batch(v)' = Batch(v)
    BY <1>1, FinishedMoves
  <1>3. Batch(w) \subseteq Ioc
    BY RangeInside DEF CrowdstrikeTypeOK, WorkerT, Batch
  <1>4. CrowdstrikeTypeOK'
    BY <1>1, <1>2, <1>3 DEF CrowdstrikeTypeOK
  <1>5. OnePlace'
    BY <1>1, <1>2 DEF OnePlace
  <1>6. Marked'
    BY <1>1, <1>2 DEF Marked, OnePlace
  <1>7. Standing'
    BY <1>1, <1>2 DEF Standing, Worker
  <1>8. Known'
    <2>1. ASSUME NEW k \in Ioc, falcon[k] > 0
          PROVE  k \in forgotten \cup sent' \/ \E v \in Worker : At(v, "ok")' /\ k \in Batch(v)'
      <3>1. CASE k \in forgotten \cup sent \cup Batch(w)
        BY <1>1, <3>1
      <3>2. CASE \E v \in Worker \ {w} : At(v, "ok") /\ k \in Batch(v)
        BY <1>2, <3>2 DEF At
      <3> QED
        BY <2>1, <3>1, <3>2 DEF Known
    <2>2. ASSUME NEW v \in Worker, At(v, "ok")', NEW k \in Batch(v)' PROVE falcon[k] > 0
      <3>1. v # w
        BY <1>2, <2>2
      <3> QED
        BY <1>2, <2>2, <3>1 DEF Known, At
    <2> QED
      BY <1>1, <2>1, <2>2 DEF Known
  <1>9. NeverResent' /\ SentWasDelivered'
    BY <1>1 DEF NeverResent, SentWasDelivered, Known
  <1> QED
    BY <1>4, <1>5, <1>6, <1>7, <1>8, <1>9

LEMMA FlushStep ==
  ASSUME ExportInv, NEW w \in Worker, Flush(w)
  PROVE  ExportInv'
  <1>1. CASE UseToken(w)
    BY <1>1, MoveStep DEF UseToken, At, ExportInv, CrowdstrikeTypeOK, Standing
  <1>2. CASE BeginRefresh(w)
    BY <1>2, MoveStep DEF BeginRefresh, At, ExportInv, CrowdstrikeTypeOK, Standing
  <1>3. CASE EndRefresh(w)
    BY <1>3, MoveStep DEF EndRefresh, At, ExportInv, CrowdstrikeTypeOK, Standing
  <1>4. CASE PostRefused(w)
    BY <1>4, MoveStep DEF PostRefused, At, ExportInv, CrowdstrikeTypeOK, Standing
  <1> QED
    BY <1>1, <1>2, <1>3, <1>4, TakeStep, AcceptedStep, UnansweredStep, RequeueStep, ConfirmStep
    DEF Flush, Request

-----------------------------------------------------------------------------
(* Notify, and the rest *)

\* The callers of flush stand still.
LEMMA MarkStep ==
  ASSUME ExportInv, NEW x \in Spelling, Mark(x)
  PROVE  ExportInv'
  <1> USE DEF ExportInv
  <1>1. /\ notify = Rejected /\ Clean[x] \in Ioc /\ Clean[x] \notin sent \cup pendingKeys
        /\ pendingKeys' = pendingKeys \cup {Clean[x]} /\ notify' = Clean[x]
        /\ UNCHANGED <<sent, pending, worker, token, refreshing, closed, falcon,
                       forgotten, dropped>>
    BY DEF Mark
  <1>2. \A w \in Worker : Batch(w)' = Batch(w)
    BY <1>1 DEF Batch
  <1>3. CrowdstrikeTypeOK' /\ Standing'
    BY <1>1 DEF CrowdstrikeTypeOK, Standing
  <1>4. OnePlace' /\ Marked'
    BY <1>1, <1>2 DEF OnePlace, Marked
  <1>5. Known'
    BY <1>1, <1>2 DEF Known, At
  <1> QED
    BY <1>1, <1>3, <1>4, <1>5 DEF NeverResent, SentWasDelivered

LEMMA EnqueueStep ==
  ASSUME ExportInv, Enqueue
  PROVE  ExportInv'
  <1> USE DEF ExportInv
  <1>1. /\ notify # Rejected /\ pending' = Append(pending, notify) /\ notify' = Rejected
        /\ UNCHANGED <<sent, pendingKeys, worker, token, refreshing, closed, falcon,
                       forgotten, dropped>>
    BY DEF Enqueue
  <1>2. notify \in Ioc /\ Rejected \notin Ioc
    BY <1>1, CrowdstrikeAssumption DEF CrowdstrikeTypeOK
  <1>3. pending' \in Seq(Ioc) /\ Range(pending') = Range(pending) \cup {notify}
    BY <1>1, <1>2, RangeAppend DEF CrowdstrikeTypeOK
  <1>4. \A w \in Worker : Batch(w)' = Batch(w) /\ Batch(w) \subseteq Ioc
    BY <1>1, RangeInside DEF Batch, CrowdstrikeTypeOK, WorkerT
  <1>5. CrowdstrikeTypeOK' /\ Standing'
    BY <1>1, <1>3 DEF CrowdstrikeTypeOK, Standing
  <1>6. Range(pending') \subseteq Ioc
    BY <1>3, RangeInside
  <1>7. OnePlace'
    BY <1>1, <1>2, <1>3, <1>4, <1>6 DEF OnePlace
  <1>8. Marked'
    BY <1>1, <1>3, <1>4 DEF Marked
  <1>9. Known'
    BY <1>1, <1>4 DEF Known, At
  <1> QED
    BY <1>1, <1>5, <1>7, <1>8, <1>9 DEF NeverResent, SentWasDelivered

LEMMA PruneStep ==
  ASSUME ExportInv, PruneSent
  PROVE  ExportInv'
  <1> USE DEF ExportInv
  <1>1. /\ sent' = {} /\ forgotten' = forgotten \cup sent
        /\ UNCHANGED <<pendingKeys, pending, notify, worker, token, refreshing, closed,
                       falcon, dropped>>
    BY DEF PruneSent
  <1>2. \A w \in Worker : Batch(w)' = Batch(w)
    BY <1>1 DEF Batch
  <1>3. CrowdstrikeTypeOK' /\ Standing'
    BY <1>1 DEF CrowdstrikeTypeOK, Standing
  <1>4. OnePlace' /\ Marked'
    BY <1>1, <1>2 DEF OnePlace, Marked
  <1>5. Known'
    BY <1>1, <1>2 DEF Known, At
  <1> QED
    BY <1>1, <1>3, <1>4, <1>5 DEF NeverResent, SentWasDelivered

LEMMA InvStep ==
  ASSUME ExportInv, [CrowdstrikeNext]_csVars
  PROVE  ExportInv'
  <1>1. CASE FlusherQuits
    BY <1>1, MoveStep
    DEF FlusherQuits, At, ExportInv, CrowdstrikeTypeOK, Standing, Worker
  <1>2. CASE Close
    <2>1. At("main", "off") /\ worker["main"].batch = <<>> /\ "main" \in Worker
      BY <1>2 DEF Close, ExportInv, Standing, At, Worker
    <2> QED
      BY <1>2, <2>1, MoveStep DEF Close, At, ExportInv, CrowdstrikeTypeOK
  <1>3. CASE CloseEmpty
    BY <1>3, MoveStep
    DEF CloseEmpty, At, ExportInv, CrowdstrikeTypeOK, Standing, Worker
  <1>4. ASSUME TokenExpires \/ UNCHANGED csVars PROVE ExportInv'
    <2>1. /\ UNCHANGED <<sent, pendingKeys, pending, notify, worker, refreshing, closed,
                         falcon, forgotten, dropped>>
          /\ token' \in BOOLEAN
      BY <1>4 DEF TokenExpires, csVars, ExportInv, CrowdstrikeTypeOK
    <2> QED
      BY <2>1 DEF ExportInv, CrowdstrikeTypeOK, OnePlace, Marked, Standing, Known,
         NeverResent, SentWasDelivered, Batch, At
  <1> QED
    BY <1>1, <1>2, <1>3, <1>4, FlushStep, MarkStep, EnqueueStep, PruneStep
    DEF CrowdstrikeNext, Notify

LEMMA Invariance == CrowdstrikeSpec => []ExportInv
  BY InitInv, InvStep, PTL DEF CrowdstrikeSpec

\* The export keeps its types, for any indicators, spellings and limits.
THEOREM ExportTypeCorrect == CrowdstrikeSpec => []CrowdstrikeTypeOK
  <1>1. ExportInv => CrowdstrikeTypeOK
    BY DEF ExportInv
  <1> QED
    BY <1>1, Invariance, PTL

\* No IOC is sent twice to Falcon, unless the notifier could not know of the first time:
\* whatever batches fail, overlap or are cut off, for any limits.
THEOREM NothingResent == CrowdstrikeSpec => []NeverResent
  <1>1. ExportInv => NeverResent
    BY DEF ExportInv
  <1> QED
    BY <1>1, Invariance, PTL

\* What counts as sent has been delivered.
THEOREM SentIsDelivered == CrowdstrikeSpec => []SentWasDelivered
  <1>1. ExportInv => SentWasDelivered
    BY DEF ExportInv
  <1> QED
    BY <1>1, Invariance, PTL
=============================================================================
