------------------------------ MODULE Scoring -------------------------------
(***************************************************************************)
(* The risk score and the SSVC decision tree (internal/risk): two          *)
(* judgements of one event, from the same matches. Weights and thresholds  *)
(* are the defaults, which config/risk.json repeats.                       *)
(***************************************************************************)
EXTENDS Matching

MaxOf == [likelihood |-> 5, impact |-> 5, exposure |-> 3, confidence |-> 4]

Points(n, condition) == IF condition THEN n ELSE 0
Capped(n, max) == IF n > max THEN max ELSE n

HasTag(event, t) == t \in ElementsOf(event.tags)

\* The rows of the tech stack that a match names.
Hit(apps, matches) == {a \in apps : \E m \in matches : m.app = a.name}

InKev(matches) == \E m \in matches : m.by = "KEVMatcher"

-----------------------------------------------------------------------------
(* Score: four sums of points, the product of three of them *)

\* Faulty variant: only the tag is a signal.
LikelihoodByTag(event, matches) ==
    Capped(Points(3, HasTag(event, "exploit:in-the-wild"))
             + Points(2, HasTag(event, "exploit:weaponized"))
             + Points(1, event.actors) + Points(1, event.recent), MaxOf.likelihood)

\* KEV and the tag are one signal.
Likelihood(event, matches) ==
    Capped(Points(3, InKev(matches) \/ HasTag(event, "exploit:in-the-wild"))
             + Points(2, HasTag(event, "exploit:weaponized"))
             + Points(1, event.actors) + Points(1, event.recent), MaxOf.likelihood)

CvssPoints(cvss) == Points(1, cvss >= 40) + Points(1, cvss >= 70) + Points(1, cvss >= 90)

\* Faulty variant: a high criticality is looked for first.
CriticalityHighFirst(hit) == IF \E a \in hit : a.criticality = "high" THEN 1
                             ELSE Points(2, \E a \in hit : a.criticality = "critical")

CriticalityPoints(hit) == IF \E a \in hit : a.criticality = "critical" THEN 2
                          ELSE Points(1, \E a \in hit : a.criticality = "high")

\* A match is worth a point where score and criticality give none.
Impact(event, hit, matches) ==
    LET sum == CvssPoints(CvssOf(event)) + CriticalityPoints(hit) IN
    Capped(Points(1, sum = 0 /\ matches # {}) + sum
             + Points(1, \E a \in hit : a.sensitive), MaxOf.impact)

Exposure(event, hit, matches) ==
    Capped((IF \E a \in hit : a.internet THEN 2 ELSE Points(1, matches # {}))
             + Points(1, ElementsOf(event.tags) \cap Phishing # {}), MaxOf.exposure)

\* A point for every source whose confidence is below the limit.
Confidence(event) ==
    LET n == CASE SourceConfidence(event) = "high" -> 3
               [] SourceConfidence(event) = "medium" -> 2
               [] SourceConfidence(event) = "low" -> 0
    IN Capped(n + Points(1, n < MaxOf.confidence), MaxOf.confidence)

\* The score in its smallest steps, of which there are 75.
RiskScore(event, hit, matches) ==
    Likelihood(event, matches) * Impact(event, hit, matches) * Exposure(event, hit, matches)

Steps == MaxOf.likelihood * MaxOf.impact * MaxOf.exposure

\* From 0.50, 0.25 and 0.10 of the whole on.
Severity(score) == CASE 100 * score >= 50 * Steps -> "critical"
                     [] 100 * score >= 25 * Steps /\ 100 * score < 50 * Steps -> "high"
                     [] 100 * score >= 10 * Steps /\ 100 * score < 25 * Steps -> "medium"
                     [] OTHER -> "low"

ConfidenceLabel(n) == CASE n >= 3 -> "HIGH" [] n = 2 -> "MEDIUM" [] OTHER -> "LOW"

-----------------------------------------------------------------------------
(* SSVCTree: four decision points, a table of 72 outcomes *)

Actions == <<"Track", "Track*", "Attend", "Act">>

\* Outcomes as indexes of Actions, by exploitation, exposure, automatable (no, yes) and
\* mission impact. Nothing is ever judged to be "poc".
Deployer ==
    [none   |-> [small      |-> <<<<1, 1, 2, 2>>, <<1, 2, 2, 2>>>>,
                 controlled |-> <<<<1, 2, 2, 2>>, <<2, 2, 2, 2>>>>,
                 open       |-> <<<<1, 2, 2, 2>>, <<2, 2, 2, 3>>>>],
     poc    |-> [small      |-> <<<<1, 2, 2, 2>>, <<2, 2, 2, 2>>>>,
                 controlled |-> <<<<1, 2, 2, 2>>, <<2, 2, 2, 3>>>>,
                 open       |-> <<<<2, 2, 2, 3>>, <<2, 2, 3, 3>>>>],
     active |-> [small      |-> <<<<2, 2, 3, 3>>, <<2, 3, 3, 3>>>>,
                 controlled |-> <<<<2, 2, 3, 3>>, <<3, 3, 3, 3>>>>,
                 open       |-> <<<<2, 3, 3, 4>>, <<3, 3, 4, 4>>>>]]

Exploitation(event, matches) ==
    IF InKev(matches) \/ HasTag(event, "exploit:in-the-wild") THEN "active" ELSE "none"

SsvcExposure(hit, matches) == CASE \E a \in hit : a.internet -> "open"
                                [] matches # {} /\ (\A a \in hit : ~a.internet) -> "controlled"
                                [] OTHER -> "small"

Automatable(event) == IF CvssOf(event) >= 70 THEN 2 ELSE 1

\* low, medium, high, very high. The parts may come from different applications.
MissionImpact(hit) ==
    LET critical  == \E a \in hit : a.criticality = "critical"
        exposed   == \E a \in hit : a.criticality = "critical" /\ a.internet
        sensitive == \E a \in hit : a.sensitive
    IN CASE critical /\ sensitive /\ exposed -> 4
         [] critical /\ sensitive /\ ~exposed -> 3
         [] critical /\ ~sensitive -> 2
         [] ~critical -> IF \E a \in hit : a.criticality = "high" THEN 2 ELSE 1

SsvcAction(event, hit, matches) ==
    Deployer[Exploitation(event, matches)][SsvcExposure(hit, matches)]
            [Automatable(event)][MissionImpact(hit)]
=============================================================================
