------------------------------ MODULE Versions ------------------------------
(***************************************************************************)
(* Versions and their ranges (internal/match/version/version.go). A        *)
(* version string is the scheme Detect finds in it, whether it starts with *)
(* "v", and the numbers its scheme's parser can read, none where that      *)
(* parser gives up (a semantic version with a suffix, an unknown scheme).  *)
(***************************************************************************)
EXTENDS Integers, Sequences

Scheme == {"empty", "semver", "date", "sap", "windows_build", "linux_kernel", "unknown"}

VersionString == [scheme : Scheme, v : BOOLEAN, parts : Seq(Nat)]

\* The empty string: no version is known, or no bound is set.
NoVersion == [scheme |-> "empty", v |-> FALSE, parts |-> <<>>]

\* Parse. Detect strips the "v", the parsers of dates, builds and kernels do not.
Parse(s) == CASE s.v /\ s.scheme = "date" -> <<>>
              [] s.v /\ s.scheme \in {"windows_build", "linux_kernel"} ->
                   [s.parts EXCEPT ![1] = 0]
              [] OTHER -> s.parts

Readable(s) == Parse(s) # <<>>

\* compareTuples gives -1: the first difference decides, and a prefix comes first.
Before(a, b) == \E i \in DOMAIN b : /\ \A j \in 1..(i - 1) : j \in DOMAIN a /\ a[j] = b[j]
                                    /\ i \in DOMAIN a => a[i] < b[i]

\* Faulty variant: a bound that cannot be read is taken for the lowest version.
InRangeOrUnread(version, start, end) ==
    IF ~Readable(version) THEN "product_only_match"
    ELSE IF \/ Readable(start) /\ Before(Parse(version), Parse(start))
            \/ end.scheme # "empty" /\ Before(Parse(end), Parse(version))
           THEN "version_not_affected"
    ELSE "exact_version_match"

\* InRange, both bounds inclusive: what it makes of a match. A bound that cannot be read
\* excludes nothing.
InRange(version, start, end) ==
    IF ~Readable(version) THEN "product_only_match"
    ELSE IF \/ Readable(start) /\ Before(Parse(version), Parse(start))
            \/ Readable(end) /\ Before(Parse(end), Parse(version))
           THEN "version_not_affected"
    ELSE IF \A bound \in {start, end} : bound.scheme # "empty" => Readable(bound)
           THEN "exact_version_match"
    ELSE "product_only_match"

\* What a version denotes, however it is written: reference for the properties.
PartOf(s, i) == IF i \in DOMAIN s.parts THEN s.parts[i] ELSE 0
SameRelease(s, t) == /\ s.scheme = t.scheme
                     /\ \A i \in DOMAIN s.parts \cup DOMAIN t.parts : PartOf(s, i) = PartOf(t, i)
=============================================================================
