# Threat Intel Arbiter: a verification development

TLA+ specifications of the arbiter (`cmd/arbiter`, `internal/`), TLC configurations
that model-check them on small instances, and TLAPS proofs of theorems that hold for
every instance. Paths below are relative to the repository; `MISPPoller.poll` and the
like are the names of the code. `PROJECT.json` lists components, runs, hazards, findings
and theorems, and maps each definition to the lines it models.

## 1. The system

One process. `main` opens a SQLite database, starts goroutines and waits for a signal:

```
 MISP servers --> MISP pollers --+                       +--> alerts, dedup_hashes (SQLite)
                    |            |                       |
                    |            +--> event channel --> event processor --> router, channels
                    |            |    (5000 events)      |
 CISA feed ----> KEV poller -----+                       +--> CrowdStrike export --> Falcon
                    |  catalog (KEV matcher) ------------+
                    +- events, state (SQLite); retractions --> alerts
 analysts -----> HTTP API -----------------------------------> alerts, users, sessions, settings
```

| Component | State | Operations | Hard behaviour | Correct when |
|---|---|---|---|---|
| Event processor, life cycle (`cmd/arbiter/main.go`) | the channel, the context | receive, filter, match, score, save, deliver; start, cancel, end | a crash at any statement; nothing is drained at the end | it is a client the store and the pollers allow; it moves on when its deliveries return |
| Alert store (`internal/store/alerts.go`, `internal/risk/alert.go`, `handleAdminAck`) | tables `alerts`, `dedup_hashes` | `SaveAlert`, `SuppressAlertsForEvent`, acknowledge | three statements, no transaction; three writers | no alert without a hash; one row per TTL; a retraction sticks |
| MISP pollers (`internal/source/poller.go`) | tables `events`, `state`; cold-start flag, page, newest time stamp | `Run`, `poll`, `storeEvent`, `setCursor` | errors that are only logged; cursor against pages, edits, crashes; a blocking send | nothing is skipped, the cursor does not slip back, versions stay in order |
| KEV poller, KEV matcher (`kev.go`, `kev_matcher.go`) | the catalog | fetch, replace, offer without waiting | a full channel; replacement between two matches | never blocks nor overfills the channel |
| CrowdStrike export (`internal/notify/crowdstrike.go`) | `sent`, `pendingKeys`, `pending`, token | `Notify`, `flush`, `getToken`, `pruneSent`, `Close` | two concurrent flushes, lost answers, limits, shutdown | each IOC is delivered once, or known to be dropped |
| Router and channels (`internal/notify/router.go`, ...) | rules | `Route` | none: sequential | what must be acted on is routed |
| Matchers, version ranges, filter (`internal/match`, `internal/filter`) | none | `Match`, `InRange`, `Allow` | versions of different length and scheme | nothing is suppressed that may be affected |
| Risk engine, SSVC (`internal/risk`) | configuration | `Score`, `SSVCTree` | boundaries of the scores; two judgements of one event | more evidence never lowers either; the two agree |
| Accounts and sessions (`internal/store/users.go`, `internal/api/auth.go`) | tables `users`, `sessions` | login, logout, create, update, delete | check and update in separate statements; a login racing an update or a deletion; the end of the process before a removal | an administrator remains; no session outlives its account and its password, but in the ways the code leaves open; an upgraded hash is of the same password |
| Login limiter (`internal/api/ratelimit.go`) | attempts by key | `allow`, `reset`, evict | window boundaries; eviction and reset between two uses | no more than the limit in a window, until a login with the key succeeds |
| Tech stack and its import (`internal/store`, `main`) | table `tech_stack`, the rows read at the start | import, upload, edit | two copies; a restart imports over edits | alerts have a reason in the inventory |
| Settings | table `settings` | seed, list, put | none: single statements, and no other component reads the table | - |
| HTTP API, dashboard, configuration, schema | none of their own | queries, rendering, parsing | none | - |

## 2. The modules

| Module | Models |
|---|---|
| `Base` | event identifiers, the clock |
| `Runtime` | the process (`down`, `running`, `stopping`), the bounded channel: blocking send, dropping send, receive |
| `AlertStore` | the abstract specification of the store: the two tables, `SaveAlert` as three statements, its concurrent writers |
| `KevPoller` | the KEV poller and its catalog |
| `MispPoller` | the pollers, their tables and the MISP servers; `PollerSpec` is the abstract specification of the pollers with an arbitrary process around them |
| `Pipeline` | composes the four: the event processor, the API and the life cycle; `Spec` implements `StoreSpec` and `PollerSpec` |
| `Crowdstrike` | the export |
| `SlidingWindow` | the abstract specification of the login limiter: what it promises, whatever it stores |
| `RateLimiter` | the limiter's map of attempts and its operations |
| `Accounts` | extends `RateLimiter`: the tables of users and sessions, and the requests that use all three; implements `SlidingWindow` |
| `Versions`, `Matching`, `Scoring` | operators, each extending the one before: versions and ranges; the normalised event, the filter and the matchers; the score and the SSVC tree |
| `TechStack` | the inventory in memory and in its table |
| `Assessment` | composes the last two: what the processor makes of an event, while the event, the catalog and the inventory change; with routing and the export's gate |
| `MCAlertStore`, `MCMispPoller`, `MCPipeline`, `MCCrowdstrike`, `MCAccounts`, `MCAssessment` | instances for TLC |
| `AlertStoreProofs`, `MispPollerProofs`, `PollProofs`, `PipelineProofs`, `CrowdstrikeProofs`, `SlidingWindowProofs`, `AccountsProofs`, `AssessmentProofs` | theorems |

`Pipeline` and `Assessment` are two views of the processor. `Pipeline` has its control,
with what it makes of an event as constants; `Assessment` has what it makes of an event,
with one event at a time and without the store.

Definitions whose comment begins with "Faulty variant" are not part of any specification:
each is what a plausible mistake would make of the definition below it, and shows that a
property depends on that definition.

### How the models correspond to the code

*One action for one statement or one wait.* A statement of the database, a send or a
receive, a request and a critical section are each an action; what lies between two of
them is local to a goroutine and belongs to one of them. SQLite runs one statement
atomically, and no function modelled here opens a transaction.

*Time.* The code compares Unix seconds (cursor) or RFC3339 strings (hashes); a unit of the
clock stands for what it tells apart. The strings carry the local zone and are compared as
text; the model takes the offset as constant.

*AlertStore.* `step` is the program counter of `SaveAlert`, or its result. `Ack` is an
unconditional update that stores any string, "acked" where none is given: the constant
`AckStatus` is any set of strings, and may hold "new". `CleanDedup` has no caller and no
action. The schema declares a foreign key from alerts to events; the driver does not read
the option `_foreign_keys` of the connection string, and KEV alerts, whose events are never
stored, rely on that: the model has no such constraint.

*MispPoller.* `poll[s]` holds the locals of `poll` for the source `s`: where the
goroutine stands, the rest of the page, the newest time stamp, whether the last page was
full. `Listings` is a set with one element, the order of the server; the `\E` over it is
how the sequence is named without recursion. With the constant `DbFaults` each statement
on `events` and `state` may fail, and each read then yields "no row", as the code has it.
The branch "stored version is newer" needs two sources with one event identifier.
A stored row that does not parse is the one error `getStoredEvent` returns: the poll then
passes over the event, whose time stamp has already counted (`ExamineFails`), and the
error of `SuppressAlertsForEvent` is only logged (`RetractFails`). `taken` and `missed` are
history variables: the newest version of an event that was sent or retracted, and the
newest that one of these two errors passed over.

*Pipeline.* `Relevant`, `CveOf` and `DedupKey` stand for the filter, the matchers and the
score. The key of an alert is made of title, severity and score: it is a function of the
version of the event and of whether the catalog lists a CVE of it when it is processed. A
KEV fetch that fails changes nothing. After `Deliver`, the processor itself sends the alert
to its channels and hands its indicators to the export, whatever `SaveAlert` returned;
`Delivered` is the return of the last of these calls, which may never come
(`smtp.SendMail` has no timeout). `retracted` is a history variable, one mark for each alert.
`ProcessEnds` is a crash at any point, or `main` returning, which waits for no goroutine.

*Crowdstrike.* The two callers of `flush` are the flusher goroutine and `Close`.
`Close` sets `closed` and then tests whether there is something to flush, in two steps.
`flushCh` only hastens a flush and is left out. `falcon`, in the initial state, holds what
earlier processes delivered. Mock mode is left out, and so is the action (detect or
prevent) an IOC is posted with: a function of its type, as the configuration does not change.

*Accounts.* `req[r]` holds the locals of one HTTP request: where its handler stands and
what it has read. Every statement and every use of the limiter is an action, in the order
of the code; with `DbFaults` each may fail, and a failed read is what the code makes of
it (no such user, no other administrator, no demotion). A password stands for its hash,
and `legacy` for a hash of the older kind, which the next login upgrades. `PresentKey` is
the API key's way past the session. `requireAuth` in front of `requireAdmin` is left out:
the latter makes the same check again. The role a session row stores is left out, as no
check reads it. The two resets after a login are two actions, as the limiter's lock is
released between them. `up` says whether the process runs: `ProcessEnds` cuts requests off
where they stand and loses the limits, `ProcessStarts` is `Open` with `seedDefaultAdmin`,
whose count of the users reads an error as an empty table. Sessions expire meanwhile.
History fields, which no guard reads: `outdated` (what a request relies on has changed), the
password `pw` that the login of a session has checked, and `lapse`, why no statement to come
will remove the session with that password. A session is `Stale` when its password is not
the account's, or the account is gone: that is read from the tables, not from the history.

*RateLimiter.* An attempt is its age, not its time, so the model needs no clock; ages stop
at the window, from which on the code no longer counts them. Attempts of one age are
numbered, as the code's slice holds several. The branch of `allow` that evicts the key it
has just stored cannot be taken.

*Versions, Matching, Scoring.* A version is the scheme `Detect` finds and the numbers its
parser reads, including where the two differ: `Detect` strips a leading "v", the parsers
of dates, builds and kernels do not. An event is kept as MISP lists it, and the derived
fields of the normaliser are operators over it. Names are compared by aliases and
substrings in the code; the constant `Alike` is the result, and `named` the result for
the title. `TagEvent` is left out: nothing looks for the tags it adds. Weights and
thresholds are the defaults, which `config/risk.json` repeats; the score is counted in its
75 smallest steps. Markings are modelled in the case and the spelling that some line tells
apart: the filter and the confidence look for lower case, the gate for either, and
"tlp:amber+strict" is none it knows. The criticality "low" is treated as "medium" by every
line modelled here, so the model has one of them.

*TechStack, Assessment.* Matchers and scores use the rows read from the file when the
process started, and the dashboard edits a table that nothing but the dashboard reads.
`ImportTechStack` is the one transaction of the program. The variables of `Assessment`
are what an assessment depends on, the actions what changes it between two polls; the
verdict (`Raised`, `Score`, `Action`, `Routed`, `Leaving`) is a function of the state.

## 3. The runs

| Run | Shows | Bounds |
|---|---|---|
| `store` | `RowHasHash`, `OneRowPerTtl` | two alerts of two events, TTL 2, clock 0..5: a hash can expire twice, and a save can straddle an expiry; acknowledgements with "new", a known and an unknown status |
| `poller` | `NothingSkipped`, `CursorKept` | two events, one source, pages of one event and one page a poll, so the page limit is reached with events left; channel of one; clock 0..2; every statement may fail, and every stored row may be unreadable |
| `poller_cursor` (violation) | the cursor passes an edit made during a poll | as `poller`, servers may change at any time |
| `pipeline` | `VersionsInOrder`, `SuppressionSticks`; implements `StoreSpec`, `PollerSpec` | one MISP event, whose first version and later ones have alerts with different keys; channel of two, so two versions of the event; TTL 1, clock 0..1: an expiry and a newer version; acknowledgements with "acked" and "new" |
| `pipeline_live` | `BlockedSendReleased`, the capacity of the channel | one MISP and one KEV event, channel of one, for which the two pollers compete; the boosted alert has a key of its own; acknowledgements with "acked" only; the clock stands still, as no wait depends on it |
| `pipeline_retraction` (violation) | a retraction overtakes the channel | one MISP and one KEV event, channel of one, clock 0..1, two keys |
| `crowdstrike` | `NeverResent`, `SentWasDelivered`, `Exported` | three IOCs, one in two spellings, one spelling rejected; pending limit 2, so that it overflows; prune limit 1 |
| `crowdstrike_overflow` (violation) | dropped IOCs keep their key | pending limit 1 |
| `accounts` | `LastAdminLostByRace`, `SessionsAreCurrent`, `UpgradeIsTransparent`; implements `SlidingWindow` (`LimiterPromise`) | two users, two passwords, two requests at a time, one token, window 2; every statement may fail |
| `accounts_sessions` (violation) | a login that a change of the password overtakes opens a session of the old one | as `accounts`, and no statement fails |
| `assessment` | `EvidenceNeverLowers`, `ActIsRouted`, `SuppressionIsSound`, `RestrictedStaysHome` | two applications, four inventories, tags and indicators with every marking in question; two tags and two attributes on an event |
| `assessment_reason` (violation) | a suppressed match raises an alert | as `assessment`, with the CPE of a release nobody has installed |

`Quiet = TRUE` in the passing runs of the poller and the pipeline: the servers change only
between polls. The run `poller_cursor` shows that `NothingSkipped` fails without it.
`ColdWindow` is at least the clock's bound, so that a cold start sees every event: an
older event is outside what the code sets out to read. `ByTime = TRUE`: the paging by
time stamp assumes a listing in that order. The pipeline's statements on `events` and
`state` do not fail (`DbFaults = FALSE`), as the poller's run covers that; its alert
statements, and the suppression, may fail. The run `pipeline` has no KEV poller, which
`pipeline_live` has; that the whole implements `PollerSpec` and `StoreSpec` with any number of
KEV entries is proved.

In `accounts` two requests are enough for every race a property names: each relates one
request to what one other does between two of its statements, and the second can in turn
be a login, an update, a removal or a check. The limits are two attempts for the address, one
for `root` and none for `ann`. With a window of two units an attempt ages before it leaves it,
so that an eviction or a reset could forget it early; the constraint `Slices` lets attempts
age only while no other account and no session exists, as what the limiter shares with the
tables is no more than which logins are under way. Two logins can be under way at once; the
limit of a name is reached by one attempt and again after a reset. `ann`, whose login adds
nothing to that of `root`, can still be demoted, removed, created, given a password, have her
attempts refused, and, as an administrator, let `root` be removed. A session
token that has been removed may be issued again, so one token is many in turn; with two
requests, of which a check uses one, more tokens at a time tell nothing apart. Requests and
passwords are symmetric: the specification compares them only for equality, and no
liveness is checked.

In `assessment` the constraint `Slices` cuts the exploration so that only what meets in an
operator is combined: tags with at most one attribute (score, tree, filter); two
attributes with at most one tag (matching, ranges, the score of the last attribute); and
two indicators and their markings with two markings of the event (the export's gate). The
edits of the table, which no verdict reads, are explored on a new event. Two of each are
enough for "the first decides" and "the last decides"; the theorems below cover any
number of them.

The process may be started and ended any number of times in all runs but those of the
export, which begin with anything an earlier process may have delivered.

*Deadlock* is checked except for the export, where the system stops: after `Close`
and both flushes nothing remains to be done.

### Fairness

`FairSpec`: the event processor runs when it can, weakly fair in all it does but the
deliveries: it waits for the channel and for statements of the database, which return, with
an error at worst. That a delivery returns is not assumed, because the processor makes it
itself and the mail channel has no timeout (`email.go:89`): `BlockedSendReleased` has it as a
hypothesis, that again and again no delivery is under way. Each poller is weakly fair in its
own steps (client time-outs end its requests), and strongly fair in its send: Go hands a
value that a receiver takes to the first waiting sender, before any other can send. The
signal, crashes, the sources, the clock and analysts are not fair.

`FairCrowdstrikeSpec`: `Notify` finishes what it began, the flusher's ticker ticks and its
requests end. Two assumptions about Falcon are strong fairness: asked again and again it
grants a token at last, and accepts a post at last. Without them nothing can promise
delivery. No fairness is assumed of `Close`, pruning or the expiry of the token.

## 4. What the checks found

Five violation runs show where code and text disagree (`findings` in `PROJECT.json`):

1. `poller.go:131` stores the time of the end of the poll, so edits made during a poll
   can be skipped; the comment above it is about avoiding that.
2. `poller.go:100` suppresses the alerts there are; a copy of the event in the channel
   raises an active alert afterwards. `SuppressionSticks` is what does hold: a retraction
   with no copy in flight sticks.
3. `crowdstrike.go:251-254` drops the oldest pending IOCs but leaves their in-flight keys,
   so they are passed over until a restart.
4. `auth.go:95` creates the session some statements after the password was checked: a login
   that a change of the password overtakes opens a session of the old password, which
   `DeleteSessionsForUser` came too early to remove.
5. `main.go:192` asks only whether there are matches. A match that the CVE matcher marks
   suppressed is one, and nothing reads the mark, so an event whose only match is a
   version known not to be affected raises an alert; `docs/design.md:539-542` lists that,
   and an application that was removed, as reasons for suppression.

Some properties are weaker than one might expect because the code allows no more, and
their exceptions are hazards of their own in `PROJECT.json`. Two logged errors of a poll lose
an event or a retraction (`NothingSkipped` says that nothing else does). Two concurrent
demotions or removals can leave no administrator (`LastAdminLostByRace`). The upgrade of a
hash can overwrite a password that was changed meanwhile (`UpgradeIsTransparent`). A stale
session stays, for twelve hours at most, after an overtaken login, such an upgrade, a failed
removal, or the end of the process before a removal (`SessionsAreCurrent` names the four). A
request may set the status of a suppressed alert to "new" (`SuppressionSticks`). An indicator
of an amber event leaves if a public marking is read first (`RestrictedStaysHome`). One
release written with fewer numbers counts as another (`SuppressionIsSound`). An attribute
with a lower score than the one before it lowers the score (`EvidenceNeverLowers` counts it
as no added evidence).

Three more divergences were met that no run states, as one line decides each:

- `crowdstrike.go:189` downgrades prevent to detect only if some type is approved; the
  comment at `crowdstrike.go:46` says "empty = all detect", the warning at
  `crowdstrike.go:83` "all IOCs downgraded to detect".
- `crowdstrike.go:592-598` passes over "tlp:amber+strict", which the comment at
  `crowdstrike.go:582-583` would have blocked ("block amber/red unless opted in").
  `RestrictedStaysHome` leaves this marking out.
- `server.go:202` names three statuses in a comment, and `server.go:207` stores any.

## 5. What is proved

For every value of the constants that meets the named assumptions of the modules
(`StoreAssumption`, `RuntimeAssumption`, `PollerAssumption`, `KevAssumption`,
`PipelineAssumption`, `CrowdstrikeAssumption`, `LimiterAssumption`, `AccountsAssumption`,
`MatchingAssumption`, `AssessmentAssumption`, all of which TLC evaluates on the runs; and
where the last column says so, under further hypotheses of the theorem). Every safety
property of the passing runs is stated by one:

| Theorem | States |
|---|---|
| `AlertStoreProofs!StoreTypeCorrect` | `StoreSpec => []StoreTypeOK` |
| `AlertStoreProofs!AlertsAreHashed` | `StoreSpec => []RowHasHash` |
| `AlertStoreProofs!RowsReplacedByTtl` | `StoreSpec => OneRowPerTtl` |
| `MispPollerProofs!PollerTypeCorrect` | `PollerSpec => []PollerTypeOK`, the capacity of the channel included |
| `MispPollerProofs!CursorOnlyKept` | `PollerSpec => CursorKept` |
| `PipelineProofs!ProcessImplementsStore` | `Spec => StoreSpec` |
| `PipelineProofs!ProcessImplementsPollers` | `Spec => PollerSpec` |
| `PipelineProofs!TypeCorrect` | `Spec => []TypeOK` |
| `PipelineProofs!RetractionSticks` | `Spec => []SuppressionSticks` |
| `PollProofs!OrderInvariant` | `PollerSpec => []OrderInv`, with one source |
| `PollProofs!NothingIsSkipped` | `PollerSpec => []NothingSkipped`, with one source, quiet during a poll, listing by time stamp or on one page, and `MaxTime <= ColdWindow` |
| `PipelineProofs!ProcessSkipsNothing` | `Spec => []NothingSkipped`, under the same hypotheses |
| `PipelineProofs!ProcessedInOrder` | `Spec => []VersionsInOrder`, with one source |
| `CrowdstrikeProofs!ExportTypeCorrect` | types of the export |
| `CrowdstrikeProofs!NothingResent` | `NeverResent` |
| `CrowdstrikeProofs!SentIsDelivered` | `SentWasDelivered` |
| `SlidingWindowProofs!LimitIsKept` | the abstract window keeps every key within its limit |
| `AccountsProofs!LimiterKeepsPromise` | `AccountsSpec => LimiterPromise`: the requests and the limiter implement the window |
| `AccountsProofs!AccountsTypeCorrect` | `AccountsSpec => []AccountsTypeOK` |
| `AccountsProofs!LastAdminLostOnlyByRace` | `AccountsSpec => LastAdminLostByRace` |
| `AccountsProofs!UpgradesAreTransparent` | `AccountsSpec => UpgradeIsTransparent` |
| `AccountsProofs!SessionsStayCurrent` | `AccountsSpec => []SessionsAreCurrent` |
| `AssessmentProofs!AssessmentTypeCorrect` | `AssessmentSpec => []AssessmentTypeOK` |
| `AssessmentProofs!ActsAreRouted` | `AssessmentSpec => []ActIsRouted` |
| `AssessmentProofs!SuppressionsAreSound` | `AssessmentSpec => []SuppressionIsSound` |
| `AssessmentProofs!RestrictedStays` | `AssessmentSpec => []RestrictedStaysHome` |
| `AssessmentProofs!EvidenceCountsAlways` | `AssessmentSpec => EvidenceNeverLowers` |

*The store.* `RowHasHash` is not inductive: between two statements the alert that is about
to be inserted must already have its hash. `StoreInv` adds what each position of
`SaveAlert` knows: the alert in hand and the hashes were stamped no later than now; once
the check has passed, a row of that alert is at least a TTL old; before the last statement
the hash is stored and at least as new as the alert in hand.

*The pollers.* `PollerInv` adds to the types that a poller in the middle of a page has an
event to look at. `CursorInv` adds that whatever a poll fetched lies between the point it
listed from and now, so neither of the two values it may store is older than that point.

*Versions in order.* The channel alone does not show that the next version to be sent is
newer than those in it. `OrderInv` says that what is in the channel is no newer than
what was taken of its event (`taken`), that what is left of a page is no older and holds
one version of each event, and that the rows of `events` are no newer than the server's:
so a poll that passes over a stored version never leaves the newer one behind. The
processor adds `HandInOrder`: the item in its hands is no newer than any copy of the
event in the channel. Edits during a poll, full pages and faults are allowed; two
sources are not, as one event identifier may then carry two time stamps that each poller
takes in its turn.

*Nothing is skipped.* `PagedInv` has two parts. Between two polls: what is older than
the cursor has been taken. In a poll (`Progress`): what is older than the point it lists
from has been taken (`ListsRest`), and of the listing, everything up to the place it has
fetched (`Reach`) has been taken but the rest of the page in hand (`Paged`). Pages are
separate requests, so what makes them stretches of one listing is that each event has a
place there that does not depend on them: `Position` counts the events listed before it,
and the lemma `AtPosition` finds it there. A page that is not full is the last, so the
whole listing has been taken when the poll stores the time; after a page limit the
newest time stamp was seen up to there, and as the listing is by time, all that is older
came before it; a server whose events fit on a page never reaches that limit. None of
the hypotheses can be dropped; TLC finds a skipped version without each: with two
sources, one moves the cursor past the other's events; an edit during a poll is older
than the time it stores (the run `poller_cursor`); a listing by identifier that ends at
the page limit leaves older events behind; and a cold start that does not reach back to
the server's first event never lists it. A crash between a row and its send needs no
hypothesis: the poll passes over an event only if the row is newer than the version
listed, which it never is, so the version is sent by a later poll. `ProcessSkipsNothing`
follows as the process implements `PollerSpec`.

*The pipeline.* Each step of the process is mapped to a step of the store and of the
pollers or leaves their variables alone, so the invariants of both carry over.
`SuppressionSticks` is strengthened (`StickInv`) with: an alert whose event's retraction was
clean has no copy of that event in the channel or with the processor, and the alert that is
being saved is one of the event in the processor's hands. It is kept because only a send puts
a copy in the channel, and a send clears the mark; a request that makes an alert new clears
the mark of that alert, and no other status is "new".

*The export.* `NeverResent` needs to know where an IOC can be. `ExportInv` adds that it is
in one place at most (`OnePlace`: in the hands of `Notify`, in the list, in one of the two
batches); that whatever is on its way is marked, and what counts as sent is not
(`Marked`); that a caller of `flush` which is not in the middle of one has no batch
(`Standing`); and that the notifier knows of each delivery, or is about to, unless it
could not learn of it or has pruned it (`Known`). Each helper that moves IOCs has a lemma;
those on `Range` say what appending, joining and cutting a sequence does to its elements.

*The limiter.* The mapping takes the recent attempts (`Recent`) for those that count. An
admission adds the newest; a refusal, an eviction and a use that drops old attempts change
none that count; a tick drops exactly those that leave the window. That an attempt is new
because its number is one above those of its age needs their sets to be finite, which
`LimiterInv` adds. A reset is allowed only for a key of a login in the step after its
password was checked (`Verified`), and the map is emptied only where the process ends.
`LimitIsKept` closes the argument on the abstract side: an admission below the limit adds
at most one attempt, and time adds none.

*Accounts.* `AccountsInv` adds to the types what a request carries: a login on its way to
the upgrade its password, an update its role. For the action properties there are frame
lemmas: which steps change the row of a user, and what becomes of the other requests.
`AccountsInv` also says that no request is under way while the process is down.
`KnowsPassword` then says that a login that will upgrade a hash knows the current
password, or is outdated; `ChecksHold` that an update or a removal about to be written
still leaves another administrator, or is outdated. Both are kept because whatever
changes a row marks the requests that rely on it. `SessionsAreCurrent` is inductive with
`AccountsInv`: a session becomes stale only by a step that changes a password or removes a
row, and such a step either goes on to remove the sessions (`PasswordChanged`) or is an
upgrade, which marks them; a session that is opened stale is marked as it is opened; and a
request stops being about to remove only by removing, failing, or the end of the process
(`StillDropping`), which mark what is left.

*Assessment.* What an assessment promises is a function of the state, so the invariants
follow from the types alone, for any event, inventory and catalog. `ActIsRouted`: the table
says "Act" only for an active exploitation where an application is exposed, one is critical
and one holds sensitive data (`WhenToAct`); the score is then 3 * 3 * 2 at least, which no
severity below "medium" has, and from there on every confidence is routed.
`SuppressionIsSound`: two writings of the same numbers compare as equal at each place.
`RestrictedStaysHome` compares the marking that decides, the first known one of the
indicator's and the event's (`HeadIsFirst`, `MarkingProperties`), with sets of markings
that do not come from the gate's table. "The first" and "the last" of a sequence are well
defined because the naturals are well-founded (`HasFirst`, `HasLast`).
`EvidenceNeverLowers` is the one that compares two states: a step only adds to an event
(`StepExtends`), whatever matched matches again, by the same matcher and for the same
application (`MatchesGrow`), and each dimension of the score and each decision point of the
tree grows with what it is made of (`LikelihoodGrows`, `ImpactGrows`, `ExposureGrows`);
`ScoreGrows` says so of the product, `ActionGrows` of the table. `None` stands for "no CPE
of this application", so it must not be an attribute: the second conjunct of
`AssessmentAssumption`.

What stays with TLC: liveness under fairness (`BlockedSendReleased`, `Exported`), which
is out of the prover's reach, and the five counterexamples.

## 6. What is not modelled, and the plan

Not modelled, and not planned, with the reason:

- HTTP plumbing, dashboard, rendering: read-only queries; each handler that changes state
  is an action of the component it changes.
- The notification channels: a message is formatted and sent; a failure is logged and
  not repeated, so nothing depends on it. Which alerts reach them is `Route`.
- Settings: single-statement updates of a table that no other component reads. The
  notifiers and pollers use environment variables and files.
- Configuration, schema and migrations: run once, in sequence, before any goroutine starts.
- Mock mode of the export, which posts nothing; its cleaning and deny lists, a constant
  function of the spelling.
- Hashing, random tokens, the parsing of CPE and score strings, the formatting of
  messages: data that no property tells apart beyond what the model keeps.

Planned: the exceptions that the properties of `Accounts` and `Crowdstrike` name, each as
an abstract specification that the component is shown to implement; and an order of the
polls of several sources, if the code gives each its own cursor.
