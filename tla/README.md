# sainte-beuve: a TLA+ model of its concurrent core

sainte-beuve keeps a board of pull requests that wait for a review. It assigns reviewers, chases them over chat,
delegates a review to an AI reviewer (cat-factory), and approves what an org's risk policy lets through. It runs as a
Node server, as a Cloudflare Worker or locally, over a durable store, and is driven by people, by webhooks and by a clock
that comes round every minute. A deployment may have several replicas, so every `await` of every handler is a point where
other handlers run, and every process can die there.

The modules here model the parts of the code in which that matters, with the code as the reference: an action is one
stretch of a handler between two awaits that matter, its guard comes from the code's conditions and its effects from the
code's writes. `PROJECT.json` maps every definition to the lines it stands for. Paths below are relative to
`src/backend/packages/` unless they start with `docs/`.

Contents: 1 inventory · 2 modules and plan · 3 the modules against the code · 4 runs and bounds · 5 fairness · 6 proofs ·
7 where code and comments disagree · 8 what the code does not keep · 9 what is not modelled.

## 1. Inventory

| Component | State it keeps | Operations | Talks to | Hard part | What makes it correct |
|---|---|---|---|---|---|
| AI review admission and filing (`reviewers/src/aiAdmission.ts`, `server/src/modules/reviews/{admission,filing,orphans}.ts`, `AiReviewService.request`) | one row per AI review: status, task, times | request, confirm, file, record, write off an orphan | cat-factory (two calls), the sweep | read-then-insert, a lost answer, a process that dies between row and call | one run in flight, the hourly limit, no filed run written off, no review blocked for good |
| AI review polling, park, curation (`AiReviewService.poll`, `park.ts`, `reconcile.ts`, `AiReviewCurationService.ts`) | the row's status, curation, `parkedAt`, challenges made | poll, re-plan, undo a stamp; dismiss, challenge, resolve, resume | cat-factory, the reminder ladder | polls overlap and answer out of order; a re-plan fails behind its stamp | a park is announced once, no newer picture is overwritten, a settled row stays settled |
| Reminder ladder (`server/src/reminders/*`) | reminder rows with a status and a claim | tick, claim, deliver, recover, re-plan, snooze | chat, the board, polls | two clocks, a claim whose owner died, cancel-then-create by everybody | no nudge posted twice, a ladder never ends early, a verdict silences it |
| Reminder policy (`reminders/src/policy.ts`) | none | plan the next nudge, snooze | the ladder | one row stands for three rungs, across hand-overs, parks and pauses | no rung is silenced, the audience fits |
| Risk assessment and approval (`server/src/modules/risk/*`, `risk/src/approval.ts`) | one row per pull request with a revision | start, drive, score, judge, approve, withdraw, request | the host, AI reviews, the board row | compare-and-set against restarts, an approval that is already on the host | an approval is of the code that was scored, none of an older head stays |
| Risk scoring and policy (`risk/src/*`, `scoring.ts`) | org policy | score, rate, match | host files, a model | thresholds | the verdict is a function of policy and files |
| Tracked automation, webhook intake (`TrackedAutomationService.ts`, `modules/webhooks`) | none | map an event to board operations | board, assessment, AI reviews | redelivery | one row per pull request |
| Review board (`modules/reviews/ReviewService.ts`) | review rows, each reviewer's load | track, assign, reroll, hand over, status | ladder, host mirror | a load moved beside whole-row writes | a load is the number of open reviews held |
| Host review requests (`integrations/reviewRequests.ts`) | which promise holds a request | mirror an assignment, claim, release | hosts, board, asks | board and promise rely on one request; a release meets it on its way | the host waits on exactly those named |
| Attention asks (`modules/attention`, `reviewers/src/attention*.ts`) | the ask, commitments, where its messages are | raise, promise, decline, ask on, withdraw | chat, board | answers that land together, a message recorded after the ask closed | closed by its last commitment, nobody asked twice, no live button when over |
| Realtime stream (`server/src/realtime`, the Worker's hub, `useAttentionStream.ts`) | subscriptions; a page's list and ledger | publish, subscribe, send, fetch, merge | asks, the page | events overtake each other and fetches; subscriptions die silently | the page ends up with what the store holds |
| People and enrolment (`modules/identity`, `reviewers/src/enrolment.ts`) | directory rows, claims of accounts | resolve, adopt, enrol, link, rename | sign-in, every request | three first requests of one page load, two reads of the links, a claim before its row, names that move | one person per account, an org keeps an admin |
| Reviewer selection (`reviewers/src`) | none | rank and draw | board | weights | nobody ineligible is drawn |
| Merging from the board (`modules/myPullRequests`) | none | merge, post a merge comment, resolve conflicts | hosts, cat-factory | what was read of the pull request is old when it is merged | the head merged is the head that was seen |
| Review pages (`modules/{myReviews,toReview,workspace,assessments}`) | personal lists, searches | read, decline a request | hosts, attention | the host half done and the asks not | a declined request stays declined |
| Repositories and directory sync (`modules/projects`) | claims of repositories, cursors | register, follow | cat-factory, hosts | claims between orgs, a cursor that skips | one holder per repository |
| Sign-in, sessions, keys (`modules/auth`, `crypto`) | sessions, OAuth state | sign in, refresh, revoke, pause | hosts | a sign-in in flight when sessions are revoked | a revoked person has no session |
| Orgs, teams, settings, connections (`modules/{orgs,teams,settings,connections}`) | single rows | read, write | hosts, Slack | none between rows | – |
| Adapters (`integrations/src`, `ai-review/src`) | none | calls out | GitHub, GitLab, Slack, cat-factory | deadlines, lost answers | errors keep their meaning |
| Stores (`persistence-*`) | all rows | claim, replace, put, update | – | read-modify-write against one statement | conditional writes are conditional |
| Guided review, reporting, runtimes, contracts, kernel, frontend | – | – | – | – | – |

The components meet in four places: the **board row** (a verdict, an approval, a reassessment and an assignment all
write it), the **reminder ladder** (re-planned by status changes, sends, snoozes and parks), the **AI review row** (filed
by people and by the risk assessment, polled by reads, the clock and the curation verbs), and the **request on the host**
(put there for an assignment of the board and for a promise made to an ask).

## 2. Modules and plan

| # | Module | State of it |
|---|---|---|
| 1 | `AiReviewAdmission`, `AiReviewAdmissionProofs` | checked; types, both admission rules and the sweep's safety proved |
| 2 | `ReminderLadder` with the abstract `NudgeLadder`, `ReminderProofs` | checked; every safety property proved, and that the clocks implement `NudgeLadder` |
| 3 | `RiskApproval`, `RiskApprovalProofs` | checked; every safety property proved, the withdrawals where the run's switches say |
| 4 | `AiReviewPark`, `AiReviewParkProofs` | checked; every safety property proved |
| 5 | `ReminderCadence`, `ReminderProofs`: which nudge, when and to whom | checked; both properties proved |
| 6 | `AttentionAsk`, `AttentionAskProofs`: one ask, its answers, its messages | checked; every property proved |
| 7 | `AttentionStream`, `AttentionStreamProofs`: the inbox of an open page | checked; both safety properties proved |
| 8 | `ReviewBoard`, `ReviewBoardProofs`: assignments, loads, promises, host requests | checked; all three properties proved |
| 9 | `PeopleDirectory`, `PeopleDirectoryProofs`: the person behind an account | checked; every safety property of the passing run proved; one disagreement with a comment |
| 10 | `AiReviewCuration`: which findings may be challenged, and the budget counted beside dismissals | planned |
| 11 | `ReviewTracking`: how a pull request comes on the board, by two deliveries at once | planned |
| 12 | `BoardMerge`, and declining a host's request as a step of `AttentionAsk` | planned |
| 13 | `Sessions`: a sign-in beside a revocation and a pause | planned |
| 14 | scores, ratings and the draw of a reviewer as pure operators against reference definitions | planned |

Each module that has behaviour comes with an `MC` module, which names the small instances its configurations use.

Every safety property of the runs that pass is proved, under the hypotheses of section 6. Further abstract specifications
worth stating: *one slot* (a review has a place that at most one filed run holds), implemented by `AiReviewAdmission`;
*register with compare-and-set* (a writer that lost writes nothing), implemented by `RiskApproval`.

The modules that are proved about use no `RECURSIVE` operator; parameters are constants with named assumptions, and
invariants are conjunctions of named parts.

## 3. The modules against the code

**`AiReviewAdmission`** — one review, a set of `Requests`. A request is admitted (`admitAiReview`), inserts its row, reads
the others again (`confirmAiReviewAdmission`) and either gives way or makes the two calls to cat-factory, each of which
may be answered, refused, or take effect with its answer lost; then it records the task or the failure. It may die
anywhere. The sweep re-reads a row past the filing timeout (`SweepRead`) and writes it off in a step of its own
(`SweepWrite`); polls write what cat-factory reports, possibly out of date. `age` is `now - requestedAt`, cut off at an
hour since no rule tells larger ages apart.

**`ReminderLadder`** — one review, the ids its reminder rows get, `Clocks` and `Handlers`. A pass recovers stranded
claims, lists what is due, claims row by row with one conditional statement, reads the review, posts, marks and
re-plans; every one of those is an action. A re-plan is five: read the review again (polls only), read the ladder,
read the scheduled rows, write them cancelled, create the next. `home` is where an actor goes on afterwards. Handlers
resolve, reopen, snooze, or find a park. The policy is a number of nudges.

**`RiskApproval`** — one pull request on one of two hosts, its assessment row with a revision, `Drivers` (deferred steps
and clock ticks) and `Intakes` (deliveries of new commits, requests for another assessment). A driver claims its row,
reads the pull request, scores it, and takes the next step; every write is `Save`, a check and set on the revision it
holds. An approval is posted to the host before its row is written, so a refused write retracts it. An intake withdraws
what the row records as approved, reopens the board row and puts a fresh assessment. GitHub gives approvals ids and
accepts an approval of an older commit; GitLab keeps one approval per account and refuses an older commit itself. What a
score says is a choice. `lost` holds the approvals nobody answers for any more: the host was not reached to take one back,
or its driver died before it wrote the row. A step may fail at its first read (`StepFails`, counted), or throw behind the
score, where `failed` writes against a revision `score` has replaced (`StepFailsScored`, counted nowhere).

**`AiReviewPark`** — the AI reviews of one review, `Pollers` (a read of the board, a pass of the clock), and a curator
who acts in cat-factory. A poll asks cat-factory (`GetStatus`), reads the row (`ReadRow`), writes it (`WriteRow`);
when the polls of one read have landed there is one re-plan if any of them moved a park (`ReadLadder`, `Rewrite`), and
if that fails the stamps go back one by one (`Unstamp`). `parkedAt` is abstracted to the one comparison the ladder
makes: later than the last nudge about a park (`news`), or not (`announced`). The curation verbs that re-read the run
are polls; a dismissal (`DismissFinding`, `WriteDismissed`) takes the place of one, and its answer becomes the row's
curation whatever the row holds by then. `shown` records that such an answer was the first to tell of the park.

**`NudgeLadder`** and **`ReminderCadence`** — the first is what the clocks promise about one review nobody else
touches: one nudge after another, as if one sender worked it. `ReminderLadder` maps its rows to it
(`LadderIsSequential`): a scheduled row is planned, a claimed one is in hand (`Hand`, `HandPosted`), and a recovered
claim is an `Abandon`, whose nudge may or may not have gone out. The second is the policy itself: every rung with its
wait, its budget and its audience, the cadence by priority, the park, and the snooze that goes around it. There a send
or a change of the review is one step, because the interleavings are `ReminderLadder`'s, and `ReminderLadder` in turn
sees the policy as a number of nudges.

**`AttentionAsk`** — one ask and the people it may reach. A handler reads the ask, and its change then runs again on
the row as it is stored (`kernel/src/domain/revisions.ts:35`), so what was read and what is changed are kept apart; a
change may lose its race too often and fail. A commitment writes the promise first and the ask after it. After a
change its handler updates the messages there are, tells the requester that the ask is short, posts to whoever was
added, and records where the new messages are; a message recorded on an ask that has moved on is brought up to date.
`dm` is which of its three forms a message shows. Slack may refuse a post or an update of a posted message, or not be
resolved at all (`askDeliveries.ts:54-81`, `:110-133`), and a handler may die with messages still to send (`Die`):
`missed` are those whose last update never came, which nobody makes again.

**`AttentionStream`** — the store, writers that publish after they have written, a wire without order, the hub, the page's
subscription, and the page: its event source, its fetches in flight, the queue of what arrived during one, and the ledger
by which it tells an older row from a newer. Either bus is the same hub here. A publish may be lost
(`DurableObjectAttentionBus.ts:49-60`, or a bus in another process, `InMemoryAttentionBus.ts:8-13`, or a handler that dies
before it); a stamp is taken before its row is written, and may be out of turn; the source may open before or after the
first fetch is answered; fetches overlap and take each other's queue away; the ledger forgets (`attentionOrder.ts:72-74`).
Three histories that nothing of the page reads say what it cannot know: `missed`, the newest version of an ask whose event
went astray; `doubt`, the asks of which one did and no fetch since made up for it (`Covers`, with `lost`, what a fetch's
queue does not hold); `unordered`, the asks whose stamps or ledger entry do not order them.

**`ReviewBoard`** — several reviews and reviewers. Assign, reroll, hand-over, status, promise and release are handlers
that read the review, write it whole, move the load of those who came and went, and call the host once for each
request that is new or no longer relied on. A promise's request is claimed before the call and given back if the host
was not reached (`requested`). `unasked` and `leftOver` record the calls the host did not get. Nothing keeps two gestures
on one review apart: `crossed` records the reviews on which they overlapped, and `drifted` the people on a row written
out of step with its load (`OutOfStep`): over another row than was read, ahead of the moves of an earlier write, or to put
somebody on a review that has its verdict.

**`PeopleDirectory`** — accounts with the names they have at the moment, directory rows, and `link`, the claim of an
account by a person. A request finds its person (`Resolve`), or reads the directory, finds a row to take, asks whether
an admin has signed in, decides (`decideEnrolment`), claims, and writes; an account of a second host and a name that
moved go the same way. A request may die, and an account take another name, between any two steps. `crossed` records
that a request found linked, in its second read of the links (`PeopleService.ts:199`), the row it had read unlinked in
its first (`:177`); `moved` the accounts that took another name with a request on its way to its claim; `stranded`
those a request of which died between its claim and its row. `adoptable` awaits the links of each candidate in turn
and `Match` reads them at once: no link is ever taken back, so whoever was passed over is still linked at the last
read. An org that is not empty was founded by somebody (`OrgService.seatFounder`), so the registered rows the model
starts from hold an admin, and no two of them one name.

## 4. Runs and bounds

| Run | Question | Instance |
|---|---|---|
| `AiReviewAdmission_all` | Do both admission rules hold at every moment, does nobody settle a run that cat-factory still works on, and does every blocked review come free? | 3 requests, limit 2, timeout 1, hour 2; crashes and lost answers anywhere |
| `ReminderLadder_clocks` | Are two clocks one sequential ladder that ends only where the policy does? | 2 clocks, 4 rows, 2 nudges, 1 death with a claim in hand |
| `ReminderLadder_everyone` | Is any row ever posted twice? | 2 clocks, 1 handler with every gesture, 3 rows, sends that outlive the lease, a death anywhere, also in mid re-plan |
| `ReminderCadence_heard` | Is every rung heard in time, by whoever holds the review? | 2 reviewers, times to 6, 4 gestures, every priority, deadline and pause |
| `RiskApproval_withdrawn` | Does a push take the old head's approval down, does a retraction spare the recorded one, and does an assessment leave the states in flight? | 2 drivers, 1 push, both hosts, 2 attempts, 2 approvals, failing reads, steps and calls, and 1 crash |
| `RiskApproval_anything` | Is what is approved what was scored, and is a restarted row never given an older verdict? | 2 drivers past their lease, 1 intake, 1 AI review, 1 push, 1 request, refused and lost calls |
| `AiReviewPark_parks` | Is a park announced, once, and does no slower answer undo a newer one? | 1 run, 2 pollers or dismissals at once, 1 posting pass, 1 challenge, 1 failed re-plan |
| `AttentionAsk_answers` | Does an ask close with its last commitment, ask nobody twice, keep asking while it is short, and leave no live button behind? | 3 people, 2 handlers, 4 clicks, critical masses 1 and 2, refused posts and updates, changes that lose their race, handlers that die |
| `AttentionStream_live` | Does the page end up with what the store holds of what reached it, whatever overtakes what, and does a reconnect make up for the rest? | 1 ask, 2 writers, 2 fetches, 2 writes with 2 stamps, 2 faults (lost connections, failed fetches, reloads, evictions), any lost publishes |
| `ReviewBoard_kept` | Is a load the number of open reviews held, and does the host wait on exactly those named? | 2 reviews, 2 reviewers, 2 handlers on one review or on two, 4 gestures, 1 call the host does not get |
| `PeopleDirectory_joined` | Does one person come of an account, and does the org keep an admin? | 3 accounts on 2 hosts, 3 names, 2 requests at a time, 4 requests, renames and deaths together, 1 registered person |
| `PeopleDirectory_coded` | The org's admin, unqualified. *Violated* by a founder's own two requests | the same with 2 names and 3 gestures |

*Why the bounds suffice.* Every rule of admission compares a request with one other or counts to the limit; three
requests are one more than the limit of two, and an hour of two ticks lets one run leave the hourly count while
another is in flight. The ladder's races are between two clocks over one row, or a clock and one gesture; two nudges
show the hand-over from one rung to the next. The cadence compares three rungs with a pause: four gestures make a
park, a hand-over, a snooze and a verdict in any order. An approval race needs two drivers and one push between them.
A poll race needs two polls, one posting pass tells a first park from a second, and one failure is what `unstamp`
handles. A critical mass of two is the first two answers can complete together, and a third person is whom the next
asking reaches. Two writes and two stamps let an ask be raised and closed with either event first, the stamps equal or
out of turn; two faults let a connection be lost and a fetch fail or a reload overtake it. Asks do not meet on the
page except in its list. The board's two records meet in one reviewer and one review; the second of each shows what
leaks from one to the other. A person needs two overlapping requests, a second host, and one name that passes to
somebody else; the third account is that somebody. Four gestures are two overlapping requests of one account with a
third behind them, or with a rename or a death between.

*Constants that leave something out* are switches, and section 8 says what they hide: `PromptFiling`, `PromptSends`,
`CrashMidPlan`, `PromptSteps`, `IntakesAlone`, `Failures`, `Apart`, `StampsBack`. `AdvanceThrows` is on in
`RiskApproval_withdrawn`, and `ChatFails` and `StoreFails` in `AttentionAsk_answers`: they leave nothing out there.
`AttentionStream`, `ReviewBoard` and `PeopleDirectory` have no switches; what the code does not keep for everybody is
stated of those whom the histories of section 3 do not name, and section 8 shows each exemption needed.

*One assumption about time* is a guard and not a switch: that of `Send` in `AiReviewPark`. A nudge is due a quarter of
an hour after its park, the clock comes round every minute, and a poll takes seconds, so the nudge is taken to find no
poll half done and no answer out of date. Section 8 says what comes of it otherwise.

*Symmetry* is used in runs without liveness only, over actors, people or names that no definition tells apart.
*`VIEW`* is used in `RiskApproval_anything` and `PeopleDirectory_joined`: it drops what an actor has read and, at the
place it stands, can no longer use, and in the first keeps of a revision only whether it is the row's. *Deadlock* is
checked in `AiReviewAdmission_all` and `ReminderLadder_clocks`. It is off where the system may stop: a pull request
that is approved and gets no more pushes, a run that is over, an ask that is closed, a page nobody writes to, or
actors that have made their bounded number of gestures. The type invariants of `AttentionAsk`, `AttentionStream`,
`ReviewBoard` and `PeopleDirectory` are stated in their modules and left out of the runs, which ask about what could
go wrong.

## 5. Fairness

* *A request that has written its row ends, the clock ticks, and a tick walks the rows in flight* (weak fairness). The
  calls have a deadline (`kernel/src/upstream.ts:29`), and the sweep is called every minute for every org. Nothing makes
  anybody ask, and cat-factory need not answer.
* *A clock finishes its pass and starts another; a scheduled row falls due; a lease runs out* (weak fairness). No gesture
  is fair. With `MaxCrashes` bounded, some clock keeps running: a deployment with none sends nothing.
* *A row in flight is driven*, by its deferred step or by `sweepInFlight`; a step or an intake that is alive ends; a filed
  AI review ends (it has a ceiling of its own in `AiReviewAdmission`). Nobody has to push. No fairness keeps a step from
  throwing behind its score each time it is tried; `Settles` says that this is the one way an assessment stays in flight.
* *A poll or a dismissal ends; every run in flight is polled again and again, and cat-factory answers about it
  infinitely often; a nudge that stays planned goes out* (strong fairness, since another poll disables a poller's next
  step for a moment and a refusal is always possible: `listInFlight` is least-recently-polled first, so no run starves).
  The curator is free.
* *A page that is open reads its events, reconnects and fetches; a handler that has written ends; the hub sends what
  reaches it; a lost subscription ends its response* (weak fairness of `AttentionStream`). A handler ends whether its
  publish got through or not: publishing is best effort, nobody retries it, and `PageConverges` promises nothing of an
  ask whose event was lost until the page fetches again. Nobody has to write, and no connection has to be lost.

The runs of `AttentionAsk`, `ReviewBoard`, `ReminderCadence` and `PeopleDirectory` are about safety only: their handlers
are started by people, and each is a finite sequence of steps.

Liveness stays with the model checker.

## 6. Proofs

Eight modules hold theorems: one beside each module with behaviour, and `ReminderProofs` beside both modules of
reminders. A theorem is about every value of the constants: any number of requests, clocks, drivers, people, runs,
asks and fetches, every limit, wait and pause, and every bound on the gestures. A hypothesis is a switch of section 8,
turned the way the runs turn it; *none* means none but the assumptions on the constants.

| Module | Theorem | Property | Hypotheses |
|---|---|---|---|
| `AiReviewAdmissionProofs` | `TypeCorrect` | `TypeOK` | none |
| | `AtMostOneInFlight` | `OneInFlight`: of the requests past their second read, one at most is in flight | `PromptFiling` |
| | `AtMostLimitFiled` | `FiledWithinLimit`: the hourly limit at every moment, not only at an admission | `PromptFiling` |
| | `NoFiledRunWrittenOff` | `FiledNotWrittenOff`: only cat-factory's report settles a filed run | `PromptFiling` |
| `ReminderProofs` | `TypeCorrect` | `TypeOK` | none |
| | `NeverPostedTwice` | `PostedOnce`: gestures, deaths and expired leases included | none |
| | `LadderNeverDropped` | `LadderHeld` | `Alone` |
| | `ClocksAreOneLadder` | `LadderIsSequential`: the clocks implement `NudgeLadder` | `Alone` |
| | `EveryRungHeard`, `NudgeReachesTheHolder` | `NoRungSilenced`, `AudienceFits` | none |
| `RiskApprovalProofs` | `TypeCorrect` | `TypeOK` | none |
| | `OnlyAssessedApproved` | `ApprovedAsAssessed` | none |
| | `NoStaleVerdict` | `VerdictNotStale` | none |
| | `RecordedStands` | `RecordedApprovalStands` | none |
| | `OldHeadTakenDown` | `OldHeadWithdrawn` | `Answerable` |
| `AiReviewParkProofs` | `TypeCorrect` | `TypeOK` | none |
| | `RowsOnlyGrow`, `SettledStaysSettled` | `CurationKept`, `SettledForGood`: what a step may never do | `~Apart` |
| | `ToldOncePerPark` | `AnnouncedOnce` | `~Apart` |
| | `NewsAlwaysPlanned` | `NewsPlanned` | `~Apart`, `~StampsBack`, one run or no failed re-plan |
| `AttentionAskProofs` | `TypeCorrect` | `TypeOK` | none |
| | `ResolvedByTheLast`, `NobodyAskedTwice`, `NoStaleButtons`, `NeverStopsShort`, `AnswersAreFinal` | `SatisfiedIsClosed`, `AskedOnce`, `NoButtonsWhenOver` (all but `missed`), `KeepsAsking`, `AnswersStand` | none |
| `AttentionStreamProofs` | `ClosedStays` | `ClosedStaysOff` (all but `unordered`): what a step may never do | none |
| | `SettledShows` | `SettledShowsStore` (all but `doubt` and `unordered`) | none |
| `ReviewBoardProofs` | `PromisesReachTheHost`, `RequestsAreBacked` | `PromiseKeepsRequest`, `NoStrayRequest` (all but `crossed`) | none |
| | `LoadIsWhatIsHeld` | `LoadIsHeld` (all but `drifted`) | none |
| `PeopleDirectoryProofs` | `TypeCorrect` | `TypeOK` | none |
| | `OnePersonForAnAccount` | `OnePersonEach` (a row for all but `stranded`) | none |
| | `NameNeverInherited` | `OneAccountPerHost` (all but `moved`) | none |
| | `OrgNeverWithoutAdmin` | `OrgKeepsAdmin` (unless `crossed` or `moved`) | none |

The properties of the last four modules name in parentheses the history whose members they exempt (section 3). Each
exemption is what the code does not keep and no more: section 8 has the counterexample without it, and the theorem
says that the property fails in no other way.

`BoardIsTyped` gives `ReviewBoard` its types, which no run asks about, and `LedgerSound` says of the page's ledger that it
never knows of anything newer than the rows.

### Assumptions

The constants' assumptions are named in the modules: sets of actors are finite where the model counts them, bounds are
natural numbers, one kind of actor is not another, no fetch is `None`. Four say something of the code.
`RankedAssumption`: a ranking names nobody twice. `HostsOfAccounts`: an account is on one host. `DeadlinesAreTimes`: a
deadline is a time, or there is none. `RunsAreSome`: `AiReviewPark` is about a review that was delegated.

The hypotheses, and why each may be made or has to be:

* `PromptFiling`: a request ends within the filing timeout. `reviewers/src/aiAdmission.ts:41-42` says the timeout
  "only has to outlast the one call that moves a run out of `requested`", whose deadline is 20 s against five minutes.
* `Alone` (`Handlers = {}`, `PromptSends`, `~CrashMidPlan`): a review nobody touches, deliveries that end within the
  lease, and no death in the middle of a re-plan. The code promises the sequential ladder of nothing else: gestures
  re-plan by design, and a death between mark and plan is a gap its own plan of work names. `NeverPostedTwice` needs
  none of it.
* `Answerable`: `IntakesAlone`, `MaxRequests = 0`, and either one driver is alive at a time (`SoleDriver`) or there is one
  push and no step outlives its lease (`OnePush`, which are the constants of the run). Section 8 has a counterexample to
  the property without each: new commits whose steps others come between, an approved row assessed again, and two drivers
  that approve one head, after which a push takes one approval down. What is proved is that there is no other way, with
  any number of pushes behind one driver, or of drivers behind one push, with AI reviews, failures and deaths.
* `~Apart`: a row is read and written with nothing in between. The code narrows that gap
  (`AiReviewService.ts:310-324`) and does not close it; what is proved is that the gap is the *only* thing that can
  lose a newer picture or unsettle a row, in whatever order the answers land.
* `~StampsBack`, and one run or no failed re-plan: section 8 has the counterexample to each. They limit what a failed
  re-plan may have to put back, and whose nudge it may have cancelled.

### The arguments

No property of the table is inductive by itself. Each proof names the invariant it strengthens it to, the parts of which
say what an actor that stands between two of its steps may still count on. TLC checked each of those invariants on
small instances before it was proved.

*Admission.* `IInv` adds `Sound`: a request that owns its row has it `requested`, taskless, younger than the timeout
and out of every sweep's hands; a row with a task belongs to a request that has ended. A row then comes into flight by
`Insert` only (`FlightStep`), and a request reaches cat-factory by a `Confirm` that found no other row in flight
(`ReachedStep`). If two held the place, the later `Confirm` would have seen the earlier one's row. `RoomForFiling`
keeps the count read by `Confirm` good until `Record`, since by `OneInFlight` nobody else records meanwhile
(`LimitStep`).

*Ladder.* `ClaimsInv`: a row leaves `scheduled` once and for good, so the clock that made it leave is the only one
that holds it, and until it posts nobody has. A lease that runs out does not return the row to `scheduled`; that is
why no hypothesis is needed. `LadderInv` adds, for clocks by themselves, that one thing carries the ladder on: a row
in hand, or one clock that plans with nothing in hand (`OneInHand`, `OnePlanner`, `PlansInTurn`), and that what a
planner has read is still so (`AtWork`). Under it every step maps to a step of `NudgeLadder` or to a stutter, by one
lemma per action: a claim takes the nudge in hand, a mark ends it, a recovered claim is its `Abandon`, and the
statements of a re-plan stutter but for the last.

*Approval.* `AssessedInv`: the files of any copy of the row, stored, held or about to be written, were read no earlier
than its head, and a driver about to post holds a row whose two heads are equal. `FreshInv`: a driver whose revision
is the row's read the row after the last start, so what it is about to write is about a head no older than that start
announced. A check and set refuses everybody else. A revision is new to all that are held (`RevisionIsNew`), which is
where the actors' finiteness is used. `RecordsInv`: a row carries an approval's id if and only if it says `approved`;
the id a driver has given and not recorded is on no row, in no other driver's hands and in no intake's
(`OwnApprovals`), so taking it back costs nobody else's approval; and a row whose approval is gone is in the hands of
the intake that withdrew it and has yet to write so. It needs no switch: the counterexamples to `OldHeadWithdrawn`
leave an approval too many, never one too few. `WithdrawnInv` is about those: each that stands, and is not lost, is on
the row (`OnRow`), in the hands of a driver that has yet to record it or take it back (`InHands`), or of a head no
push follows (`OfLastHead`); an approved row is about the head there is, or an intake is under way; and an intake that
has read the row handles it as it stands. A driver leaves an approval behind for one reason, that the row records
another of the same head: a driver by itself finds none there (`Sole`), and with one push only one of the new head
(`Pushed`, with `FreshInv`).

*Park.* `PicturesInv`: every curation in the system, of a row or an answer under way, is an earlier picture of one that
only grows in `NoLater`, and any two of them that can meet are comparable. So a report that does not give way to
the row is not behind it (`NotBehind`): `supersedes` is enough, though it compares two fields only.
`HandsInv`: one poller at most is between its read and its write, and its patch is what the row it read still asks
for. `ToldInv`: a park somebody was told about is announced on its row, with the very curation cat-factory has, and every
answer still under way shows it so; hence no poll finds an edge. `PlannedInv`: a park with news has a nudge, or is
in the hands of a poller that has yet to re-plan or to put its stamp back.

*Cadence.* `CadenceInv` adds to the property that the row is a rung of the policy, for whoever holds the review, and that
no pause in force outlasts the one somebody asked for. The lemmas say what each function of the policy returns: a rung
with a time of its own (`Rung`), an earliest one among candidates, and one the pause does not bring forward.

*Asks.* `AskInv`: a handler about to commit has its promise written, one about to decline holds the whole ranking, and
an ask that is open is short of its critical mass. `AskedInv`: whoever is about to be posted the ask is a recipient,
was not posted it, and is in no other handler's hands; so two handlers that read the same shortage ask different
people, because the change runs again on the stored row. `DeliveriesInv`: a message that offers its buttons too long
is one some handler has still to update, to a form that has none, or one whose update Slack refused or a dead handler
left (`missed`). `NeverStopsShort` counts places in a sequence: the people added are the first of the ranking not
asked yet, as many as are short or as there is room for (`Places`).

*Stream.* `CopiesInv`: whatever is on its way to the page, on the wire, in the pipe, in an answer or in a queue, is a
copy of an ask's row: the row, or an earlier version of it (`Before`), and nothing comes after a closing one.
`LedgerInv`: the ledger knows of nothing newer than the row, and has an ask as closed only if the closing version did
that; so no late answer or event can list it again. Both speak of the asks whose rows were stamped in turn.
`ShownInv`: the newest version of each such ask is under way, was heard, or is the one that went astray last
(`Accounted`). An answered fetch found the row as it is, or its event is to come, is in the queue, or is known to be
missing from it (`WillShow`, with `lost`); and when no fetch holds the queue the page shows the row or hears of it
yet, unless `doubt` names the ask (`Showing`). So a live page with nothing on its way to it shows the row. What a
queue leaves when it is applied is shown by the least length at which it could go wrong (`Climbs`, `ApplyAllKeeps`):
the theorems of induction cannot be used, but that a set of natural numbers has a least element can.

*Board.* `RequestsInv` says for every place between two statements what a handler owes the host: a request for those
it assigned or who promised, a withdrawal for those it released. Whoever it owes nothing has the three records in
agreement. It is about the reviews that are not `crossed`, at which one handler is at most (`OneEach`); a step of a
handler leaves the other reviews alone (`AloneKeeps`). `LoadInv` balances a reviewer's load, the moves on their way,
and the reviews held, as cardinalities, for everybody who is not `drifted`: a row written in step is written over what
was read and with no moves of its review pending, so no two handlers bring one person up for one review (`UpOnce`),
and the floor at zero (`Math.max`) is never reached.

*People.* `DirectoryInv`: what a request holds is what the stores say, and an id it has drawn is nobody else's.
`PromisedInv`: a claimed account has its row, or a request that is still to write it, or was left by one that died
there (`stranded`). `HandlesInv`: until somebody has signed in from a host, the handle of that host on a row is what
every copy of the row says, and a request about to take the row bears that very name; two of them bear one name
(`Alike`), and two accounts that never changed theirs in mid request cannot, so a name that moves finds no row to
inherit (`Taking`). `OrgInv`: a request found its own row linked (`crossed`), or a name moved in mid request, or the
org is being founded, or nobody has claimed its admin yet, or there is an admin who is linked and whom no request is
about to write down as a member (`SafeAdmin`). It rests on `ChoiceInv`: a request that found no row to take was right,
and still is.

### Only model-checked

* All liveness: `NeverBlockedForGood`, `OrphansWrittenOff`, `ChasedToTheEnd`, `Settles`, `ParkAnnounced`,
  `PageConverges`. The proof system has no rules for fairness or `ENABLED`.
* Types of `AttentionStream` within its run's bounds; the proofs have types of their own (`StreamTyped`), without bounds.
* `OrgHasAdmin` without the two exemptions of `OrgKeepsAdmin` is refuted, not proved (sections 7 and 8).

## 7. Where code and comments disagree

One run ends in a counterexample; it is listed in `PROJECT.json` with the sentence it contradicts.

* **A founder may be demoted by their own first page load** (`PeopleDirectory_coded`,
  `server/src/modules/identity/PeopleService.ts:199`). Of two first requests that overlap, the second reads the founder's
  row unlinked, the first links it, and the second then asks whether any admin has signed in: its own row says yes. It is
  decided `member`, its claim is answered with its own row, and `adopt` writes the role. The comment at
  `PeopleService.ts:248-251` says both racers reach one decision, having "asked about one account against one directory".
  Two first sign-ins of one person on two hosts end the same way. No route makes an admin afterwards.

Other sentences of the code that a schedule contradicts are in section 8, each with its line.

## 8. What the code does not keep

Some passing runs hold under constants that keep some schedules out, and some properties exempt what a history names.
With the constant turned the other way, the exemption dropped, or a property asked for that the code does not keep,
TLC finds each of these counterexamples. No passing run hides one without its switch or its exemption being named
here.

| Run, change to its cfg | Property | What happens |
|---|---|---|
| `AiReviewAdmission_all`, `PromptFiling = FALSE` | `FiledNotWrittenOff` | A sweep re-reads the row, the request records its task, the sweep writes `failed` over it. `orphans.ts:31-32` expects the request's update to land last. |
| `AiReviewAdmission_all` | `OneBilledJob` | An answer lost behind a started task fails the row; the next request starts a second billed run. Any refusal reads like this, by decision. |
| `ReminderLadder_everyone`, 5 rows, `PromptSends = TRUE`, `CrashMidPlan = FALSE` | `SingleRow` | A pass and a handler both cancel before either creates: two scheduled rows (`schedule.ts:14-15`). |
| the same, 1 clock, verdicts only, 2 nudges, no crash | `ResolvedIsQuiet` | `markSent` re-plans with the review as it was read before the chat call (`reminders/tick.ts:346`). A verdict in between cancels the schedule, and the re-plan makes a nudge for a resolved review. |
| `RiskApproval_withdrawn`, `IntakesAlone = FALSE` | `OldHeadWithdrawn` | New commits read the row as in flight, the step records its approval, and `start` puts a fresh row over it unconditionally. |
| `RiskApproval_withdrawn`, `MaxHeads = 3`, `MaxApprovals = 4` | `OldHeadWithdrawn` | Two drivers approve one head; the one that lost leaves its approval because the row records another at the same head, and the next push dismisses only the recorded one. |
| `RiskApproval_withdrawn`, `PromptSteps = FALSE` | `OldHeadWithdrawn` | A step that outlives its lease runs beside the one that took over; both approve one head, as above, and one push is enough. |
| `RiskApproval_withdrawn`, 1 driver, `MaxRequests = 1` | `OldHeadWithdrawn` | Another assessment starts a fresh row over an approved one (`RiskAssessmentService.ts:125`); the approval's id is gone, and new commits withdraw nothing. |
| `RiskApproval_withdrawn`, `RequireAiReview = TRUE`, `MaxRuns = 1` | `ReviewedAsApproved` | An AI review filed before a push is adopted by the assessment of the head after it (`advance.ts:111-112`). |
| `RiskApproval_withdrawn` | `BoardBackOnClock` | New commits arrive between the write of the approved row and that of the board row, which then says approved over an unassessed head. |
| `RiskApproval_withdrawn` | `Settles` without its first disjunct | A step that throws behind its score is tried for ever (`RiskAssessmentService.ts:188`): `score` has replaced the row (`:214-222`), `failed` writes against the revision that was claimed (`:292-302`), and no attempt is counted. `docs/risk-policy.md:155-156` has a step that fails tried three times. |
| `AiReviewPark_parks`, `Apart = TRUE` | `SettledForGood`, `CurationKept` | A poll reads the row, another settles it (or writes a newer curation), the first writes over it: the re-read of `AiReviewService.ts:324` and the update are two statements. |
| `AiReviewPark_parks` | `ReparkNudged` | A review parks again behind a challenge or a failed post that no poll saw; a dismissal's answer brings the news to the row without a stamp (`AiReviewCurationService.ts:40-44`), and the next poll finds nothing new (`park.ts:78-87`). The curator who dismissed has seen it, nobody else is nudged. |
| `AiReviewPark_parks`, 1 poller, `StampsBack = TRUE` | `NewsPlanned` | A run curated and parked again between two polls is stamped anew with its new `postAttempts`. The re-plan fails, the old stamp goes back over a row that already has those (`park.ts:175`), and no later poll finds an edge. |
| `AiReviewPark_parks`, 2 runs, 1 poller | `NewsPlanned` | One run's park is announced for later; another's poll re-plans, cancels that nudge, and fails before it creates the next. `unstamp` gives back the stamps of this poll's parks only (`park.ts:161-185`), so the first run keeps its stamp without a nudge. It heals only when a later poll of the second run finds its edge again. |
| `AiReviewPark_parks`, 1 poller, `StampsBack = TRUE` | `CuratedIsQuiet` | The re-plan behind the end of a park fails on a run that settled. It is never polled again, and the nudge stays scheduled. |
| `AiReviewPark_parks`, `Send` without its guard | `AnnouncedOnce`, `NewsPlanned` | A nudge goes out while a poll stands between its answer and its write: the answer, old by then, stamps the park again; or the nudge goes out between a poll's stamp and its re-plan. A poll would have to last a quarter of an hour. |
| `ReminderCadence_heard` | `SnoozeHolds` | A re-plan whose first rung comes due after the pause drops it (`policy.ts:311`); a later one, of a new park, say, finds a rung before the pause ends, and the nudge goes out. |
| `AttentionAsk_answers` | `ToldOncePerDecline` | Somebody declines twice at once, each click having read an ask that was not short yet: the requester is told twice (`askDeliveries.ts:139-141`). |
| `AttentionAsk_answers` | `NoButtonsWhenOver` of all deliveries, `missed` included | Slack refuses the update of a posted message, or no chat resolves (`askDeliveries.ts:116-132`), or the handler dies before it: the message keeps its buttons. |
| `AttentionStream_live` | `SettledShowsStore` of all asks but `unordered`, `doubt` included | A publish is lost (`DurableObjectAttentionBus.ts:53-60`; `InMemoryAttentionBus.ts:8-13` with several processes) and a page that is live stays stale until its next fetch. |
| the same | the same | The first fetch is answered, an ask is raised, and then the stream is subscribed: the first open does not fetch again (`useAttentionStream.ts:132`, and the comment at `:161-163`; `DurableObjectAttentionBus.ts:68-73` subscribes after the response has begun). |
| the same | the same | Two refreshes overlap; whichever ends first takes the other's queue away (`raced = null`, `useAttentionStream.ts:59-80`), and an event of the interval is lost under the older answer. |
| the same | the same | An event that was slow arrives on a page that missed the one after it, and no fetch follows. |
| the same | `SettledShowsStore` of all asks but `doubt`, `unordered` included | Two rows with stamps taken before their writes (`AttentionService.ts:114`) land the other way round, and the page keeps the later stamp. |
| the same | `ClosedStaysOff` of all asks | The same; or the ledger, which holds 500 (`attentionOrder.ts:40`, `:72-74`), forgets an ask that is over, and a late row puts it back. |
| `ReviewBoard_kept` | `LoadIsHeld` of everybody, `drifted` included | Somebody put on a review that has its verdict is counted as having it outstanding (`contracts/src/reviewers.ts:76`); two gestures on one review release its people twice, or lose an assignment with its load moved (`ReviewService.ts:276`, `:301`). |
| the same | `PromiseKeepsRequest`, `NoStrayRequest` of all reviews, `crossed` included | Somebody promises again while the release of their first promise is about to take its request back, which takes the second one's; a promise is released while its request is on its way, before it was claimed, and nobody takes it back. |
| `PeopleDirectory_joined` | `OnePersonEach` of all accounts, `stranded` included | A request dies between its claim and its row: every later request of that account is answered `No reviewer`, for good. |
| the same | `OneAccountPerHost` of all accounts, `moved` included | A request finds the row registered for its name; the account takes another name, and somebody else the old one, whose request finds the row unlinked too (`PeopleService.ts:169-182`). Both claim it (`:220`), each for its own account, and both are answered with one person. |
| the same | `OrgHasAdmin` unless `crossed`, `moved` included | A founder changes their name while a request is about to take their row; one under the new name finds no row and claims the account for a new person. The first, which lost, writes that person's row with its own role, `admin` (`PeopleService.ts:242-253`); the founder's account of the other host then takes the registered row, finds an admin signed in, and is capped; and the second request writes the new person's row again, as a `member`. |
| `PeopleDirectory_joined` | `NoneMissing` | A request that comes between another one's claim and its row is answered 404 (`PeopleService.ts:246-248`). |
| `PeopleDirectory_joined` | `AdminOnce` | Two founders sign in at once and both are admins, against `docs/orgs.md:211`; so does a lone one after a death between link and demotion. |

## 9. What is not modelled

* Stores that refuse writes in the ladder: a re-plan that throws inside a delivery's `try` marks a sent nudge `failed`
  (`reminders/tick.ts:303`). Crashes between the mark and the next plan are kept out of `LadderHeld`; the repository's
  `docs/implementation-plan.md` names that gap.
* A process that dies between a poll's stamp and its re-plan (`AiReviewService.ts:246`): nothing in the code looks for a
  stamp without a nudge.
* The challenge budget: `recordChallenged` (`AiReviewCurationService.ts:132`) writes the list of challenged findings
  whole, as it was read before the call. Planned, section 2. A dismissal of the very finding that is disputed, and
  resuming a stalled review, are left out of `AiReviewPark`.
* How a review comes to be tracked. `review_requests` has no unique index, and `track` and `trackAndAssign`
  (`ReviewService.ts:126-173`) read and then insert: two deliveries may leave two rows, and one that fails between the
  insert and the plan leaves a review without a ladder. `ReviewIntake.perform` reads the status it decides by before
  `updateStatus` reads it again. Planned as `ReviewTracking`; the webhook table itself maps an event to operations
  that are modelled.
* Merging from the board (`MergeService.ts:88` merges what it read a while ago) and declining a host's review request
  (`declineReviewRequest.ts:38`): planned.
* Sessions and pausing: a sign-in in flight issues a session after a revocation, and a whole-row update of a person may
  lose a pause. Planned.
* Directory sync, selection and ranking, scores and ratings: cursors and claims of one table, or pure functions whose
  weights no property here tells apart.
* Single-row reads and writes with no protocol (orgs, teams, settings, connections), cryptography, formatting, the
  adapters' requests, and the frontend but for the inbox: nothing interleaves there, or it is pure input and output.
* Many reviews at once in the ladder: no rule there reads another review's rows, except a pass's batch, whose reviews are
  independent lanes (`tick.ts:254`). `ReviewBoard` has two, since a reviewer's load is shared.
