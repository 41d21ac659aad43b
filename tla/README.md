# gitbay in TLA+

Models of gitbay, the TLC configurations that check them and TLAPS proofs about
them. Paths below are relative to the repository root (`src/` in `PROJECT.json`).

## The system

gitbayd is one process over one SQLite database and a tree of bare git
repositories. People and programs reach it through SSH, HTTP, git:// and the hooks'
socket; every command ends in a handler of the command registry
(`internal/control`). A handler is a plain function: it checks on rows it read, runs
git, writes rows, with no transaction around the whole. Handlers, post-receive work
and background workers interleave at every statement, and a restart cuts any of
them short. `gitbay-runner` is a separate program that polls over SSH.

| part | state it keeps | operations | what is hard | module |
|---|---|---|---|---|
| build queue (`store/builds.go`, `control/build.go`) | `builds`, `build_id_seq`, `commit_statuses` | queue, trigger, claim, log, report, cancel | report against cancel against reap; ids after a repository is deleted; a status written after its row | `Builds` |
| scheduler and reaper (`ci/sched.go`), runner (`cmd/gitbay-runner`) | schedules; the build in hand | queue due jobs, fail abandoned builds; poll, execute, report | lost replies, lost streams, deaths | `Builds` |
| merge requests and queue (`control/mr.go`, `mergequeue.go`) | `merge_requests`, `mr_reviews`, `mr_merge_queue` | review, draft, close, queue, merge | decisions on rows and refs read earlier | `MergeRequests` |
| review threads (`control/diffcomment.go`, `suggestion.go`) | `mr_diff_comments` | comment, batch, publish, discard, resolve, apply a suggestion | unsubmitted rows under published ones; the branch moves while a suggestion is applied | `Threads` |
| pushes, branch policy, releases (`sshd`, `hookd`, `policy`, `control/release.go`) | refs, `settings_json`, `push_tokens`, `releases` and files | admit, check, move, report; settings; release and asset commands | policy read before the ref moves; one JSON blob, two writers; row and file | `Pushes` |
| repositories (`control/repo.go`, `mr.go`, `import.go`, `migrate.go`, `cmd/gitbayd/backup.go`) | `repos`, directories | create, fork, import, transfer, rename, delete, back up | row and directory are separate steps; quota read before insert | `Directory` |
| access (`policy/access.go`, `store/orgs.go`, `teams.go`) | owners, grants, `orgs`, `teams`, visibility | grant, invite, team, transfer, publish, archive | commands that cross; the same rule written three times | `Access` |
| issues (`control/issue.go`, `label.go`, `milestone.go`, `commitrefs.go`) | issues, labels, milestones, `inbox` | the tracker commands; commit references | the owner read before a transfer | `Tracker` |
| the bot's issue (`internal/botissue`, `deps`, `control/security.go`) | reports, dismissals, issues | check, upload, dismiss | overlapping checks, stops between row and issue | `BotIssues` |
| accounts (`control/register.go`, `accountdelete.go`, `store/users.go`) | `users`, addresses, codes, deletions | invite, register, verify, suspend, delete, purge | claims across steps, cancels against the purge | `Accounts` |
| credentials (`sshd`, `store/tokens.go`, `sessions.go`, `revoke.go`) | keys, tokens, links, sessions, open connections | authenticate, mint, revoke, sweep | a revocation between authentication and registration | `Credentials` |
| read commands (`control/*`, `store/*` queries) | pins, bookmarks, followed builds | list and show | every list decides access with its own query | `Reads` |
| web (`internal/httpd`) | topics, page domains | pages, feeds, forms, published sites | pages drifting from commands | `Pages` |
| deliveries (`webhook`, `notify`, `push`) | three tables, batches | enqueue, send, record, redeliver, sweep | sent and not recorded; tokens that change hands | `Delivery` |
| mirrors (`internal/mirror`) | `mirrors` | mark, sync, record | a mark set during a sync | `Mirrors` |
| symbol index (`internal/symbols`) | requests, generations, chunks | ask, run, publish, purge | a push while the worker runs | `SymbolIndex` |
| mailed replies (`internal/mailin`) | claims, the mailbox | check, claim, post, mark seen | stops and copies | `MailReplies` |
| git process limit (`internal/packlimit`) | counters, waiters | acquire, wait, release, kill | lost wake-ups, counters that drift | `PackSlots` |
| secrets at rest (`internal/seal`, `cmd/gitbayd/secrets.go`) | the key file, sealed columns | init, rotate, seal | rotation while the daemon writes | `KeyFile` |
| LFS (`internal/lfs`, `httpd/lfs.go`) | objects, tokens | batch, upload, push, collect | a collection during an upload; a token outliving its key | `LFS` |

Components call each other directly. A push runs `RefsUpdated`, which queues builds,
refreshes merge requests, tries their queued merges, acts on issues its messages
name, marks the mirrors and asks for an index; a reported build writes a commit
status and tries the merges queued at that commit; every event queues deliveries. The
models meet where the code does: `Tracker` and `Reads` EXTEND `Access` and work on its
rows, `Pages` EXTENDS `Reads` and reuses what its commands show; the others meet only
through a call whose effect in the other is one of that other's actions (a mark, a
request, an enqueue), which may come at any time there.

`PROJECT.json` lists every component, the hazards with their lines and the
properties aimed at each, and the source lines of every definition.

## How the models are built

One SQL statement or transaction, one git ref operation, one file operation is one
step; what a handler has read and has still to write is kept in a variable of its
own, and other actors' steps come in between. A restart loses it. Definitions keep the
names of the functions they translate. Texts, times, names and payloads are model
values; "a deadline passed" is an action that may happen at any moment the code's
deadline could. Every bound is a CONSTANT whose name begins with Max and is a guard
on a counter, so behaviours end and deadlock is not checked.

Variables commented "history" or "ghost" (`taken`, `slipped`, `crossed`, `strayed`,
`steady`, `late`, ...) are not read by any guard; they record what a property needs to
except. The exceptions are real and each is written at its property: two commands
about one repository may cross and nothing in the code orders them.

Operators commented "A plausible mistake" are not used. Each is the definition below
it as somebody might have got it wrong: put in its place, it makes the property named
with it in `PROJECT.json` fail, which is how the properties are known to say
something about the code.

### Builds

`builds` is a function from the ids that have a row. What a handler does after its
first write is kept in

- `queueing`: the jobs a `queueJobs` call decided on from the builds it read, each
  of which becomes a reused success, a skip, nothing (a scheduled job) or a build;
- `inflight`: a commit status to write, or a cancelled build's context to resolve;
- `runner`: the runner's side from claim to report;
- `reap`: the list `ReapStaleBuilds` read and how far it got.

`logs` are the open log sessions; the server marks a build when its session ends
(`LogLost`, `RunEnds`), and a restart ends sessions without a mark.

Time is abstracted to two events. `GraceExpires` is two minutes after the stream
ended: by then no handler is between two statements and a runner in its report has
been through its thirty seconds of retries, but a runner may still be executing.
`DeadlineExpires` is ninety minutes after the claim, longer than the runner's own
timeout: no runner is at work.

Job configuration, path-filter verdicts, reachability of a commit and build outcomes
are data the model chooses freely. An image is taken to be part of the job. A
build's log, its failed step and its secrets are left out, and so is the
`ci/config` status of a configuration that does not parse.

### MergeRequests

Each process in `proc` is a command or a post-receive call, one database statement
or git ref operation per step, on the row it read when it began. The target is the
sequence of what landed: a push, or a merge that keeps the head in the history
(fast-forward, merge commit) or rewrites it (squash, rebase). `mergeQueueMu` is
`mutex`: held by queued attempts, not by `mr merge`. The gates are draft, checks and
approvals. A refused push, a missing row and a failed git call show as the handler
returning. Builds appear only as reported statuses (`ReportStatus`).

### The services

`Delivery` keeps the rows of the three tables in one function, and `AtLeastOnce` is
what it promises: an accepted item stays pending until it is delivered or given up,
is called delivered only after it was sent, and leaves the queue otherwise only with
its destination. `KeepsPromise` is the refinement mapping. `MailReplies` has the
poller as one process that a fault or restart may cut at any step. `PackSlots` takes a
pass of `Acquire`'s loop, which holds the mutex, as one step. `KeyFile` treats a key
file as the sequence of its key ids and a sealed value as the id of its key.
`SymbolIndex` and `Mirrors` count versions of the refs.

### The forge, people, and what they see

`Directory` has a command's steps on row and disk; `Access`, `Tracker` and `Pushes`
split a command where the code does: the check on rows as read, then the writes.
In `Reads` and `Pages` a handler that shows one repository is the check it makes and
the part it prints, and a handler that lists is the set its query returns, so the
agreement of the many forms of "may read" is what the properties compare.

## Runs

Modules that share no variable are put in one run with a variable that says which of
them works in a behaviour; the others rest in one initial state. Since they share
nothing, nothing is lost: each is explored as if alone. `People` is such a
composition, and `MCPeople` its instance: `CommandsShown` and `PagesShown` are
`CommandsAgree` and `PagesAgreeWithCommands` on the parts that change what they look at
(a form is a step of the read commands' part, so its states are among theirs).

| run | instance | shows |
|---|---|---|
| `builds_queue` | 1 repository, 2 commits with one tree, 1 job, branch and merge request head, 2 builds | `TypeOK`, `NoFalseGreen`: queueing, reuse of a tree, skips, late reports, cancels |
| `builds_ids` | 2 repositories, a scheduled job, 2 runners, 2 builds (triggers and schedule; pushes are in `builds_queue`) | `ClaimedOnce`, `ReportsOwnBuild`, `TerminalIsFinal` across deletions, lost replies and reaps |
| `builds_live` | a tag job and the code scan, 1 death, 1 restart, 2 builds | `EveryClaimResolves` |
| `merge_requests` | 2 heads, one on top of the other, 1 reviewer, 2 handlers, 4 commands, 2 landings, 1 restart | `MRTypeOK`, `MergedIsLanded`, `LandsOnce`, `TargetOnlyGrows` |
| `services` | `Delivery`, `Mirrors`, `SymbolIndex`, `MailReplies`, `PackSlots`, `KeyFile`, `LFS` | `RowsStayBound`, `KeepsPromise`, `EveryRowSettles`; `MarkIsSynced`; `ServedIndexIsWhole`; `RepliesPostOnce`; `SlotsAreShared`; `EveryValueOpens`; `ObjectsAreKept`; `ServicesCatchUp` |
| `forge` | `Directory`, `Access`, `Tracker`, `Threads`, `Pushes`, `BotIssues` | `DirectoryAgrees`; `AccessInOrder`, `RoleRisesByAdmin`; `ItemsInOrder`, `ArchivedStays`; `ThreadsInOrder`, `PublishedStays`; `SettingsHold`, `ReleasesAreWhole`; `IssueMatchesReport` |
| `people` | `Accounts`, `Credentials`, `Reads`, `Pages` | `AccountsInOrder`, `ClaimedIsPurged`; `CredentialsInOrder`, `ConnectionsEnd`; `CommandsShown`; `PagesShown`, `TopicsAsAsked` |
| `builds_abandoned`, `builds_reap`, `builds_scan`, `merge_reviews`, `mirrors_lost` | smallest that shows it | violations: see Findings |

A grouped property is a conjunction of properties that are stated and explained in
their own module.

Bounds. Races in this code are between pairs: two commands, two checkers, two
rotations, two runners, a worker and a command. So there are two of each process
that can meet itself, one of each that cannot (the server runs one of each worker),
and enough operations for one of them to come between any two steps of another:

- two builds for reuse of an id (create, delete the repository, create again), for
  one to end while the reaper works on another, and for a newer build of a check;
- two landings for a push between a merge's read and its write, and for a second
  landing;
- two delivery rows (a batch with a second row to go wrong on), two attempts, one
  redelivery, one fault; two accounts for a token that changes hands;
- three requests over two slots, one principal with a class and one without: someone
  runs, someone waits, someone comes third; `PerPrincipal` and `PerQueue` are 1 so
  that both limits are met;
- two rotations and four keys, so that a rotation follows one that was stopped;
- three repository ids over two paths and a limit of one, so that a path is used
  again and the quota is met; one fault, one backup;
- two review rows and three commits: a root and its reply, and a push between the
  reading of a suggestion's lines and its landing;
- one tracker item with names held by its repository, its organization or both, two
  tracker commands and one access command between their steps;
- three tokens for a chain of two mintings, two keys, one connection.

Symmetry is used for the handlers only, in runs without liveness. Elsewhere processes
of a kind take their turn in the order of their numbers, to the same end.

Fairness. Every liveness property states its own, as an antecedent or in the
specification it is checked under:

- `FairSpec` (builds): handlers run to their end, a runner's execution ends (it has
  its own timeout) and its report is made or given up (its retries are bounded), time
  passes, the scheduler ticks;
- `DeliveryFairness`: a worker ticks and its requests end, for each queue one at a
  time, and backoffs expire;
- `SymbolFairness`, `MirrorFairness`: the workers tick, their runs and syncs have
  timeouts, a handler that moved the refs goes on to its next statement;
- `ReplyFairness`: the poller polls and its calls have deadlines;
- `PackFairness`: goroutines run, timers and watches fire, git exits when it is killed
  or when its client has what it asked for;
- `KeyFairness`: a rotation runs on and a transaction ends;
- `CredentialFairness`, `AccountFairness`: the sweep's and the purge's tickers.

Commands, requests, faults, restarts, and what clients and people do are never forced.

## Findings

- `builds_reap`: a runner that lost only its log stream has its build failed two
  minutes later while it goes on executing; the comment on `ReapStaleBuilds` speaks
  of a runner that is gone.
- `builds_abandoned`: a build cancelled while the reaper works makes
  `ReapStaleBuilds` return an error; a build it had failed before keeps a pending
  commit status for good.
- `builds_scan`: `reapStale` and `resolveCancelledCommitStatus` set a commit status
  for the code scan, which is said to have none.
- `merge_reviews`: a review stored against the head read before a push counts as
  fresh for the head the push brought.
- `mirrors_lost`: `SetMirrorResult` clears the mark that a push set while the sync
  was running, so that push waits for the interval or the next one; the wiki says
  push mirrors sync shortly after each update.

## Proofs

For every value of the constants that satisfies the named assumptions:

| theorem | states |
|---|---|
| `BuildsProofs!TypeCorrect` | `Spec => []TypeOK` |
| `BuildsProofs!OutcomeIsFinal` | `Spec => TerminalIsFinal` |
| `BuildsProofs!ReportLands` | `Spec => []ReportsOwnBuild` |
| `BuildsProofs!ClaimIsUnique` | `Spec => []ClaimedOnce` |
| `BuildsProofs!GreenIsEarned` | `Spec => []NoFalseGreen` |
| `MergeRequestsProofs!MRTypeCorrect` | `Spec => []MRTypeOK` |
| `MergeRequestsProofs!MergedRowsAreLanded` | `Spec => []MergedIsLanded` |
| `MergeRequestsProofs!HeadsLandOnce` | `Spec => []LandsOnce` |
| `MergeRequestsProofs!NothingIsDiscarded` | `Spec => TargetOnlyGrows` |
| `DeliveryProofs!DeliveryTypeCorrect` | `DeliverySpec => []DeliveryTypeOK` |
| `DeliveryProofs!RowsAreBound` | `DeliverySpec => []RowsStayBound` |
| `DeliveryProofs!QueuesKeepPromise` | `DeliverySpec => KeepsPromise`, the refinement of `AtLeastOnce` |
| `DeliveryProofs!MirrorTypeCorrect` | `MirrorSpec => []MirrorTypeOK` |
| `DeliveryProofs!RemotesStayBehind` | `MirrorSpec => []MirrorsFollow` |
| `ServicesProofs!LimitsHold` | `PackSpec => []PackTypeOK` |
| `ServicesProofs!SlotsCountedAndSeen` | `PackSpec => []SlotsAreShared` |
| `ServicesProofs!KeyTypeCorrect` | `KeySpec => []KeyTypeOK` |
| `ServicesProofs!SecretsAlwaysOpen` | `KeySpec => []EveryValueOpens` |
| `ServicesProofs!SymbolTypeCorrect` | `SymbolSpec => []SymbolTypeOK` |
| `ServicesProofs!IndexServedIsWhole` | `SymbolSpec => []ServedIndexIsWhole` |
| `ServicesProofs!LfsTypeCorrect` | `LfsSpec => []LfsTypeOK` |
| `ServicesProofs!LfsObjectsAreKept` | `LfsSpec => []ObjectsAreKept` |
| `ServicesProofs!ReplyTypeCorrect` | `ReplySpec => []ReplyTypeOK` |
| `ServicesProofs!RepliesArePostedOnce` | `ReplySpec => []RepliesPostOnce` |
| `ServicesProofs!BotTypeCorrect` | `BotSpec => []BotTypeOK` |
| `ServicesProofs!IssueTellsWhatIsFound` | `BotSpec => []IssueMatchesReport` |
| `PeopleProofs!CredentialTypeCorrect` | `CredentialSpec => []CredentialTypeOK` |
| `PeopleProofs!RevocationReachesAll` | `CredentialSpec => []CredentialsInOrder` |
| `PeopleProofs!CommandsBeginAlive` | `CredentialSpec => CommandsNeedALiveKey` |
| `PeopleProofs!AccountTypeCorrect` | `AccountSpec => []AccountTypeOK` |
| `PeopleProofs!AccountsStayInOrder` | `AccountSpec => []AccountsInOrder` |
| `PeopleProofs!ReadsTypeCorrect` | `ReadsSpec => []ReadsTypeOK` |
| `PeopleProofs!CommandsStayInAgreement` | `ReadsSpec => []CommandsAgree` |
| `PeopleProofs!PagesTypeCorrect` | `PagesSpec => []PagesTypeOK` |
| `PeopleProofs!TopicsStayAsAsked` | `PagesSpec => []TopicsAsAsked` |
| `PeopleProofs!PagesStayInAgreement` | `PagesSpec => []PagesAgreeWithCommands` |
| `PeopleProofs!PeopleTypeCorrect` | `PeopleSpec => []PeopleTypeOK` |
| `PeopleProofs!CommandsStayShown` | `PeopleSpec => []CommandsShown` |
| `PeopleProofs!PagesStayShown` | `PeopleSpec => []PagesShown` |
| `AccessProofs!AccessTypeCorrect` | `AccessSpec => []AccessTypeOK` |
| `AccessProofs!AccessStaysInOrder` | `AccessSpec => []AccessInOrder` |
| `AccessProofs!RolesRiseByAdmin` | `AccessSpec => RoleRisesByAdmin` |
| `DirectoryProofs!DirectoryTypeCorrect` | `DirectorySpec => []DirectoryTypeOK` |
| `DirectoryProofs!RowsDiskAndBackupAgree` | `DirectorySpec => []DirectoryAgrees` |
| `ForgeProofs!ThreadsTypeCorrect` | `ThreadsSpec => [](ThreadsTypeOK /\ ThreadShapes)` |
| `ForgeProofs!ThreadsStayInOrder` | `ThreadsSpec => []ThreadsInOrder` |
| `ForgeProofs!CommentsArePublishedForGood` | `ThreadsSpec => PublishedStays` |
| `ForgeProofs!TrackerTypeCorrect` | `TrackerSpec => []TrackTypeOK` |
| `ForgeProofs!ItemsStayInOrder` | `TrackerSpec => []ItemsInOrder` |
| `ForgeProofs!ArchivedThreadsStay` | `TrackerSpec => ArchivedStays` |
| `ForgeProofs!PushesTypeCorrect` | `PushesSpec => []PushesTypeOK` |
| `ForgeProofs!ReleasesStayWhole` | `PushesSpec => []ReleasesAreWhole` |
| `ForgeProofs!SettingsAreHeld` | `PushesSpec => SettingsHold` |

The assumptions are the ASSUMEs of the modules, which TLC evaluates on every run:
bounds are naturals, values that mark absence are not values of the set they
complete (`"other"` is no head, 0 is no run of the command), a head is among its own
ancestors, the webhooks and devices that can exist are finitely many, and in `Access`
there is an account, no account is an organization, and a worker with no command is none
of the commands; in `Pages` there is a topic; in `Tracker` no repository is an account or
an organization (scopes of labels are told apart by their column), there is a name for a
label, and the accounts with the watch preference are accounts. The number
of accounts, addresses, organizations, teams, repositories, heads, handlers, requests, rows, keys, tokens, rotations, messages,
chunks and objects is arbitrary. The inductive invariants of `MergeRequests`, `KeyFile`, `LFS`,
`MailReplies`, `Credentials`, `Accounts`, `BotIssues`, `Access` and `Tracker` were model-checked on small instances before they were proved.

**Builds.** `TypeOK` is not inductive: a handler writes the status of `builds[c.id]`,
which must still be a row (`InflightHasRow`), and a report needs an outcome
(`ReportHasOutcome`). The actions are then summarised once: `StepTable` says a step
leaves the table alone, advances one row that has not ended, adds one row or deletes
a repository's; `StepRunner` says a runner keeps its build, goes idle or claims. With
`IdsBelowSeq` (every row is at or below the high-water mark) a new id is the mark plus
one and never a row's, so rows only evolve (`TableEvolves`). From that:

- a row that ended keeps its status;
- `HoldsOwnBuild`: a runner's id was handed out, so a new row cannot have it;
- `ClaimsCount`: an id not yet handed out, or a row still pending, was never claimed;
- `InflightGreen`: a green status still to be written is already earned. Without it
  `NoFalseGreen` is not inductive, since `WriteStatus` acts on what was decided
  earlier.

**MergeRequests.** `MRInv` adds to the three invariants what each handler may rely on
while others run (`HandlersKnow`) and a count (`ReviewsCounted`). `HandlerKnows(x, t)`
says of a handler `x` and a target `t`: from the read to the compare-and-swap, what
it read is a prefix of the target and the head was not in that prefix's history; from
there to `MarkMerged`, the landing it is about to record is in the target. The target
only grows (`Grows`), and what a handler knows of a target it knows of a longer one
(`KnowsMore`), so a step has to be shown right for its own handler only
(`HandlersFollow`). The compare-and-swap succeeds just when the prefix is the whole
target; that is where `LandsOnce` and `TargetOnlyGrows` come from. `ReviewsCounted`
bounds `reviews` by the commands that arrived: each review written or about to be is
one of them.

**Delivery.** `DeliveryInv`: a batch is a set of rows as they were read
(`BatchesMatchRows`), a result that a worker holds is one of that row
(`ResultsAreReal`), a push row names a device, and while it is pending that device is
the account's it was queued for (`PushRowsOfDevices`, `PushesForOwner`), and attempts
stay within their limit, a pending row with one to go (`PendingHasAttemptLeft`,
`AttemptsBounded`). The refinement is proved action by action: initial states map to
`AtLeastOnce`'s, and every step maps to one of its actions or to a stutter. An attempt
that the receiver took is `Send`, recording it `Settle`. Removing a webhook, sweeping
or handing a device to another account drops many rows in one step, which is why the
actions of the abstract specification speak of sets of items. A result that comes for
a row that is gone, or was settled meanwhile, is a stutter.

**Mirrors.** `MirrorInv` adds to the types that a result is that of a mirror in the
worker's list, that only a pull goes on to ask for an index (`SyncerInStep`), and that
nothing is sent, fetched, marked or indexed that the repository never held
(`MirrorsFollow`). What the code promises of a mirror, that a mark is synced, is liveness
and stays with TLC.

**PackSlots.** `PackInv`: the counters of the limiter are the cardinalities of the
sets of requests they count (`SlotsAreCounted`), only known principals are counted,
finitely many requests are at work, and whenever there is room for a waiter its
channel is closed or it has been woken (`NoLostWakeup`). Each action moves one
request from one set to another, so `Recount` gives the new cardinalities and
`CountersFollow` the counters. No waiter sleeps through room: a step that makes none
leaves the sleepers asleep rightly (`SleepersStay`), a request goes to sleep only
where it does not fit, and `releaser`, the one step that makes room, wakes everyone.

**KeyFile.** `KeyInv`: only the run with the lock is anywhere (`RunHoldsLock`), so the
file is as it read or wrote it (`RunKnowsFile`); whoever has a transaction is at work
(`TxHasOwner`), and what the transaction will store opens (`TxOpens`). The step that
could lose a secret is the last, which drops the old keys while a transaction of the
daemon may be open: `CheckStands` says every row is under the new key from the check
on, `TxIsFresh` that any transaction open by then stores the new key or the value it
found, because write transactions exclude each other and it began after the
rotation's own had committed.

**SymbolIndex.** `SymbolInv`: no two indexes are current (`OneCurrent`), a current one
that was not cut short has every chunk (`OkIsWhole`), and the worker's row is there and
still building from its insertion to its publication, with as many chunks as were
written (`IndexerInStep`). A restart only forgets the worker; the row it leaves is
building for good, is read by no search and goes with the next purge.

**LFS.** That a token is worth its key's access needs only the shapes, because
`lfsAuth` asks the row of the key each time and compares fingerprints. That a pushed
object stays is a race of three: `UploadsAreStored` says what a client about to push may
rely on (an object it stored itself is young; one it skipped is there unless a
collection removed it, which `outlived` remembers), and `OrphansAreOld` that what a
collection listed is still old when it is deleted, however long after. So no
collection touches an upload under way except a skipped one.

**MailReplies.** `ReplyInv` follows a claim from its insertion: the poller's claims are
its own and different from each other, and nothing is posted under them before it posts
(`HeldAreItsOwn`); a claim that nobody holds is that of a comment or of messages cut
short (`ClaimsMeanDealt`), so finding one in the way is a reason not to post
(`RefusedIsDealtWith`); and what was posted stays claimed while a copy could still be
taken (`PostedStayClaimed`), which is why pruning is safe. Keys are arbitrary: any
messages may share any of them, and a message may carry one twice. In that last case the
code takes the message for a copy of itself: its second claim finds its first
(`mailin.go`, the loop over `claims`), both are released, and the reply is refused as
"already posted" although nothing was. `NoReplyLost` therefore names the case
(`CarriesTwice`); without it the invariant is false. It takes a message with two
identical DKIM signatures, which the run's instance does not have.

**BotIssues.** `BotInv` separates a process that nothing has interfered with from a crowd.
While a process is alone there is no other (`AloneIsAlone`), so what it has read of the
row, the saved set and the dismissals is still so, statement by statement (`Knows`); what
it decided (`KnowsDecided`) then makes the issue right once its last statement is done.
Where it may still find that nothing changed, and so write nothing, the issue has to have
been in line before (the last conjunct of `KnowsRead`). In a crowd nothing is
claimed: `CrowdUnsettles` says `steady` is false until it has gone, and only a process
that began alone and wrote its report makes it true again.

**Credentials.** A revocation reaches a chain of any length because of what `Lineage`
says of every row: its line is the token that made it and that token's line, all of it
in the table, and of two tokens in a line one made the other; no token is in its own
line (`TokensDescend`). A chain revoked takes every token that has the revoked one in
its line, so a key whose maker stays has none of the chain in its line
(`RevokeChainKeeps`). When tokens go without what they made, a row loses from its line
those and what made them, and what is left is a line again (`LineageSurvives`); a new
row touches no line, since what is not in the table is in none (`LineageStays`). A
request that authenticated before the revocation meets the foreign key: its insert
needs its token in the table (`Parent`), which `ClearedAreGone` rules out. For
suspensions the account is written before its sessions are cleared, so
`SuspendedAreCleared` allows them only in between, or when the login is a late one.
`CommandsNeedALiveKey` is the safety half of the property `ConnectionsEnd`.

**Accounts.** Registration, verification, the admin's commands and the owner's
deletion each act on rows another may have changed since they looked, and `RowsInOrder`
says what they may still rely on: an address is of an account that is there
(`OwnersAreHere`), an unused code is of the account that has its address (in
`AccountTypeOK`), a verification under way has proved its address (`HandlersKnow`), an
account that is no longer pending and registered itself has a verified address
(`ActiveIsReachable`), and no two addresses of one account are primary (`OnePrimary`). Taking, verifying and removing
an address are then lemmas of their own (`AddressTaken`, `AddressVerified`,
`EmailRemoveKeeps`), as are a write to one row of `users` (`RowWritten`) and the deletion
of one with all that cascades (`ErasureKeeps`), which the admin, the reaper and the purge
share. `PurgeInOrder` follows the purge over its list: an account it is at work on is
marked, or gone, or in `reopened`.

`reopened` is a history of the accounts an admin enabled while they were marked, and is
there because the proof failed without it. `store/accountdelete.go:76` says of the mark
that "nothing cancels it, and DueDeletions returns it again until the purge completes".
An admin's enable leaves the mark on but makes the account usable
(`store/users.go:209`), so its owner can ask for a deletion again and confirm it, and
`ConfirmAccountDeletion` then writes a date over the mark (`store/accountdelete.go:57`)
while the purge is at work. The purge under way goes on to its end; if it fails instead,
the half-purged account waits for the new date, and a sign-in cancels it. It takes four
commands, one more than the `people` run has; the step was found in the proof, and TLC
finds it with `MaxAcctOps = 4`. `PurgeIsClaimed` names the exception, and
`MarkedAreDisabled` says there is no other: a marked account that was not reopened is
disabled, so no link, sign-in or verification touches its mark.

**Access.** A command is checked in one step and writes in a later one, so `AccessInv`
says what a command under way may still rely on (`RequestsKnown`): it has the fields its
write uses (`RequestFits`), its caller administered what it gives a role on
(`RequestCleared`), and what was checked and cannot be undone holds (`RequestStands`: a
repository to be transferred is there, the organization it goes to was made, though it
may be gone by now). `RowsFit` adds that a repository belongs to an organization only
once there is one and that only a team that is there has members. What crossing commands
may leave behind is in `slipped`: the invariant holds because each write either re-checks
in its transaction or is recorded there. That the forms of access agree needs the types
alone: `Sources` is what the access list folds, a strongest role may be folded in two
steps (`StrongestNested`), and the dashboard's condition asks whether there is any
source (`StrongestGiven`). For `RoleRisesByAdmin`, a role that rises has a source it did
not have (`RiseHasSource`); `NewSourceRaised` goes through the writes and finds, for each
that can make one, that its caller was cleared for it. An organization that is made
raises nobody, because `RowsFit` says no repository names it yet.

**Directory.** A repository is a row and a directory, and a command writes them one
after the other. `DirectoryInv` says of each state: what a command of each kind has
read and where it can be (`Shape`), that rows, files and names are each of one
repository or owner (`Ground`); that commands which meet on a path, on a repository or
on an organization being renamed know it, and what they are about is recorded in
`crossed` (`CrossingsKnown`); and where the files of a repository that is not recorded
are (`PlacesKnown`): at the path of its row when no command is about it, and otherwise
where the stage of its command or of the rename of its organization puts them
(`InHand`, `OldPath`). A command's step is described once by what it may touch
(`Work`): its row, its two paths or the tree it moves. `WorkCrosses` gives
`CrossingsKnown` from that alone. `Settles` says where the files of its own repository
are after it, action by action, and `PlacesStay` that no other repository's moved:
whoever has files at one of those paths is in the command's hands, so either nobody
else's command is (`Stranger`) or it is crossed. The backup adds who holds its lock
(`LocksHeld`): while it walks, commands only make repositories or are refused
(`StepWalks`). The quota adds who has counted under `repoCreateMu` and not yet written
(`QuotaInOrder`): there is one at most, and every step adds one row at most
(`RowsGrow`).

The proof found `RowHasItsDirectory` too strong as it was first stated, when only
commands that share a path or a repository were taken to cross. Two cases broke it, both
with more commands than the run has, and TLC shows both. With three: an organization is
being renamed, and a second rename of it and a creation in it begin before the first has
moved its tree (`control/org.go:208` changes the name, `:214` moves the tree, under a
lock that commands share); the row of the new repository follows the second name and its
directory stays under the first. With four: a creation is overtaken by a rename of its
organization, then another repository of that organization is renamed away from the name
the creation still has in hand; the directory cannot be moved, and the row cannot be put
back (`control/repo.go:656`, the failure the code reports) because the creation has taken
the name at a path of its own. Now a rename of an organization meets every command on it
(`Overlaps`), and the refused revert is recorded (`RenameRevert`); `RowHasItsDirectory`
is proved of everything else.

**Threads.** `ThreadsInv` adds to the type invariant that row numbers have a greatest one
(`CommentsNumbered`, so a new row is new: SQLite counts on from the largest id in use),
and what the two steps of an application may rely on: a suggestion that is being applied
is still a published root, on the commit it was checked with (`MadeWhereItStands`), and a
commit made from one names it (`AppliedNamesItsThread`). Both last because a published
root is never removed: a discarded batch takes the comments that are pending and the
answers to them, and a root answers nothing (`DiscardGoes`). Each action is summarised by
what it does to the comments (`CommentsGo`), the branch (`BranchGoes`), the applications
(`ApplyingGoes`) and the rest; `StepGoes` puts them together.

**Pushes.** `PushesInv` says what `pre-receive` learned and what of it still holds when git
moves the ref: the policy (`CheckedAsSet`), unless the settings were written since, and
that no release is anchored to the tag it moves (`CheckedLeavesTags`), unless the release
was made since. A release that is made while a checked push of its tag is under way is in
`raced`; that set is what the code leaves open, and the proof shows it is all it leaves
open. A settings command wants what some settings hold (`SettingsTyped`), so writing its
own fields over the row as it is gives settings again. `OnePush` covers the steps of a
receive-pack, `AssetsGo` those of a writer's command: an asset that is listed was listed
before, or its file is about to take its name.

**Tracker.** `TrackerInv` holds `AccessInv` as well, since the tracker works on the rows
of `Access`; as in the run there is room for one command on them (`AccessOnce`), so a
row seen by a command is the row there is until that command is asked for, and the
exceptions of `MentionsReachReaders` apply from then on. To the properties it adds what a
command carries from its check to its writes: what it has resolved (`JobFits`), that its
item is there and stays in the repository it was read with, and what it saw of that
repository (`JobStands`). Items carry rows that exist and of the right table
(`RowsHold`). `RefActsOnce` needs `RefsHeld`: a reference that acted or is about to is
recorded, and one command at most is about to act on it; recording and acting are two
steps, and the primary key lets only the first in. A write adds a row (`RowAdded`), sets
one item (`CarriesSet`), takes a row out, or folds a repository's rows into its owner's
(`FoldKeeps`: what an item carried stays or gives way to the owner's row of the name).
That last lemma serves the organization's own rows and the transfer alike. A row written
for a repository under its owner of before, and an item of a repository that has left an
organization, are what `NoTwoOfEach` and `RowsInScope` except, and the proof shows that
nothing else is needed. `ArchivedStays` follows from `JobFits`: whatever writes to a thread
read its repository when it was not archived (`ThreadWriteMoves`), and the other writes
touch labels and milestones only (`RowWriteBare`). Two definitions had to be said more
exactly for this: the title of a milestone and closing one were CASE expressions whose
conditions overlap, which TLC reads in order and TLA+ does not.

**Reads and Pages.** What a command lists, prints or renders is decided again on every
call, so most of this follows from the rows of one state, given only `AccessTypeOK`: the
conditions of the list queries are the policy's (`QueriesRead`, from `FormsAgree`), so
each list is of repositories its caller reads or is involved in (`ListedReadable`), and
a handler's gate says who is shown its part (`HandlerGates`, `PageGates`). That a page
and a command open the same parts is proved both ways, with a command for every page and
a page for every part (`PageIsTold`, `ReadableHasPages`, `AdminHasSettings`). Of the
behaviours the invariants keep what is decided once and used later: a follow writes only
on a check that is fresh (`TurnSends`); the topics nobody else touched are those the form
asked for, less what it has yet to add, and what it has yet to remove (`FormFollows`); a
lookup that found its record has been answered for its repository (`DomainRows`), so the
row that is verified under the same name and repository is proven. A form's command is a
step of `Reads` or of `Access` (`FormsDispatch`), whose invariants it keeps. The proof of
`PagesShowReadable` failed at first: with two organizations, a team of one keeps its grant
on a repository that was transferred to the other (store/repos.go, `TransferRepo`), and
the page of the first lists it to an administrator who does not read it. The run has one
organization, so the exception it needed, a repository that had gone to a user, was too
narrow; it is now stated for every such grant (`KeptByTeam`).
`PeopleSpec` composes these modules; its invariant is that of the part at work, and the
three theorems about it follow from those of its parts.

Only model-checked:

- liveness (`EveryClaimResolves`, `EveryRowSettles`, `MarkIsSynced`,
  `ServicesCatchUp`, `ConnectionsEnd`, `ClaimedIsPurged`): it rests on fairness, hence on
  ENABLED, about which the provers used cannot reason;
- `ServicesTypeOK` and `ForgeTypeOK` as such: they say that the part at work in the run
  has its types, and a theorem above says so of each part (`DeliveryTypeCorrect`,
  `MirrorTypeCorrect`, `SymbolTypeCorrect`, `ReplyTypeCorrect`, `LimitsHold`,
  `KeyTypeCorrect`, `LfsTypeCorrect`; `DirectoryTypeCorrect`, `AccessTypeCorrect`,
  `TrackerTypeCorrect`, `ThreadsTypeCorrect`, `PushesTypeCorrect`, `BotTypeCorrect`).

## Not modelled

- Git's object store and transport: refs move atomically, ancestry is a relation.
- The CLI client (`cmd/gitbay`): it sends argv over SSH.
- Configuration, parsing, rendering, TeX, markdown, screens: pure functions whose
  result no other part depends on for its state.
- Parsers of languages, manifests and advisories; secret patterns; signature
  verification and its cache, which is recomputed on a miss.
- Imports from other forges: one sequential reader whose writes are the operations
  modelled in `Directory` and `Tracker`.
- Migrations: they run before the server listens.
- Rate limiters other than `packlimit`: a counter per key with no waiter.
- Containers, cgroups and the steps of a build.
