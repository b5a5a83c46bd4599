# TechFusion AI in TLA+

TechFusion AI is a multi-tenant platform for managing computers.  A NestJS API
gateway (`src/apps/api-gateway`) keeps organizations, users, devices, alerts,
reports and support sessions in PostgreSQL, uses Redis for locks and job queues,
and pushes events to browsers and agents over Socket.IO.  A BullMQ worker
(`src/apps/worker`) runs the jobs.  A Rust agent (`src/apps/agent`) on every
managed computer registers, reports metrics and answers commands.  A Next.js
console (`src/apps/web`) is for people.

Several gateway and worker processes run at once, and nearly every handler has
the same form: read some rows, decide in TypeScript, write rows by id in later
statements.  Between any two of those awaits another request, job, tick or crash
may come.  These modules model the parts of the system whose correctness
depends on that, statement by statement; TLC checks them on small instances and
TLAPS proves their safety properties for instances of every size.

Contents: [inventory](#the-system) | [modules](#modules) |
[conventions](#how-code-becomes-actions) | [runs](#runs) |
[findings](#findings) | [disagreements](#disagreements) |
[observations](#observations) | [proofs](#proofs) |
[only model-checked](#what-is-only-model-checked) |
[not modelled](#what-is-not-modelled) | [plan](#plan).

Paths below are relative to `src/`; `gw/` stands for
`apps/api-gateway/src/`, `wk/` for `apps/worker/src/`.

## The system

| Component | State it keeps | Operations | What is hard | What makes it correct |
| --- | --- | --- | --- | --- |
| Refresh sessions and passwords (`gw/auth`) | RefreshToken, PasswordResetToken, User | login with or without a second factor, refresh, logout, list and revoke sessions, change password, forgot and reset; switch and leave mint too | requests of several tabs; mints on an older right after a mass revocation; a token used twice | one successor per token, one holder per session, sessions end with their password, reset tokens used once |
| Organizations, roles, account deletion (`gw/organizations`, `gw/admin`, `gw/account`) | Organization, OrganizationMember, User.orgId | create, join, change role, remove, leave, switch, delete account | counts of Owners and memberships read before the write; two routes to the same rows; a fallback in a later statement | an Owner in every organization, a usable active organization for every user |
| Invitations (`gw/organizations/invitations.service.ts`) | OrganizationInvitation | create, regenerate, resend, revoke, inspect, accept | updates by id after a status was read; expiry found by the acceptance itself | one pending row per email, each admits once, final statuses final |
| Alerts and monitoring (`gw/alerts`, `gw/monitoring`, `gw/devices` ingest, `wk/monitoring-sweep.ts`) | Alert with its unique activeKey, AlertRule, Device.lastSeenAt | ingest and evaluate, sweep, acknowledge, resolve, edit rules | overlapping sweeps and reports; stale reads; a failed create that ends the job | one active alert per rule and device, told once, opened for an outage and closed after it |
| Report schedules (`gw/reporting`) | ReportSchedule, Redis locks | create, PATCH, delete; a cron tick on every instance | several instances; TTLs; a crash between claim and generation; a PATCH across a claim | an occurrence claimed once, generated or accounted for, and eventually handled |
| Device enrollment, credentials, plans (`gw/enrollment`, `gw/devices`, `gw/billing`) | EnrollmentToken, Device, token hashes, the plan's device limit | validate, register, re-register, recover, rotate, revoke; plan webhooks | use counts, plan limits and revocation read before the write | tokens used within their count, places within the plan, a revoked credential dead |
| Device agent (`apps/agent/src`) | credential and identity files | register, report, answer commands, reset | an installer beside the service; a lost answer; half-written state | only a stale credential is deleted; every command answered |
| Remote support (`gw/remote-support`) | RemoteSession | create, consent, agent status, end, cleanup | consent against expiry; unguarded status updates | one open session per device, active means consented, pending is answered |
| Network discovery (`gw/network`) | NetworkScan | start, poll, result, cleanup | an agent's late answer | one open scan per target, every scan closes |
| MFA and recovery codes (`gw/mfa`, `gw/auth`) | User MFA columns | enroll, verify, disable, regenerate, use | re-enrolment or disabling during verification | the secret enabled was proven; a code works once |
| Backups (`gw/backups`, `wk/backup-runner.ts`) | BackupRun, its metadata, the queue | trigger, verify, restore, delete | a row created before its job; redelivery beside a slow slot | every run settles; a restore point was verified |
| Knowledge base (`gw/kb`, `wk/processors.ts`) | KbArticle, KbEmbedding, the queue | create, edit, reindex, delete, embed | embedding of an older text; a job id that hides a newer job | an article is not left without its embeddings |
| Inventory (`gw/inventory`, `wk`, agent) | rows, the refresh mark, the queue | refresh, report, upsert | marks taken back by whoever comes; jobs side by side | what is installed is shown; a refresh is not lost |
| Security findings (`gw/security`, `wk`) | SecurityScan, findings, score, jobs | ask, answer, score, alert | two answers to one scan; a fault after the completion | a severe finding is alerted, once by its job |
| Mail (`gw/mail`, `wk/mail`) | mail queue | send, classify failures, retry | sent twice | nothing lost but what a provider refuses for good |
| AI router and circuit breaker (`gw/ai`) | failure counters per provider | ask, fail over, record | a query that changes the state | an open circuit stays open for its time |
| Retention (`wk`) | the tables it empties | jobs | partial batches | deletion by age only |
| Web console | cached tokens | pages; refresh | several tabs | one refresh at a time |
| Permissions, dashboards, audit, tracing, encryption, SSO, shared packages | none, or append-only | lookups and arithmetic | nothing interleaves | unit tests enumerate them |

How they meet: every authenticated request depends on the membership rows
(`OrgMembership`) that login and refresh read again (`AuthSessions`); removing a
member or switching organization revokes or rebinds refresh tokens; accepting an
invitation (`Invitations`) inserts the membership `OrgMembership` counts; ingest
requests of agents, the sweep of the worker and the operators of the console
share the Alert table; executors on all gateway instances share Redis and the
ReportSchedule table with its users; agents poll for the sessions and scans that
users ask of them, under the credential whose life DeviceEnrollment follows;
gateway and worker share a table and a BullMQ queue for each kind of job
(backups, embeddings, inventory reports, security alerts).

PROJECT.json has the full list under "components" and, under "hazards", what can
go wrong at which line.

## Modules

Each component has a specification.  What a component promises is stated at its
end or, where an `MC` module checks and a `Proofs` module proves the promise beside
those of another component, in a small module of its own over the variables it
speaks of, which the component, the `MC` and the `Proofs` module all extend:
**SecondFactor** (Mfa), **RefreshMark** (Inventory), **SevereAlerts**
(SecurityScans), **RestorePoints** (BackupRuns) and **ArticleEmbeddings**
(KnowledgeBase).  The `MC` modules hold the symmetry sets and instances TLC uses;
most take several components in turn (see [runs](#runs)).  The eight `Proofs`
modules are listed under [proofs](#proofs).

**AuthSessions** (`gw/auth/auth.service.ts`, `password-reset.service.ts`,
`gw/organizations/organizations.service.ts`, `gw/admin/admin.service.ts`).
`rows` and `resets` are the RefreshToken and PasswordResetToken tables, `password`
counts a user's password changes, `req` holds the requests in flight.  Login is
`LoginVerify` (the bcrypt comparison), `LoginMember`, `LoginMint`; refresh is
`RefreshLookup`, `RefreshMember`, `RefreshCas` (the updateMany with revokedAt
null), `RefreshMint`; changePassword is `ChangeVerify`, `ChangeCommit`
(transaction), `ChangeMember`, `ChangeMint`; forgotPassword `ForgotSupersede`,
`ForgotCommit`; resetPassword `ResetLookup`, `ResetCommit`.  `Logout`,
`RevokeSession` and `RevokeOtherSessions` are one statement each.
verifyLoginMfa is `MfaVerify`, which compares no password, and then the last two
steps of login; the challenge may go back to any earlier comparison.  What the
organization endpoints do to sessions is here too, over `member`
(OrganizationMember) and `activeOrg` (User.orgId): switchOrganization is
`BeginAsBearer`, `SwitchMember`, `SwitchMove`, `SwitchRebind` (live rows follow
the user) and `OrgMint` (issueTokensForOrg); leaveOrganization `LeaveMember`,
`LeaveCount`, `LeaveDelete`, `LeaveActive`, `LeaveFallback`, `LeaveRevoke`,
`LeaveMove` and `OrgMint`; removeMember and removeUser `RemoveLookup` to
`RemoveMove`; `Join` adds a membership.  `access` holds the access tokens (JWT)
that are not past their 15 minutes (`ExpireAccess`): no row stands behind them, so
a caller is authorized by one and by a current membership, whatever was revoked.
The environment expires tokens and cuts requests short (`Abort`).

**ReportSchedule** (`gw/reporting/report-schedule-executor.service.ts`,
`reporting.service.ts`, `report-schedule.utils.ts`).  The columns of the table
are variables, `lock` is what Redis holds, `tick` the executors at work.  A tick
is `Discover`, then for each schedule `Load` (the re-read), `AcquireLock` (SET NX
PX), `Claim` (compare-and-set of nextRunAt), `Generate`, `Release` (delete if the
value is ours) and `Record` (lastRunAt).  Each Redis or database call may fail
(`AcquireFails`, `ClaimFails` - the claim may have been made, or not -
`ReleaseFails`), a process may die (`Crash`), and a TTL may run out, under its
owner (`LeaseExpires`) or after its death (`OrphanExpires`).  A PATCH is
`EditRead` (clock, row, device validation) and `EditSave`.

**AlertLifecycle** (`gw/alerts`, `gw/devices/devices.service.ts` ingestMetrics,
`wk/monitoring-sweep.ts`).  `alert` is the table; a row's `slot` says that it
holds its activeKey.  A report is `Receive`, then for each breached rule
`FindExisting` and `Refresh` or `CreateMetric`, and at its end `TellMetric`.  A
sweep reads the devices (`StartSweep`), then for each presence rule and device
finds, promotes, refreshes, creates or resolves and notifies (`FindActive` to
`TellPresence`), then auto-resolves metric alerts (`ListMetric`, `JudgeMetric`,
`ClearMetric`).  A create whose activeKey is taken, or whose rule is gone, throws
as Prisma does, and what the handler has not done stays undone.  Operators
acknowledge, resolve, edit and delete.

**OrgMembership** (`gw/organizations/organizations.service.ts`,
`gw/admin/admin.service.ts`, `gw/account/account-deletion.service.ts`).  `member`
is the OrganizationMember table, `active` is User.orgId.  A request reads
(`UpdateMemberRole`, `UpdateUserRole`, `RemoveMember`, `LeaveOrganization`,
`SwitchOrganization`, `DeleteAccount`), counts (`CountOwners`, `CountOrgs`),
writes (`WriteRole`, `DeleteMember`, `EraseAccount`) and repairs the active
organization (`CheckHome`, `Fallback`, `MoveUser`).

**Invitations** (`gw/organizations/invitations.service.ts`, `invitation-token.ts`).
`invitation` is the table with its partial unique index (`MayBePending`).
createInvitation is `CreateCheck`, `CreateFind`, then `Insert` or `Regenerate`;
revoke, resend and accept are a read and an update by id, acceptance with a
membership check in between.

**DeviceEnrollment** (`gw/enrollment`, `gw/devices`, `gw/billing`,
`gw/admin/admin-recovery.service.ts`; agent `registration.rs`, `identity.rs`,
`reset.rs`, `agent.rs`).  `token` and `device` are the tables, `limit` the plan's
device limit, `disk` and `agent` what each computer keeps and runs.
register-public is `Validate`, `Consume` (the conditional increment), `Count`,
`Create`; for a known device `Find`, `Rotate`, `Clear`.  `Recover`, `EndToken`
and `Revoke` are the operators' calls, `SetPlan`, `ListDevices`, `FindInactive` (a
second read, if the plan has room), `WriteDevices` a plan webhook, retried after a
restart.  The installer and the service of a computer `Start`, `SaveToken`,
`SaveId`, send `Metrics`, whose rejections are counted, and reports (`Report`),
whose are not, `Invalidate`, `Retry` and `Reset`; calls time out, processes crash.

**DeviceCommands** is abstract: what the gateway promises of the work it asks of
agents.  A command is asked once, taken by agents that list it, closed by
anybody, and then reopened only by an agent that had it in hand.  Two modules
implement it, each with its own mapping:

* **RemoteSupport** (`gw/remote-support`, `agent.rs`): `FindPending`/`FindOpen`
  and `Create` (createSession), `EndSession`, `CleanupStale`, `Revoke`;
  `Poll`, `Consent`, `Accept` (handler's read), `Apply` (its write) and their late
  forms for a call the agent gave up on.
* **NetworkScans** (`gw/network`, `agent.rs`): the same shape with targets (a
  device, or any), a list that first fails stale scans (`Cleanup`, `List`), and
  results.

**BackupRuns** (`gw/backups/backups.service.ts`, `wk/processors.ts`).  `run` is
the table, `job` the queue, `slot` the worker.  `Trigger`, `Order`, `Enqueue`,
`EnqueueFails`, `Delete` are the gateway; `Take`, `Read`, `Start`, then `Complete`,
`ExecuteFails`, `VerifyFails`, `Restore`, `Verify` or a throw the worker; `Stall`,
`Redeliver`, `Recover` and `Crash` are the queue's and the machine's.  `Swallow`
is a write whose failure the code only logs.

**KnowledgeBase** (`gw/kb/kb.service.ts`, `wk/processors.ts`): one article;
`CreateArticle`, `UpdateArticle`, `ReindexArticle`, `Clear`, `Enqueue`, and the
job `Take`, `Read`, `Wipe`, `Store` chunk by chunk, `Finish`, `Throw`, `Stall`.
A text is a key of `Chunks`, which says into how many chunks it is cut: none if it
is empty, as an edit that also has a title may leave it (`gw/kb/kb.controller.ts:108`).

**Inventory** (`gw/inventory`, `gw/devices`, `wk/processors.ts`, `agent.rs`): the
machine (`Install`), its agent (`Check`, `Collect`, `Send`, `Clear`, `Wipe` and
their late forms), users (`Refresh` ... `SetPending`), the job (`Take`, `Upsert`,
`ItemFails`, `Throw`, `Stall`, `Evict`).  `barred` says that the agent runs with
TF_ORG_TOKEN, which it sends as X-Org-Id: the gateway then refuses its reports
(`Refuse`) until it is restarted without (`AgentRestart`).

**SecurityScans** (`gw/security/security.service.ts`, `wk/processors.ts`): asking,
the two checks and the writes of an answer (`Recheck`, `Complete`, `Store`,
`Score`, `QueueScan`, ...), and the alert jobs (`Read`, `Raise`).

**Mfa** (`gw/mfa`, `gw/auth`): `Enroll`, `Verify`, `Enable`, `Disable`,
`Generate`, `Spend` and `LoginByCode`, each operation a read and a later write.

Composition.  RemoteSupport and NetworkScans are tied to DeviceCommands by
refinement.  DeviceEnrollment composes gateway, two processes per computer and
the disk between them; BackupRuns, KnowledgeBase, Inventory and SecurityScans
compose gateway, queue and worker.  Where two modules meet elsewhere each sees the
effect on its own state (memberships in AuthSessions, which has no Owners, and in
OrgMembership, which has no sessions; `Remove` in Invitations, `Revoke` in
RemoteSupport and NetworkScans).

## How code becomes actions

* One action per database statement or Redis call.  Reads with no decision
  between them are one step, as is a `$transaction` in which no other can make a
  difference between its statements; transactions run under READ COMMITTED, so
  those whose later statements do not lock what the earlier ones read are split.
* A handler's early return or thrown error ends the request with the writes it
  has made.  A crash does the same at any step.
* Tables are functions from row identities; identities are never used again.
* A clock appears only where dates are compared with dates (ReportSchedule).
  Elsewhere an expiry is a step that may come at any time, which allows every
  timing the code can meet and some it cannot.
* Variables and record fields named as history in the modules are written and
  never read by an action: they say what has happened, for the properties.
* Every counter that the code does not bound has a bound among the CONSTANTS,
  named `Max...`.  When the bounds are used up nothing can happen any more, so
  all runs but `sessions` say CHECK_DEADLOCK FALSE; in the system users and
  crons go on.  `sessions` never stops (a login may always be tried) and checks for
  deadlock.
* A call of an agent times out after 30 seconds while the gateway may still serve
  it: the model keeps it among the late calls.  A BullMQ job whose lock was not
  renewed is delivered to another slot while the first may go on.

## Runs

Twelve runs, eight that pass and four that show a violation.  Some MC modules take
several components, or several small instances of one, in turn: a variable
`focus`, chosen at the start, says what a behaviour is about, and the rest stays
as it began.  A focus is a run inside a run; nothing is shared between two.

| Run | Checks | Instance |
| --- | --- | --- |
| sessions | RotationSingleUse, OneHolderPerSession, OnlyOlderRightsSurvive, ResetSingleUse | one user, two requests, two session ids, one reset token; *tokens*: one organization, three tokens, two password changes, password logins; *orgs*: two organizations, two tokens, one password change, second-factor logins, and one login, switch, leave or removal at a time beside a refresh or a change, without logout and expiry of rows; 0.54M states |
| schedule | LeaseExclusive, ClaimedOnce, NoOccurrenceLost | one schedule, two ticks, one PATCH, periods 1 and 2, clock to 2, one fault; 0.94M states |
| alerts | ActiveKeyKept, NotifiedOnce, ToldUnlessDropped | four rows, one of them legacy, one crash; *presence*: two sweeps, three outages or recoveries, two commands, one reopening; *metric*: two rules, two reports, a sweep, one command; 1.5M states |
| owners | OwnerKept, LastOrgKept, LoginPossible, EnabledIsProven, CodesOfEnrolment | *organizations*: two users, two organizations (one with devices), two requests, three memberships, three commands, one crash; *second factor*: two requests, three secrets or code sets, two codes; 0.43M states |
| invitations | OnePending, ConsumedOnce, FinalStatus | one invitee, two rows, two requests, four tokens, one removal; 0.89M states |
| devices | LimitsKept, OldCredentialDead, DeletesStaleOnly | *fleet*: two computers, two registrations at once, a plan for one; *plan*: a plan change during a registration; *enrol*: installer and service of one computer, a fault; *service*: a service that meets a plan change; 1.1M states |
| handed_work | ActiveIsConsented, SecondOpensOnlyByRace, PendingIsAnswered, ImplementsCommands; ScansKept, ScanCloses, ScansImplementCommands; RestorePointVerified, RestorePointKept, RunSettles | *remote*: two sessions, two openers, a fault; *scans*: two scans of one device; *shared scan*: one scan two devices may take; *scan with faults*: two faults; *backup*: a run, two jobs, two slots, two attempts, a fault; 0.18M states |
| background | DueIsHandled, OfflineIsAlerted, RecoveryIsResolved, RestingIsEmbedded, ArticleIsEmbedded, InstalledIsShown, RefreshKept, SevereIsAlerted, FindingAlertedOnce | *ticks*: two ticks at one schedule; *batch*: two schedules, a batch of one; *alerts*: two rules, two sweeps, five rows; *article*: two requests, two slots, texts of two, one and no chunks, three writes, a fault; *changes*: two installs, an agent with or without its enrolment token; *refreshes*: two users; *scan*: two answers, two slots, two faults; 0.40M states |
| early_claim, stuck_sweep, ownerless_race, expired_accepted | one property each, violated | see [findings](#findings) |

Why these bounds are enough to be of use.  The races in this code are between
two handlers; a third needs nothing new, since a handler keeps nothing but its
own locals.  So each instance has two of whatever overlaps, enough rows for each
to create one and for one more to exist before, and one fault, placed anywhere.
Three tokens let a session be opened, rotated and rotated again while another
request works on it; two password changes let a change fall before and after a
mint.  In the *orgs* focus one change is enough, since what is asked is whether a
right is older than the password; what two organization requests at once do to
memberships is OrgMembership's question.  A clock to 2 with periods 1 and 2 has occurrences that coincide and
occurrences that do not.  Five alert rows in the liveness check are more than its
flips and commands can use, so no create waits for a row.  Two attempts per job
(three in the code) give a first, a repeated and an exhausted run; chunks of
different number let a shorter text leave a chunk of a longer one behind.  Every
action fires in some passing run, and for each property the project names a
plausible bug (mutant) that makes it fail in the same run, so none holds for want
of states.  The proofs then remove the bounds for the properties they cover.

### Fairness

* `ReportSchedule!FairSpec`: weak fairness of `Discover` and of `Work` for every
  tick, and of `OrphanExpires`.  `@Cron(EVERY_MINUTE)` fires on every instance,
  a tick that is not cut short runs its statements to the end, and Redis deletes
  a key whose TTL is over.  No fairness of users or faults; faults are bounded,
  that is, crashes eventually cease.  `LeaseExpires` is not fair: a generation
  may be quick.
* `AlertLifecycle!FairSpec`: weak fairness of `ReportStep` for each report and of
  `SweepStep` for each sweep.  The monitoring cron enqueues a sweep every
  minute, the worker runs what is queued and a handler runs to its end.
  Reports, flips and operators are not fair.
* `RemoteSupport!Fairness`, `NetworkScans!Fairness`: weak fairness of the agent
  (`agent.rs` polls in a loop and every call is answered or given up) and, for
  scans, of `Age`, the passing of three minutes.  Users, revocations, cleanups and
  late calls are not fair.
* `BackupRuns!Fairness`: weak fairness of each slot's `Work`, of `Enqueue` (the
  statement after the insert) and of the queue's `Recover` of stalled jobs
  (BullMQ's stalled check).
* `KnowledgeBase!Fairness`, `SecurityScans!Fairness`, `Inventory!Fairness`: slots
  work, requests and calls that were not cut run on, the agent goes on collecting.
* MC modules repeat these per focus.  Where two foci are in one `WF`, only one of
  them can be enabled in a behaviour, so it is the fairness of that module alone.
* Runs with liveness use no symmetry.

The liveness properties are about what lasts: `OfflineIsAlerted` is
`<>[]Breached => <>[]HasActive`, because an outage shorter than the next sweep
need not be noticed.  The others have the form `[]<>~Bad`: a bad condition (an
occurrence due, an article without its embeddings, a run unsettled) may come but
does not stay.  Their exceptions (`lost`, `cut`, `broken`, `missed`, `ignored`, `overtaken`) are
histories of named events, but for `barred`, which is how an agent was started; each stands for a way in which the code gives up, listed
under [observations](#observations).

## Findings

Four runs show a behaviour of the code that its own comments or reports deny.

* **expired_accepted** (`gw/organizations/invitations.service.ts:340`).  An
  expired invitation is accepted at the second attempt: the first marks the row
  EXPIRED and answers 410, the second finds neither ACCEPTED, REVOKED nor PENDING
  and goes on.  `docs/v1/V1-TEAM-01...md:41`: "expired/revoked/accepted/replay
  denied".
* **ownerless_race** (`gw/organizations/organizations.service.ts:153`).  Two
  Owners leave (or are downgraded, removed, deleted) at once, each counted
  before the other is gone.  `docs/v1/ORG-01C...md:158`: "Last Owner can never
  leave / be removed / self-downgrade".
* **early_claim** (`gw/reporting/report-schedule-executor.service.ts:330`).  An
  instance that re-reads the schedule after another's claim takes the next,
  future occurrence for the one it came for, locks it by its own date and
  generates it.  The comment at line 132 has "process each due schedule".
* **stuck_sweep** (`wk/monitoring-sweep.ts:283`).  A sweep promotes (line 261) a
  slotless alert that an operator resolved after it was read; the RESOLVED row
  keeps the activeKey and every later sweep throws at that device, which is never
  alerted again, nor are the devices after it.
  `docs/v1/V1-MON-01...md:78-79`: "presence rules open an alert on OFFLINE".

## Disagreements

Further statements of the code's documents and comments are properties of the
modules which the code violates.  They are stated beside the ones that hold, and
TLC finds each false in the configuration given; no permanent run repeats them.
The column gives the constants to change in the named cfg, whose INVARIANTS are
to be replaced by the property.

| Property | From | What happens | Where it is said |
| --- | --- | --- | --- |
| `PasswordChangeEndsSessions` | MCAuthSessions.cfg, MaxPassword = 1 | a login that compared the old password mints after changePassword's revocation, as do verifyLoginMfa on a challenge and a switch or leave with an access token from before it | `gw/auth/auth.service.ts:362`: "Revokes all existing sessions" |
| `OneUsableReset` | MCAuthSessions.cfg, Tokens = {t1}, ResetTokens = {k1, k2} | two forgot-password transactions do not see each other's insert | `docs/tech-lead/14_DECISION_LOG.md:56` |
| `GeneratesUnderLock` | ClaimedWhenDue.cfg | generation outlives the TTL, which nobody renews | `docs/AH-3/AH-3D.2E_...md:35`: "only the instance holding both the lock and the DB claim performs generation" |
| `OneActivePerKey` | AlertStuck.cfg, MetricKeys = {m1}, Alerts = {1, 2, 3}, MaxReports = 2, MaxFlips = 2 (INVARIANTS) | acknowledging a RESOLVED alert makes it active without activeKey; a second one opens | `gw/alerts/alert-evaluation.service.ts:26` |
| `ResolvedClearsKey` | AlertStuck.cfg, Alerts = {1, 2, 3} (INVARIANTS) | the promotion of a stale row, as in stuck_sweep | same, line 28 |
| `EveryIncidentTold` | AlertStuck.cfg, PresenceKeys = {}, MetricKeys = {m1, m2}, Alerts = {1, 2, 3}, MaxReports = 1, MaxFlips = 0, MaxCommands = 1, MaxReopens = 0 (INVARIANTS) | a rule deleted during the evaluation makes a later create throw; alerts already created are never notified | same, line 49 |
| `LegacyReconciled` | AlertStuck.cfg, MetricKeys = {m1}, Alerts = {1, 2, 3}, Legacy = {1, 2}, MaxReports = 1, no flips, commands or reopenings (PROPERTIES) | the sweep reconciles slotless alerts of presence rules only; legacy ones are of metric rules | `prisma/migrations/20260806010000_monitoring/migration.sql:26` |
| `NeverOwnerless` | OwnershipSafe.cfg | the admin route downgrades the only Owner; it counts none | `gw/organizations/organizations.service.ts:127` |
| `FallbackResolves` | OwnershipSafe.cfg | switchOrganization makes active an organization the user was removed from since the read | `docs/v1/ORG-01C...md:174` |
| `NeverHomeless` | OwnershipSafe.cfg, Furnished = {} | two leaves of one user both count two organizations | `organizations.service.ts:307` |
| `ErasedEmpty` | OwnershipSafe.cfg (PROPERTIES) | a member who joins during deleteAccount goes with the organization: memberships cascade | `gw/account/account-deletion.service.ts:209` |

## Observations

Met while reading, and not a matter for a run.  Where a model has the behaviour
it is one of the named exceptions of its properties.

Sessions (AuthSessions):

* switchOrganization and leaveOrganization mint a refresh token of seven days for
  the bearer of an access token (`gw/auth/auth.service.ts:579`), also one issued
  before a password change and up to 15 minutes after it;
* verifyLoginMfa mints for a challenge of an earlier password comparison, which it
  does not repeat.

Reports, alerts, organizations:

* the schedule report says crons run in UTC; `calculateNextRunAt` passes no zone;
* the executor accepts fewer formats than the CRUD (`report-schedule.utils.ts:5`);
* the outcome `partial` of a run cannot arise;
* the worker's security alerts (`wk/processors.ts:795, 899`) have no activeKey
  and the default source "metric", so the sweep may auto-resolve them;
* disabling a presence rule leaves its alert open, disabling a metric rule
  resolves it;
* a user removed from the only organization cannot log in to accept another
  invitation;
* in production the invitation's link is returned to nobody and no mail sends it
  (`invitations.service.ts:482`).

Devices and plans (DeviceEnrollment):

* a known device at the plan's limit is refused when it registers again, and the
  use of its token is spent;
* a plan upgrade reactivates inactive devices, revoked ones among them
  (`Reactivated`);
* the guard answers 401 to a device the plan made inactive, and its agent then
  deletes a credential that is still right (`lapsed`);
* a machine that was reset registers as a new device while its old row still
  counts; plan events are applied in the order of their arrival.

Sessions and scans (RemoteSupport, NetworkScans):

* a revocation closes the device's sessions, but a consent in flight opens one
  again, and createSession does not ask whether the device is revoked;
* the second branch of `cleanupStaleSessions` finds nothing (`ActiveIsConsented`
  says why);
* a completed scan is overwritten by an agent whose answer was lost, or by the
  second device of a scan without a target.

Worker (BackupRuns, KnowledgeBase, Inventory, SecurityScans):

* the script that restores a run of another type than file is not among those
  allowed, so such a restore always fails and marks the completed run failed;
* a verification that fails leaves the run a restore point;
* a run stays pending if its job cannot be queued, and running after a second
  stall or a write whose failure was only logged (`lost`);
* an execution beside a redelivered one can overwrite a completed run (`undone`);
* BullMQ ignores an add under the id of a job it has, completed ones included: an
  article edited in that time loses its embeddings and gets no new ones
  (`ignored`; `docs/AH-1/AH-1E_AI_DISCOVERY.md:338` says edits re-embed);
* the worker asks for an embedding at `/ai/embed`, which the gateway does not
  have, and stores its substitute; `chunkAndEmbedArticle` of the gateway has no
  caller;
* an inventory that changes and changes back is not shown while the job of the
  first report is kept (`missed`); a refresh command clears the mark even when
  the upload failed; two refreshes at once may leave one;
* an agent that runs with TF_ORG_TOKEN, as `scripts/enroll-device.sh` runs it, sends
  that token as X-Org-Id and has every inventory report refused with 403
  (`gw/inventory/inventory.controller.ts:33`) until it is started without it; a
  refresh command is answered by clearing the mark all the same (`barred`).  The
  systemd unit does not set the token;
* a fault between a security scan's completion and its last job is final, and the
  findings of a second answer to one scan are stored but never alerted (`cut`);
  the job of the scan raises its alerts again at each of its retries.

Mfa: two verifications that overlap a disabling leave MFA enabled without a secret
(`mixed`), and a code set made while MFA is disabled outlives it (`leftover`;
`gw/mfa/mfa.service.ts:262` says that none is retained).

## Proofs

Every safety invariant and action property that a run checks has a theorem; each
holds for every value of the constants under assumptions that say no more than
this: bounds and numbers of attempts, uses and chunks are naturals (at least one
attempt of a backup job, positive cron periods); `None` differs from the
identities, texts and jobs it stands for the lack of; presence and metric keys are
disjoint; users (`OrgMembership` counts Owners), and devices, enrollment tokens and
requests (`DeviceEnrollment` counts places and uses), are finite in number.  The
assumptions are named in the modules (`BoundsAssumption`, `FiniteAssumption`,
`ChunksAssumption`, ...), or, for a module that a proof module has as an instance,
are the hypothesis of its theorems (`Bounds`, `KbBounds`, `MaxIssued \in Nat`).

All follow one argument: an inductive invariant that TLC checked first,
`Init => IInv`, one lemma per action for `IInv /\ [Next]_vars => IInv'`, and PTL.  An
action property is proved of each step from the invariant; the refinement is
`Init => Orders!Init` and, for each action, a step of DeviceCommands or a stutter
under the mapping.  A proof module extends one component and may have a second
one as an instance: AccountsProofs is about OrgMembership and Mfa, DevicesProofs
about DeviceEnrollment and Inventory, TeamProofs about Invitations and
KnowledgeBase, WorkProofs about RemoteSupport and BackupRuns, ScansProofs about
NetworkScans and SecurityScans.  Variables and constants the two have in common by
name are mere parameters: each theorem is about the specification it names alone.

| Component (module) | Theorems | What the invariant adds, and why |
| --- | --- | --- |
| AuthSessions (AuthSessionsProofs) | TypeCorrect, RefreshTokenSingleUse, SessionHasOneHolder, PasswordChangeRevokes, ResetTokenSingleUse | a refresh refers to a row of its own user (`RefreshingOwnToken`); one that won its compare-and-set has revoked it and nothing was rotated from it (`MintingUnrotated`, `ParentRevoked`), hence single use; what a request may mint goes back to the password in force or to an older one it will be marked with (`MintRight`), access tokens go back to passwords that were (`IssuedPast`), and a live row of an earlier password is marked (`UnescapedCurrent`): the marks are the three kinds of right, check, challenge and bearer; a used reset token has set one password, any other none (`ResetCount`, `ResettingOwnToken`) |
| ReportSchedule (ReportScheduleProofs) | TypeCorrect, LeasesAreExclusive, OccurrencesClaimedOnce, OccurrencesNotLost | a running lease is in Redis under its owner's value (`LeaseHeld`) and keys have one value (`KeyUnique`), hence exclusion; nextRunAt is past every claim but the excused ones (`ClaimsPassed`), which needs that a PATCH writes a date after its reading of the clock (`EditAhead`) and that a tick's next date is later than its occurrence (`WorkingOnItem`) |
| AlertLifecycle (AlertLifecycleProofs) | TypeCorrect, OneAlertPerKey, AlertNotifiedOnce, NoneForgotten | keys of activeKeys are unique and tracked active alerts hold theirs (`Table`); the slotless alerts in a sweep's hands were reopened (`RestReopened`), which is why promotion cannot give a tracked alert's key away; a notification is owed by one process and not yet given (`Notifications`). For the converse, that none is forgotten: what a request or job has in hand at each of its steps is known (`Handlers`), rows of metric rules go with their rule only (`Gone`), and a row is told, owed or excused whatever its status (`EachTold`) |
| OrgMembership (AccountsProofs) | TypeCorrect, OwnersRemain, HomeInvariance, MembersCanLogIn, LastOrganizationKept | what the count said still holds: a request about to take an Owner away leaves another one (`Guarded`), because two requests bound for one organization are noticed (`Apart`), and memberships are of live organizations (`Known`).  For logins: for every user, whose requests never overlapped nor were cut short: a request in flight that took the active organization away still owes another one, whose steps are left to do (`Duty`), requests on one user come one after another (`Serial`), and with none in flight the active organization is one of the user's (`Settled`) |
| DeviceEnrollment (DevicesProofs) | Invariant, TypeCorrect, RevokedCredentialDead; FullInvariant, PlanAndTokensKept, OnlyStaleDeleted | `IInv`: credentials are numbered as they are issued and each is of one device (`Numbered`), who works on a row has found it (`Located`); the device of a dead credential stays revoked, no request being about to clear it (`DeadIsRevoked`), because a re-enrolment rotates before it clears; a revoked device is inactive but for a finished plan change (`RevokedIsInactive`).  `PlacesRight`, for the plan and the tokens: who counted in time and was not overtaken counted right (`RequestRight`, `PlanRight`), an excess is about to be cured by a plan change under way (`Cured`), each credential issued or about to be is matched by a use of a token (`PaidFor`).  That a plan change leaves the plan's number of devices is a fact about counting: of a finite set in a strict order at most n elements have fewer than n before them (`FewAreFirst`, by an injection into `0..n-1`; then `ExcessLeaves` and `YoungestAreFew`), the order being that of registration (`BornOnce`).  `AgentsRight`, for what agents delete: a device refused for its state has lapsed (`KnownLapses`), a rejected service is right or its credential lapsed since (`RejectedRight`), a request is waited for by one process that waits (`Waits`), and no credential is in hand before it is issued |
| RemoteSupport (WorkProofs) | Invariant, TypeCorrect, OnlyConsentedIsActive, OneOpenButForRaces, Implements | a call that reports a session active follows a consent that was written (`CallsFollow`), a call is about a session the agent still holds (`CallHeld`), and a request that was not outrun is right that nothing is open (`ClearIsClear`); each action then maps to one of DeviceCommands or a stutter |
| NetworkScans (ScansProofs) | Invariant, TypeCorrect, OneScanButForRaces, CompletedStays, Implements | a call is its device's own and about a scan the device has still to do (`CallHeld`), a device whose poll is under way has none left (`PollingIdle`), so that its list is one step of taking, and a request that was not outrun is right that it would join nothing (`ClearIsClear`).  MCWork checks the same three on three small settings (`ScansKept`, `ScansImplementCommands`) |
| Invitations (TeamProofs) | TypeCorrect, InvitationConsumedOnce, PendingIsUnique, FinalStatusKept | a request in flight read a row that exists and was neither accepted nor revoked (`Known`), so a later write over such a row is a stale one; uniqueness without counting (`Unique`) |
| Mfa (AccountsProofs) | MfaTypeCorrect, EnabledSecretProven, RecoveryCodesBound | what a request that enables has verified is the secret stored (`EnablingProven`), nobody enrols while MFA is on (`EnrollingOff`) nor makes codes while it is off (`GeneratingOn`), unless the histories tell of an overlap; secrets and code sets are numbered together (`Numbered`), so that an older set is told from a newer secret and an unused code from a used one |
| Inventory (DevicesProofs) | InventoryTypeCorrect, RefreshMarkKept | while a refresh nobody was about to take back waits for its collection, its mark is set and fresh, the agent has no clears left, no late call is on its way and no other user is between the old mark's removal and the new one (`Undisturbed`) |
| SecurityScans (ScansProofs) | SecurityTypeCorrect, FindingAlertedByOneRun | nothing runs a job but its holder, unless a run went on beside the next (`OneRun`); jobs of an answer are queued once, at its end (`Unqueued`); a run that is about to alert has seen that nothing was alerted (`SeesOwn`) |
| BackupRuns (WorkProofs) | BackupTypeCorrect, JobHasOneSlot, RestorePointsVerified, RestorePointsKept | verifications and restores are of runs completed once (`AsksRight`, `JobsRight`, `SlotsRight`); the archive a slot has read is that of the row and passed, while no outrun execution has written it (`ArchiveRead`, `RowsRight`); an execution that goes on although its run is completed is marked as outrun (`OutrunKnown`), because a job in the queue is one slot's (`Owned`) |
| KnowledgeBase (TeamProofs) | KnowledgeTypeCorrect, EmbeddingsOfLastText | unless a run was left beside the next, who runs holds the job (`OneRun`); while no edit is under way, a run has the text of the article and what is stored are the chunks before the one it is at (`RunsRight`); once no run is under way or awaited, all of them and no other (`RestRight`).  Any edit leaves the invariant with nothing to say until its add, which either leaves a waiting job or was ignored |

How to read the properties with exceptions (`OnlyOlderRightsSurvive`,
`ClaimedOnce`, `OwnerKept`, `ConsumedOnce`, ...).  The unconditional statement is
false (findings and disagreements show how).  The theorem says that the
exceptions named are the only ones, and each is a history of something that has
happened in the run, not a state the model may choose.  A repair of the code
removes an exception and should leave the theorem true without it.

## What is only model-checked

* Liveness (`DueIsHandled`, `OfflineIsAlerted`, `RecoveryIsResolved`,
  `PendingIsAnswered`, `ScanCloses`, `RunSettles`, `ArticleIsEmbedded`,
  `InstalledIsShown`, `SevereIsAlerted`): fairness is beyond the prover.  Of
  `ArticleIsEmbedded` the safety part is proved: where the job comes to rest, it
  rests at the right embeddings (`RestingIsEmbedded`).
* Nothing else of the runs that pass.  `ScansKept`, `ScansImplementCommands` and
  `RestorePointKept` of MCWork are conjunctions over its instances of what
  OneScanButForRaces, CompletedStays, `ScansProofs!Implements` and RestorePointsKept
  say of NetworkScans and BackupRuns for any constants.
* The violations.
* That constants of the runs satisfy the assumptions: TLC evaluates those named in
  modules that an `MC` module extends.

## What is not modelled

In the modelled components: session metadata, rate limits, audit rows, mails,
signup and the sessions an account deletion ends in AuthSessions; the content and formats of reports and
the parsing of cron expressions in ReportSchedule (an expression is a period);
the values of alerts, webhooks and the cron's own lock in AlertLifecycle (the
lock is the one of ReportSchedule, and the model lets sweeps overlap as they do
when it lapses); names, slugs, the snapshot User.role and refresh tokens in
OrgMembership; who may invite which role, and an acceptance by the wrong user,
in Invitations; the signed-in registration route, listing and deleting of devices
and the metrics themselves in DeviceEnrollment; recordings, TURN credentials and
the WebSocket relay in RemoteSupport (an agent of this repository never denies);
the devices a scan discovers; schedules of backups, the files of archives;
search and vectors in KnowledgeBase; items of several machines under one name in
Inventory; unsolicited reports and remediation in SecurityScans.

Whole components: mail (one job per message with the queue's retries, whose
outcome nothing reads), the AI router and its circuit breaker (a process-local
counter read before each request; what it guards is external), retention (deletes
rows by age), the web console (pages that show what the API returns),
permissions, dashboards, logging, encryption, SSO (disabled in the code) and the
shared packages.  They keep no state that steps could disorder.  By lines, most of
the repository is the console's pages and these; what is left of the gateway is
mostly listing, mapping of rows to answers and input validation.

## Plan

Done, checked and proved: the safety of AuthSessions, ReportSchedule,
AlertLifecycle, OrgMembership with logins, Invitations, DeviceEnrollment with plans
and agents, RemoteSupport and NetworkScans with their refinements of
DeviceCommands, BackupRuns, KnowledgeBase, Inventory, SecurityScans and Mfa.

Worth doing next:

1. One theorem of membership and sessions together: which organization's token a
   removed member's refresh may still obtain while a switch or a leave rebinds
   rows (the steps are in AuthSessions; the property is not).
2. An abstract job queue that KnowledgeBase, Inventory, SecurityScans and
   BackupRuns share, each of them its client, in place of the queue in each; then
   the proofs' `OneRun` and `Owned` become one theorem about it.
3. KbChunks (`splitIntoChunks`) as a function against a reference definition.
