# Verification of zenv-sh

zenv keeps the secrets of a project encrypted under keys that only its clients
hold.  The API (Go, Postgres, Redis) stores ciphertexts, name hashes and wrapped
keys; the dashboard, the SDK and the build plugin do the cryptography.  Much of
the system is therefore a protocol between clients that hold keys and lists of
some age and a database that several of them write at once, with few
transactions.  That protocol is what this directory models in TLA+, checks with
TLC and proves with TLAPS.

Paths are relative to the root of the repository; `handler/` stands for
`api/internal/handler/`, `dash/` for `apps/dashboard/src/`.

## 1. The system

| Component | State | Operations | Module |
|---|---|---|---|
| DEK rotation: `handler/projects.go`, `dash/lib/rotation.ts` | `project_rotations`, `vault_item_rotations`, the tab's promise chain | start, stage, commit, cancel; fetch, re-encrypt, error page | `DekRotation` |
| Project keys and grants: `handler/projects.go`, `dash/lib/queries/projects.ts` | `project_vault_keys`, `project_key_grants`, cached DEK and members | read and give a grant | `DekRotation` |
| Secrets and versions: `handler/secrets.go`, `secret_metadata.go` | `vault_items`, `vault_item_versions` | create, update, patch, roll back, delete | `SecretVersions`, `SecretHistory` |
| Secrets page: `secrets.tsx`, `dash/lib/queries/secrets.ts` | query cache, open dialog, form, mutation | list, reveal, edit, delete, import, roll back | `SecretsBoard` |
| Vault and sessions: `handler/auth.go`, `middleware/identity.go`, `dash/lib/stores/auth.ts` | `identities`, the unlock flag in Redis, keys in a tab | sign in, set up, unlock, lock, change key | `VaultKeys` |
| Recovery kit and contacts: `handler/recovery.go`, `dash/routes/recover/` | kit and contact columns, `recovery_requests` | regenerate, recover; request, approve, cancel, complete | `VaultKeys`, `RecoveryRequests` |
| TypeScript SDK and Vite plugin: `packages/sdk`, `packages/vite-plugin` | cached key, calls in flight, the dev server | load, get, select; build, poll, restart | `SdkClient` |
| Tokens page: `tokens.tsx`, `handler/tokens.go` | `service_tokens`, cached lists, dialogs of row positions | create, revoke, destroy | `TokensPage` |
| Organizations, projects, navigation: `route.tsx` and pages below `_unlocked`, `dash/lib/queries/orgs.ts` | cached lists, the navigation under way, the wizard | guards; create, delete, re-read | `Workspace` |
| Audit pipeline and retention: `api/internal/audit/` | Redis list, worker's batch, monthly partitions | emit, pop, flush, drain, stop; create and drop partitions | `AuditTrail` |
| Audit page: `audit.tsx`, `search-input.tsx`, `handler/audit.go` | address, box, timer, cache | type, choose, turn the page, list | `AuditPage` |

PROJECT.json lists every component, those that are not modelled too, and every
hazard at its line with the properties aimed at it.

How they interact.  The dashboard, the SDK and the CLI call the API over HTTP;
every handler is a goroutine that runs its SQL statements one by one, each in a
transaction of its own unless it says `BeginTx` (stage and commit of a rotation
do).  The context of a request ends after 30 seconds
(`api/internal/server/server.go:41`) or when the client disconnects; only the
rotation handlers and the granting of access run their statements under it.  A
client that loses its connection does not know how far its request got.  All
tabs of a browser share one session cookie and each keeps its own keys and its
own query cache.  The audit middleware pushes an event to Redis for each request
and one worker writes them to Postgres.  The API accepts the sessions of the
Identity service and keeps its own "vault unlocked" flag in Redis.

What is hard in it, and what makes each part correct:

* *Rotation.*  The tab reads all secrets, re-encrypts them and replaces the key in
  several requests while others write.  Afterwards every secret opens with the
  current DEK and holds its last value; a rotation takes effect at most once,
  entirely, and not after its cancellation; who had access keeps it.
* *Secrets.*  Update, rollback and patch read a row, archive it as they read it and
  overwrite it by id.  A request takes effect once and as a whole, a version number
  means one ciphertext, superseded versions can be restored.
* *Vault and recovery.*  Set-up, recovery and change of key are checks and writes in
  separate statements.  The DEK of a vault is for life, every unlocked tab and every
  backup holds it; a key is replaced only after the waiting period, a cancellation
  stands, an approval serves once.
* *Pages.*  Answers come late, rows move under open dialogs, lists are stale, forms
  start from cached values.  What is shown, saved, deleted, revoked and destroyed
  belongs to what the user saw and typed; neighbouring pages leave no row out that
  the order of times places between them.
* *SDK and plugin.*  Values of one load come from one moment and belong to their
  names, a build never lacks one, a dev server catches up.
* *Audit.*  An event is in one place at a time and reaches a row unless something
  failed; months have their partitions and rows are kept for the retention time.

## 2. The modules

Every module has the constants that bound its instances, with named assumptions, one
action per operation, and its properties at the end; `MC<module>.tla` adds the
values of constants and symmetry for TLC, `<module>Proofs.tla` the theorems; `VaultProofs` holds
those of `VaultKeys` and `RecoveryRequests`, `AuditProofs` those of `AuditTrail` and
`AuditPage`, which is why the two modules of each pair share no names.

**DekRotation.**  One project, its secrets, rotating tabs (`Rotators`) and other
clients (`Writers`).  `rows`, `archive`, `key`, `grants`, `vaulted`, `rotation` and
`staged` are the tables; `pc` is the point `rotateProjectDEK` has reached and `srv`
the next statement of the handler of its outstanding request, apart because a handler
goes on when the tab is gone.  The catch block cancels once, and only when it knows the
rotation: a tab whose cancel was lost or failed, or whose start stands although it was
answered with an error, is `"uncancelled"`.  A ciphertext is the pair of the DEK that
opens it and the value inside.  `exposed` and `bypassed` record the gaps of the code that the
properties exclude: a secret written, or missed by a fetch, while a rotation could
still commit past it, and a grant given from a stale key or behind a member list.

**SecretVersions** and **SecretHistory.**  `SecretHistory` is the promise, seen by
callers of one secret: a request takes effect at most once in one step, "ok" only
after it did, and a rollback restores the ciphertext its version number stood for.
`SecretVersions` is the code, statement by statement, for one secret, and implements
it (`KeepsPromise`).  A failing existence check passes for "absent", a failing archive
insert is only logged, a write to a row that is gone succeeds and changes nothing.

**VaultKeys.**  The users who share a browser.  `identity` and `contact` are the
tables, `cookie` and `flag` the session, `page`, `me`, `store`, `held` and `req` what
each tab shows, keeps and waits for.  A request goes through the points the handler
goes through: sent, checked, written, answered, and its account is the one whose
cookie arrives with it.  `change` is a change of key on another device between
its check and its write.  `crossed` holds the users for whom a tab sent another
user's DEK, which the code does not prevent.

**RecoveryRequests.**  The owner's devices, contacts' tabs and the rows of
`recovery_requests`.  `call` and `approving` are calls that have read a row and are
still to write it; `overlapped` holds requests that two calls handled at once.  The
waiting period ends by an action of its own: the order of the clock and of calls
is free.

**SecretsBoard.**  One tab of the secrets page, its query cache, and a store that
others write.  A query is asked, answered and stored in three steps; a mutation is
served and settled in one, as nothing the properties tell apart happens between.  An
answer carries the number of writes it has seen (`asOf`), which is how "newer" and
"stale" are said.  An invalidation drops the request of a query that has data and joins
one that loads for the first time (`Joins`); `acked` is the last write of the tab that
each query has heard of.

**SdkClient.**  One program: an application with a `ZEnv` instance, a `vite build` or
a dev server with its polling.  A row is found by the hash of its name, the DEK the
hash was keyed with and the text form the client sent.  The requests of a call are
steps; other clients write, rotate and revoke between them.

**TokensPage.**  The lists of tokens under their filters, the buttons of the rows with
their dialogs, the side sheet, the two dialogs that make a token and the mutations
under way with the component that waits for each.  `Render` is what React keeps of
the page's components when the table changes: the button of a position stays as
long as its kind does.

**Workspace.**  The guards of the nested routes, the cached lists they decide from,
the mutations with the re-reads they wait for, the onboarding wizard, and changes
made elsewhere.  A navigation is at one guard after the other: `"session"` is the
read of /auth/me, whose failure leads to /login from every page, /login itself
included (`ToLogin`), then the list of organizations, the organization, the project.

**AuditTrail.**  The Redis list, the worker's loop with its batch and timer, drains,
stop, crash and restart, and the daily pass over a calendar of months with `Lengths`.

**AuditPage.**  The address last navigated to (`latest`), the one the page is rendered
for (`address`), the box with its timer, the answers cached per address, and a log
that grows and is dropped from.  `log` is in the order of commits, while a row's time was
stamped before; `Cuts` are the pages that an order by time alone may give, with rows of
one time in any order.  The handler counts in one statement (`Count`) and reads the page
in the next (`Serve`).

### What is simplified

* Cryptography is ideal: what is encrypted under a key opens with that key only, a name
  hash is the pair of key and name.
* *DekRotation:* `staged_items`, `total_items` and an item's `dek_version` decide
  nothing and are left out; the archive is a set; a list page is any `PageSize` rows;
  two commits wait for each other's row locks, so a commit is one action.
* *VaultKeys:* a value is generated when it is first needed; the form fields that are
  compared with nothing are left out.
* *SecretsBoard:* create and import are atomic per secret; `Made` bounds the names the tab
  creates; sorting is fixed, searching, decrypt errors and binary secrets are not modelled.
* *SdkClient:* the token check and the statement behind it are one step; a restart
  makes the new plugin instance in one step; the 120 ms delay is merged with it; the
  network becomes steady once and stays so.
* *TokensPage:* expiry and permissions of tokens are left out; one dialog is open at a
  time, as they are modal.  After a failed first list the code shows an empty table
  (`tokens.tsx:135`) where the model goes on loading: neither has a row to act on.  The
  columns are made anew by every render, so row buttons may remount and close their
  dialogs; the model keeps a dialog with its position, which allows more.
* *Workspace:* the user starts without an organization; one mutation is under way at
  a time; request and answer of a mutation are one step, a lost answer is `SaveFails`
  after the effect; `Visit` and `Refresh` wait for the navigation and the read under
  way; the organization page stands for dashboard, project table and settings.  The user
  has a vault, so the redirects to its set-up are left out; /login shows the unlock page
  at once, as it has just read /auth/me; a reload skips that page and begins at "/".
* *AuditTrail:* `faults` is one budget for Redis errors, abandoned requests, failing
  statements and crashes; a drain is any number of single pops, and one
  drain holds an event at a time; the worker may pop
  once more after it was cancelled.
* *AuditPage:* the texts typed are the logged actions in full, so that matching is
  equality; a partition goes with the rows up to the time of some row.

## 3. What is checked

| Run | Instance | States | Shows |
|---|---|---|---|
| `tabs` | 2 rotating tabs, 1 writer, 2 secrets, pages and batches of 1; fetch errors, lost replies | 1.36 M | secrets readable, grants current, versions unambiguous, rotations counted, no staging left |
| `settles` | 2 tabs, 2 environments, failing statements and commits, lost replies and cancels, closed tabs, fair | 185 k | `EveryRotationSettles` |
| `history` | 2 clients with 2 requests each, failing statements | 1.4 M | `QuietVersionsKept`, `QuietMetadata`, refinement of `SecretHistory` |
| `vault` | 2 users, 2 tabs, 1 other device, 2 random values, failures and lost answers | 1.72 M | tabs and backups hold the DEK, the DEK is for life, words reach their user |
| `kit` | 1 user, 1 tab | | `VaultsOpen` fails (section 7) |
| `requests` | 2 devices, 2 tabs of a contact, 2 requests, failures | 2.34 M | `ReplacedAfterWaiting`, `CancelStands`, `RecoversOnce` |
| `board` | 2 environments, 2 names, a secret of two versions, 1 further write | 798 k | values belong to their secret, own writes show, saves and deletions are of what was seen and typed |
| `client` | 2 names, 2 values, 1 write, 1 rotation, 2 polls | 382 k | values of one moment, no answer after revocation, no build without secrets, `DefinesCatchUp` |
| `tokens` | 2 tokens, 2 names, 2 filters, 1 mutation at a time per page | 855 k | only revoked tokens destroyed, targets were typed, no plaintext superseded |
| `workspace` | 2 organizations, 2 projects, lists of 1, 3 changes | 689 k | what the tab made opens, what it deleted stays shut, deletions were typed, navigations end or lead to /login |
| `audit` | 3 events, batches of 2, months of 3, 2 and 4 days, 1 restart, 1 fault | 382 k | one place each, a steady server loses nothing, rows kept, queued events leave |
| `page` | 3 rows and 1 that arrives, 3 times, pages of 2, 2 edits | 1.77 M | choices hold, pages leave no gap, box and address agree |

*Why these bounds are enough to be interesting.*  Two is the smallest number of tabs
that both pass a count, of clients that read the same version, of polls that overlap,
of users who cross sessions, of tokens where a row can move into another's place.
Two secrets with batches and pages of one make a rotation with something staged and
something not, and a second page.  In `board` one write, by
this tab or another client, falls between any two steps of the reads of the list and the
values.  Months of three, two and
four days have a day that the next month lacks and one that the month lacks where the
retention ends, as February and a leap year do.  One fault is enough to tell "nothing failed" from the rest, and
which one it is, is free.  Two edits let a text and
a result or a page be chosen before the first has arrived.  Pages of two over three rows and a
fourth let rows of one time, or a row that is committed late, fall on the border of
two pages: without either exception of `PagesLeaveNoGap` the run finds it violated.  Bounds with no counterpart in the code (`MaxOps`,
`MaxCalls`, `MaxFresh`, `MaxWrites`, `MaxEdits`, `MaxFaults`, ...) only make
instances finite: the theorems of section 5 hold for all of them.

In `tabs` there is one writer, so `VersionIdentifiesCiphertext` meets two writers
only in the proof, which covers any number, and in `history`, whose refinement
has a version number stand for one ciphertext.

Identical tabs, clients, values, devices and requests are permuted by symmetry where a
run checks safety only.  Deadlock is not checked where clients stop after a bounded
number of requests.  Each property of a passing run comes with a mutant, an
operator defined just before the one it changes, that resembles a plausible slip; under
it the run finds the property violated.

## 4. Fairness

* `DekRotation!FairSpec`: weak fairness of each tab's `Progress`, its promise chain and
  the handlers it reached.  JavaScript runs its continuations, and a handler's
  statements end with the request's context, in success or in error.  The tab may be
  closed and a cancel may fail: `EveryRotationSettles` promises nothing of such a tab.
* `SdkClient!Spec`: requests are answered or fail, the event loop runs what has
  arrived and the interval fires.  `DefinesCatchUp` further assumes, in its own
  statement, a network that stays up, a token in force and secrets in place.
* `Workspace!Fairness`: the router runs its guards and a read is served and delivered.
  Nothing is assumed of a navigation to /login, which /auth/me may fail for ever.  Users, mutations and other members owe nothing.
* `AuditTrail!FairSpec`: the worker's loop goes on, and, strongly fair, `TimerFlush`:
  the loop's `select` takes the ready timer channel rather than its `default`, and
  it comes by between any two pops.
* `AuditPage!PageFairSpec`: the pause ends and a navigation lands.

No user's action, statement or request is assumed to happen or to succeed.

## 5. What is proved

The theorems hold for every value of the constants: any sets of secrets, tabs, clients,
users, contacts and names, any page and batch size, any number of operations, with or
without failures and losses.

| Module | Theorem | States |
|---|---|---|
| `DekRotationProofs` | `TypeCorrect` | `[]TypeOK` |
| | `RotationKeepsSecrets` | `[]QuietSecretsReadable` |
| | `RotationKeepsGrants` | `[]QuietGrantsCurrent` |
| | `StagingIsCleanedUp` | `[]NoOrphanedStaging` |
| | `RotationsAreCounted` | `[]VersionCountsRotations` |
| | `CompleteMeansReplaced` | `[]CompletedReplacedKey`: no more complete rotations than replacements of the key, with a failing database too |
| | `VersionsAreUnambiguous` | `[]VersionIdentifiesCiphertext` |
| `SecretVersionsProofs` | `TypeCorrect` | `[]TypeOK` |
| | `SupersededVersionsKept` | `[]QuietVersionsKept` |
| | `MetadataFollowsPatches` | `[]QuietMetadata` |
| | `HandlersKeepPromise` | `KeepsPromise`, the refinement of `SecretHistory` |
| `VaultProofs` | `TypeCorrect` | `[]TypeOK` of `VaultKeys` |
| | `DekSafety` | the inductive invariant behind the next three |
| | `UnlockedTabs` | `[]TabsHoldTheirDek` |
| | `Backups` | `[]BackupsOpenVault` |
| | `DekKept` | `DekIsForLife`, an action property |
| | `KitWords` | `[]KitWordsReachUser` |
| | `RecoveryTypeCorrect` | `[](RecoveryTypeOK /\ Waiting)` |
| | `WaitedFirst` | `[]ReplacedAfterWaiting` |
| | `CallsAlone` | `[]Calm`, the invariant behind the next two |
| | `CancelHolds` | `[]CancelStands` |
| | `OneRecovery` | `[]RecoversOnce` |
| `AuditProofs` | `OnePlaceEach` | `[]ExactlyOnce` |
| | `TypeCorrect` | `[]TypeOK` of `AuditTrail` |
| | `SteadyKeeps` | `[]SteadyServerLosesNothing` |
| | `RowsKept` | `KeptForRetention`, an action property |
| | `PageTypeCorrect`, `Choices` | `[]PageTypeOK`, `[]ChoicesHold` |
| | `Cached` | `[]Snapshots` |
| | `NoGaps` | `[]PagesLeaveNoGap` |
| `TokensPageProofs` | `TypeCorrect` | `[]TypeOK` |
| | `OnlyRevoked` | `[]DestroysOnlyRevoked` |
| | `TypedName` | `[]TargetHasTypedName` |
| | `PlaintextKept` | `[]PlaintextNotSuperseded` |
| `SecretsBoardProofs` | `TypeCorrect` | `[]TypeOK` |
| | `OwnValues` | `[]ValuesOfTheirSecret` |
| | `OwnWrites` | `[]OwnWritesShow` |
| | `Saves` | `[]SavesWhatTheFormShowed` |
| | `Deletes` | `[]DeletesWhatWasTyped` |
| `SdkClientProofs` | `Invariant` | the inductive invariant behind the next three |
| | `TypeCorrect` | `[]TypeOK` |
| | `ValuesOfOneMoment` | `[]LoadedAsStored` |
| | `NothingAfterRevocation` | `[]RevokedMeansNoAnswers` |
| | `CompleteBuilds` | `[]BuildHasSecrets` |
| `WorkspaceProofs` | `Invariant` | the inductive invariant behind the next four |
| | `TypeCorrect` | `[]TypeOK` |
| | `CreationsOpen` | `[]OwnCreationsOpen` |
| | `DeletionsStayShut` | `[]OwnDeletionsStayShut` |
| | `TypedFirst` | `[]DeletionWasTyped` |

*Assumptions.*  Those named in the modules: the placeholder constants (`None`, `Nothing`,
`Gone`, `Asked`, `All`) are no data, and sizes are natural numbers.  Three theorems assume more,
in their own statements.  `RotationsAreCounted` assumes finitely many tabs and
`DbFailures = FALSE`: when the acknowledgement of a COMMIT is lost, the handler marks
an applied rotation as failed and the count is off.  `CompleteMeansReplaced` needs only the
finitely many tabs: what is recorded as complete did replace the key.
`HandlersKeepPromise` assumes that no client uses `set()`, which is two requests.  The
audit trail assumes a retention of more than one month; the server's is twelve.

*DekRotation.*  That secrets stay readable is not inductive: a commit keeps a secret
readable because it was staged with its last value, which holds because it was in a
batch, because it was fetched, because it was listed.  `QuietSecretFollowed` says how
far each rotation that may still commit has come with each quiet secret; `Phases`
which request can be outstanding in which state of the tab, as a handler may outlive the
tab's interest.  The steps that could break it are writes by others, and those mark the
secret exposed.  For grants, `GrantHoldersListed` says that a rotation that may still
commit lists every quiet holder of a grant.  For version numbers, `VersionsAgree` speaks
of archived copies and of those that a handler has read and is about to archive.

*SecretVersions.*  The invariant is what a handler still knows (`Knows`): as long as the
row it read exists under the same id, what it read is one of the versions so far, and so
is the rollback's target; ids are not used again, so a row that is gone stays gone for
it.  `Keeps` adds that a handler about to overwrite the version it read has archived it or
failed to, `Good` that its copy of the metadata is outdated only if a patch took effect
since.  For the refinement, `Effect` says that a handler at its last statement has
taken effect or finds the row gone, so that "ok" is never answered for nothing.  Each
action then is a step of the promise or leaves it as it is: `CreateInsert`, `Write` and
`Delete` take effect, an answer is an answer, and the others stutter.

*VaultKeys.*  `DekInv` follows the DEK of a vault to every place that can write it back:
the key a tab holds, the key a page has just unwrapped, the body of a request under
way and of the change another device is making are all of the vault's DEK
(`Genuine`, `Carried`), and so are kit and contact (`Backed`).  It is inductive only with
the users for whom a tab sent another's DEK set apart (`crossed`): the request's
account is that of the cookie when it arrives.

*RecoveryRequests.*  `Waiting` says that a request that a call has read as approvable,
or that is approved, has waited.  `Calm` says what a call that handles a request alone
knows: what it read still holds, so a request is pending under its approval, approved
under its completion, and a cancelled one is in nobody's hands.  Requests that two calls
hold at once are in `overlapped`, as the code's updates have no guard.

*AuditTrail.*  `Places` keeps the sets of events in the request, list, batch, table and
lost apart.  `Ahead` is why a steady server loses nothing: at every midnight there are
partitions for this month and the next, which a pass of any day that all months have
sustains, and the rest of the argument is that nothing else drops the month of a row.

*AuditPage.*  `Snapshots`: a cached answer is still a page of the rows that had been
committed when it was read, without those dropped by then: a commit appends to `log`,
wherever the row's time belongs.  `PagesLeaveNoGap` follows by counting.  A row between
two neighbouring pages that is on neither, and shares its time with no other, is
among the rows before the further page, together with all of the nearer page and what was
before that; these are one more than the offset of the further page.

*TokensPage.*  Rows of any age tell of tokens that exist, whose name is the same and
which never return to force (`RowsKnown`); the button of a position has the kind its
row had, so the dialog that destroys is only ever on a revoked row (`ButtonsFit`);
requests under way keep what was typed (`ReqsSound`).  A plaintext is not superseded
because a dialog has one mutation under way and none while it shows a plaintext
(`OneEach`, `Shows`).

*SecretsBoard.*  A request under way is for a query on the page and was asked for the
page's environment (`FlyFits`), so that its answer is of the secret it is stored for
(`FlyTells`, with `StoreTells` for the project).  Since nothing else is under way, a
write drops all requests it could make stale except the first loads it joins, and what is
fresh or answered has seen the tab's own writes that its query heard of
(`OwnWritesSeen`).  The edit form is what the cache has
(`FocusFits`), which is why a save knows the newest version read (`PendFits`).

*SdkClient.*  A call gets its key before it asks for anything and what it asks for is
fixed from then on, so the answer that reaches it is the answer to its question.  The
answer to a whole load is a set of rows of one moment that the token's check let
through, with one row per name hash, and whatever opens under the call's key is the
value stored under that name; the rest is left out by decryption.  A value
reaches a caller only after a token check, so a call that was begun after the
revocation has none, and the load of a build fails or has every name of the schema.

*Workspace.*  What this tab made is in the cached list and in the copy of it that is on
its way, unless the mutation is having that list read anew (`Shows`); what it deleted is
in neither (`Hides`).  A re-read that the mutation waits for and that is lost excuses the
item, any other loss leaves the cached list as it was.  A deletion has to be followed in
one list only because a project is never listed, shown or navigated to under an
organization other than the one it was made in (`Fits`).  The dialog of an
organization's deletion is safe because the organization page is shown only with the
detail read (`PageFits`).  The least element that "/" leads to is a member of the list by
a well-founded ordering of the finite subsets, which stands in for induction.

## 6. What is only model-checked

* Liveness, which TLAPS does not reason about under fairness: `EveryRotationSettles`,
  `DefinesCatchUp`, `NavigationEnds`, `QueuedEventsLeave`, `BoxAndAddressAgree`.
* `VaultsOpen`, which a run shows violated.

Every invariant and action property of a passing run is stated by a theorem, two of them
under the assumptions named above.

## 7. What the runs and the models found

A run shows `VaultsOpen` violated: `recover/kit.tsx` sends an empty wrapped private key,
`RecoverWithKit` (`handler/recovery.go:322-338`) stores it, and the vault cannot be
unlocked with the key that was just set, as unlocking decrypts that private key.

The models further follow the code where it departs from what one would expect; the
properties exclude these cases by name, or the note says why none speaks of them:

* A rotation asks for no page and gets 50 secrets per environment; the rest keeps a key
  that the commit discards.  It does not recompute the name hashes, so no secret is
  found by name afterwards.  After a lost reply the error page says that the rotation
  was cancelled, though it may be staging or have been committed (`DekRotation`).
* A rotation stays in staging, and every later start is answered with 409, when the start
  stands but is answered with an error, when the tab is closed, or when the cancel is lost
  or its DELETE fails (`handler/projects.go:832`): `rotation.ts` cancels once and ignores
  the error.
* A secret written while a rotation may still commit past it (`exposed`), and a grant
  from a stale key or behind a member list (`bypassed`), are not carried over.
* Two updates that read the same version both archive that one, and the value the first
  wrote is lost (`unkept`); an update may overwrite a concurrent metadata patch (`mixed`).
  `ZEnv.set()` resolves although neither of its requests stored the value.
* A tab whose cookie has become another user's can store its DEK there (`crossed`).
  Changing the key leaves a session of another device unlocked for up to 24 hours
  (`handler/auth.go:151`).
* An approved recovery cannot be completed by the owner who lost the key, as the handler
  is behind `RequireVaultUnlocked` (`api/internal/server/v1/routes.go:95`).  Two calls that
  handle a request at once can undo each other (`overlapped`).
* The sheet of the secrets page keeps the history of a secret of the same name in
  another environment; the create callback of an unwatched list does not re-read it.
* A secret created or imported while the page's list loads for the first time can be
  missing from the list that is then stored as fresh: the invalidation joins that load
  (`Joins`, `dash/lib/queries/secrets.ts`).
* /login redirects to itself as long as /auth/me fails (`dash/routes/_auth/route.tsx:10`),
  so a user who is signed out is sent there by every page and gets no further.
* Rows of the audit log with equal times may be ordered one way for one page and another
  way for the next, as the order has no tie-breaker (`handler/audit.go:150`), and a row
  that is committed after a page was read may be older than it, as it is stamped before its
  INSERT (`audit/writer.go:205`): such a row can be on neither of two neighbouring pages.
* `load()` sees only the first 50 secrets.  The SDK writes name hashes in hexadecimal,
  the API reads base64.
* On the 29th to 31st, the daily pass computes months with `AddDate`, which runs over into
  the month after: a start on such a day can leave the next month without a partition
  (`uneven`), and on a 29 February the cutoff a year back is 1 March, so that the
  partition of that March is dropped a month early.  `KeptForRetention` speaks of all
  other days.  Partitions are dropped whole at the beginning of their twelfth month,
  so the last rows of a month are kept for eleven months.

## 8. What is not modelled

* Members, invitations and sign-up pages are thin forms over the calls of the Identity
  library; the auth client and the user lookup are stateless; the Go SDK only reads; the
  CLI is sequential; widgets present; the store, API documents and documentation site are
  generated.
* Preferences are one atomic jsonb merge per request; only their late arrival matters.
* Request validation (missing fields, malformed base64) rejects before the first
  statement and is left out; metadata validation, which comes after a read, is
  `RejectMetadata`.
* Authorisation is left out, except where a guard decides a protocol: clients are those
  the middleware admits.
