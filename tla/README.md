# Infrix: verification project

Infrix is an asset-management application for data centers: a Django/MariaDB
backend (`src/backend`), a Vue single-page application (`src/frontend`) and shell
scripts that install it on one host (`src/deploy`).  This directory holds TLA+
models of the parts of it where concurrency, failure and ordering decide whether
the data stays right, the TLC configurations that check them on small instances,
and proofs, checked by TLAPS, of the theorems that matter most.

Every definition is translated from the code; `PROJECT.json` maps each one to its
lines.  The database is MariaDB at READ COMMITTED (`config/settings.py`), so a
statement sees what was committed when it started, and `SELECT ... FOR UPDATE`
reads and locks the present rows.  All models of transactions rest on that.

## 1. The system

| component | state it keeps | operations | interacts with |
|---|---|---|---|
| Maintenance gate (`maintenance_gate.py`, `middleware.py`) | `state.json`, flocks on `controller.lock` and `access.lock` | admit a request, open and close a maintenance window, probe a stale marker | every request; backup, restore, digest |
| Backup and restore (`backups.py`) | archives, media tree, database, marker | backup, restore, recovery, deletion of archives | gate, all data |
| Web maintenance (`web_maintenance.py`, `operations.py`) | receipts, `web-operation.lock`, a detached worker | submit, execute, status | gate, backups |
| System reset (`system_reset.py`) | all business tables | empty them in one transaction | every insert, settings |
| Spare-part stock (`stock.py`, `idempotency.py`) | balances, immutable ledger, receipts of keys | movements, usages, retries | rooms and centers, repairs, browser |
| Physical location (`physical_location.py`, `rack_reservations.py`) | rack allocations, the center copied on assets, U holds | place, remove, move, reserve, release, patches of facilities | assets, stock, inventory |
| Rack planning (`rack_planning.py`) | none | plan a batch of devices | rack placement follows the plan |
| Faults and repairs (`repair_writes.py`) | faults, rounds, asset status and its snapshot | open, record, edit, finish, reopen, delete | assets, stock usages |
| Asset records (`asset_writes.py`, `asset_batches.py`, `imports.py`) | assets, holders, disposals, revisions | create, import, edit, place, assign, dispose, archive, restore, one by one and in batches | location, persons, data scope |
| Data scope (`data_scope.py`, `identity_writes.py`) | grants, `scope-N.lock` | filter, check, revoke | every request |
| Inventory counts (`inventory_writes.py`) | tasks, items with frozen snapshots | create, observe, confirm, resolve, complete, reopen, delete | assets, location |
| Reference data (`reference_writes.py`, `reference_rules.py`, `fieldsets.py`, `asset_configuration.py`) | fields, options, sets, models, values, departments | edit, import, remove | assets, persons |
| Accounts and directory (`identity_writes.py`, `ldap_auth.py`, `ldap_configuration.py`, `signals.py`) | accounts, identities, persons, configuration | create, edit, provision, delete, reconfigure | directory server |
| Sign-in (`auth_throttle.py`, `admin_auth.py`, `auth_security.py`) | counters of failures, sessions, second factors | log in, verify, set up, disable | accounts |
| Settings (`system_settings.py`, `branding.py`) | one row | patch, patch of the branding, reset | reset, digest, mail |
| Notification digest (`notification_delivery.py`) | one row per recipient and day, a suppression date outside the database | send, retry, suppress after a restore | gate, backups, SMTP server, alerts |
| Reminders (`reporting/alerts.py`) | none | list and count what is due | five tables, scope, digest |
| Timeline (`audit.py`, `timeline.py`, `timeline_scope.py`) | append-only audit rows with evidence | write, show | assets, counts, scope |
| Depreciation, licences (`depreciation.py`, `license_status.py`) | none | figures of a day | assets |
| Reports, HTTP surface, frontend, deployment | rows and files | queries, views, scripts | all |

What is hard, and hard to test: requests of several gunicorn workers interleave
at every lock; checks are made on rows read before a lock was granted; processes
are killed between two writes to two stores that no transaction spans, while
their database client goes on; browsers retry what may have been done; mail
servers and directories do not answer; a restored database has forgotten what
happened since; rights change between two steps of a request; what is shown long
after an event must follow what the event was about.  `PROJECT.json` lists these
hazards at their lines, with the property that covers each, or the reason why none
does.

## 2. Modules

```
MaintenanceBarrier   abstract: who may be inside              <- refined by MaintenanceGate
MaintenanceGate      flocks, marker, probes, kills               MaintenanceGateProofs
RowLocks             SELECT ... FOR UPDATE, shared by the models of transactions
StockMoves           places and movements, shared by
StockBook            abstract: intents applied one at a time  <- refined by StockLedger
StockLedger          transactions, keys, retries                 StockLedgerProofs, MCStockLedger
RackUnits            spans of U and the rule for one-U gaps, shared by
RackMap              abstract: one owner for each U           <- refined by RackPlacement
RackPlacement        transactions on racks and assets            RackPlacementProofs, MCRackPlacement
RackPlanning         plan_rack_capacity, followed or ignored
AccessMonitor        abstract: what a data scope promises     <- refined by AssetRegister
AssetRegister        transactions on assets under data scopes    AssetRegisterProofs, MCAssetRegister
InventoryCount       transactions on tasks, items and places     InventoryCountProofs, MCInventoryCount
RepairLifecycle      transactions on faults and rounds
NotificationDigest   runs, rows, lost answers
Alerts, Timeline, Valuation      what is computed from rows when it is asked for
  Operations         RepairLifecycle, RackPlanning, NotificationDigest and these three,
                     side by side                                OperationsProofs
BackupRestore        two stores, archives, marker, crashes
WebMaintenance       receipts, a detached worker, polls
SystemReset          one transaction over forty tables
  Recovery           these three, side by side                   RecoveryProofs
Settings             patches, the reset in two steps
Accounts, SignIn, Catalog
  Administration     these and Settings, side by side            AdministrationProofs, MCAdministration
```

A definition that a comment calls *Mutant* is a plausible bug: it takes the place
of the definition after it in a run that must then fail.  Nothing else uses it.

`Recovery`, `Operations` and `Administration` check components that share no state
any of them depends on.  Each instantiates its components and lets a behaviour be
about one of them (`study`, chosen in `Init` from the constant `Studies`); the
variables of the others are `Unused` in it.  That is the union of their state graphs
and nothing is abstracted by it; to look at one component alone, give `Studies` one
member.  The properties have the names that they have in the component and are
explained there.

### MaintenanceGate

One action is one system call that another process can observe.  `ReadMarker`,
`ProbeController`, `RecheckMarker` and `CloseProbe` are `_reject_active`;
`TakeShared` is the flock of `business_access`, after which `_reject_active` runs
again; `Finish` is the release after the last byte of the response.  A run goes
through `StartRun`, `OpenWindow`, `Drain` or `DrainTimeout`, its body (`MarkDirty`,
`SpawnClient`, `ClientExit`, `Complete`, `LeaveBody`) and the finally clause, call
by call.  `KillRun` and `KillRequest` may come anywhere; a MariaDB client that
outlives its run keeps `controller.lock`, which it inherited (`pass_fds`).  Writing
the marker may raise.  A marker that cannot be parsed, which refuses everybody, is
left out.  `MaintenanceBarrier` has neither locks nor markers; the gate implements
it with `inside <- Admitted`, `window <- exclusive`, `working <- clients` and
`closed <- (marker = "dirty")`.

### BackupRestore

The database is the set of files that its rows refer to, or torn; the media tree a
set of files; an archive both with its manifest.  One action is one step after
which a crash leaves something different: references are read, the dump is taken,
the archive is published, the safety backup is recorded in the marker, trees are
renamed, the marker is made dirty, the import runs, references are verified, sessions
are deleted, the marker is cleared.  Each may raise, and the process may be killed
anywhere, its SQL client left importing.  That a run is alone is the gate's
doing: users act only while the site is open.  What a validator finds inside an
archive, leftover temporary directories and archives of format 1 are left out, and so is
an `fsync` of the directory that raises after the new marker is already in place: a write
of the marker either happens or raises and changes nothing.

### WebMaintenance

`Submit` writes the receipt under `web-operation.lock` and `Spawn` starts the worker,
which inherits the descriptor: the lock is held as long as any of `holders` lives.
The worker goes through `Run`, `Enter`, `Authorize`, `Overwrite`, `Finish` or `Fail`, and
`Report`.  A page polls (`Watch`): it reads the receipt, tries the lock if it is
unfinished, reads again, and concludes.  HTTP workers, pages and workers may die
anywhere; operations from a shell take the window too.  The token that a page shows
and the durability of a written file are taken as they are.  That a receipt can no longer
be asked for 24 hours after the start is left out.  A worker that a run from a shell, or a
dirty marker, keeps out of the gate fails in `Enter`.

### SystemReset

Tables with their references, cascades, protections and what Django's collector does
with each are taken from the schema (`FacilityRefs` to `AccountRefs`); a row is a
table and the rows it refers to.  `DeleteTable` empties the next of the tables in the
order of the code, `Commit` ends, `Insert` is any other request that commits a row in
between, and a reset that meets a protected reference fails as a whole.  Before it, one
row of each table stands for all; what is inserted beside it has rows of its own, any number
of them.  `DeleteAdministrator` is a shell on the host, which may take away an account that
the reset has decided to keep.  Sessions, groups and the log of the administration site, which
refer to accounts only, are apart.

### StockLedger

A call is `execute_once` around a movement or a usage: `Call`, `Replay` of a stored
answer, `LockPart`, `LockPlaces`, `Settle` (checks under the locks), `Commit`.
Facility writes (`PatchRoom` to `MoveRoom`, `PatchCenter` to `CloseCenter`) and the
completion of a repair compete for the same rows.  An answer may be lost and the
user retries with the same key.  `Abort` is any rollback: a deadlock victim, a lock
wait that timed out, a lost connection, a crash.  A refused call is refused once
it holds all its locks (the code may give up earlier, holding fewer).
`StockBook` applies each intent in one step and demands that the book be sound
afterwards; each `Commit` is such a step.

### RackPlacement and RackPlanning

A request reads the ancestry of its rows without locks (`Graph`), locks what it
saw, then the allocations and assets of the locked racks (`LockAssets`), ends its
locking with a query that joins the *present* parents `FOR UPDATE`, checks, and
commits.  Racks and rooms may have moved in between; that is the point.  Reserved
and closed racks are one state here.  `RackMap` has neither spans nor locks nor
requests: a row of U for each rack, each with one owner or none, into which devices and holds
are put only where U are free; `RackPlacement` implements it, with the owner of a U found
from the spans (`OwnerOf`).  `RackPlanning` computes the plan of
`plan_rack_capacity` and follows it by single-asset writes, each of which must
pass the same rule (`RackUnits!Fits`), or ignores it and places freely, which
shows that no order of legal writes fits more than the capacity it reports.

### AssetRegister and AccessMonitor

A request takes the shared lock of its user's scope, reads the scope once, and is
then either a read, answered from a snapshot (`Answer`), or a list of assets, each
written in a transaction of its own (`Lock`, `Check`, one commit per command).  A new
grant takes the lock exclusively (`SaveGrant`).  `AccessMonitor` has sessions that
show and change rows covered by one rule of the grant, and grants that change only
while their user has no session; the register implements it.  The rows of one
transaction are locked all at once (their order is RackPlacement's subject); an
exclusive scope lock that is refused waits as long as it takes; managers of the
organization see everything and take no scope lock; roles and the deactivation of
the user are not coordinated with requests by the code and are left out, as are
tags, custom values and a direct change of status.

### InventoryCount

One task, created over a center, a room or everything, and one item per asset.  A
request names its locks from unlocked reads (`ListScope`), takes them (`Admit`),
checks under them and commits; one that puts an asset into a rack also locks the room and
the center that the rack has by then (`Joined`).  Racks and rooms move and close meanwhile.  A rack
stands for one range of U.  The size limit of a task is left out.

### RepairLifecycle

One request is one transaction that locks its fault, checks it against the round
its client had read, locks the asset, reads the asset's other faults, and commits
fault, rounds and asset together.  What it wrote before it waited for the asset is
visible to others only at the commit.  `normal` is a history variable: the status
that a user set last.  Times of rounds and repair attachments are left out.

### NotificationDigest and Alerts

A run compares the suppression date with today, asks for today again, claims row
by row under a lock, contacts the server without it, and saves.  Runs overlap,
die, and cross midnight; answers are lost; a restore brings back older rows
and leaves the suppression date.  What a digest says is in `Alerts`: five queries cut at
the limit, merged, sorted and cut again (`Shown`), and counts by queries of their own
(`Critical`, `Warning`).  An alert is urgent by level and date, names only break ties; the
list and the counts of one answer are taken to read the same rows.

### Timeline

Each write of an asset, a fault, a part, a count adds an audit row with the evidence
that `audit.py` freezes; `Changes` is what a reader with a scope of today is shown of
it.  `about`, which the code does not keep, is what the event really was about.  Rows of
older versions, and the status rows that faults write without a place, are hidden from
scoped readers.  Kinds, titles and metadata of events are abstracted.

### Valuation

`Figures` is the straight-line plan on a day of a calendar of short, unequal months,
`StatusValue`, `StatusExpression` and `Filtered` the three forms of a licence's status.
Amounts are exact fractions until they are rounded (the code divides with 28 digits);
the figures shown add up to within a cent.

### Accounts and SignIn

Operations that hold the row of the account from their first read to their commit are
one step; those that do not, creation, first login and the change of the
configuration, are two or more (`CheckCreation`, `CreateAccount`; `RouteToDirectory`,
`Answer`, `CheckFirstLogin`, `FirstLogin` or `LoseFirstLogin`; `CheckConfiguration`,
`SaveConfiguration`).  The directory changes by itself.  An account has one role, names do
not differ in case, the deactivation of persons and persons made for accounts that chose
none are left out.  In `SignIn` a request goes through the lock-out, the counters, the
password and the code, through the API or the administration site.  The clock counts the
steps of the codes; whether a password is right is an input.  The time used for a lock-out
is the one just before its rows are locked, no step of the clock apart; audit rows and
secrets that cannot be decrypted are left out.

### Settings and Catalog

`Settings` is one row, its revision, the forms that were read, and the two halves of the
reset (`ReadForReset`, `SaveReset`); a column is filled or not.  In `Catalog` a request locks
its rows at once, checks, and commits; what it reads besides is not locked, and `raced`
records a commit that relied on what had changed.  Assets archived while their sets
changed are not looked at by the code and are set apart (`aside`).  Departments are moved
under the lock of one row for the whole tree.  Revisions, inactive sets, creation and
deletion of sets, unique names and the kinds of field other than text and choice are
left out.

## 3. Runs

| run | instance | what it shows |
|---|---|---|
| `gate` | two requests, two runs, two kills | `AdmittedIsSafe`, `LiveMarkerStays`, `DirtyUntilVerified`; the refinement of the barrier; neither arrivals nor a marker left by a crash keep anyone out for good (`NobodyWaitsForEver`) |
| `stock_safety` | two parts, two centers, a room, two keys sent up to twice, two workers, two facility writes | `StockIsSound` (never negative, only in open places, in the center of its room), `LedgerExplainsStock`, `AppliedOnce`, waiting in a ring needs a reparented room (`RingsNeedAMove`), the refinement of the book |
| `racks` | one rack, two devices, holds, two rooms and centers, any five requests, two at a time | `PlacementIsSound` (exclusive U, copied center), `MovesAreAllowed` (into facilities in use, holds honoured), the refinement of the map (`MapSpec`) |
| `assets` | one asset and a new one, one rack and person, a scoped user with two rules and a manager, any four requests, two at a time | `RecordsAgree`, `EditsSeeEveryChange`, the refinement of the access monitor (`MonitorSpec`) |
| `inventory` | two assets, racks and rooms, one task, any five requests, two at a time, one move | `CountIsSound`, `EvidenceIsKept`, `CorrectionsAreSeen` |
| `recovery` | `BackupRestore`: two files, two edits, two backups or restores with any number of recoveries, three errors or crashes; `WebMaintenance`: a backup and a restore, two HTTP workers, two pages, one crash, one run from a shell; `SystemReset`: two requests that insert into any of five tables beside the reset | `OpenIsWhole`, `ArchivesAreWhole`, `ReopensAsAsked`, `AlwaysRecoverable`; `ReceiptsAreTrue`, `ReceiptsStay`, `OutcomeIsLearned`; `ResetIsWhole` |
| `operations` | `RepairLifecycle`: two faults of one asset, six requests, two at a time; `RackPlanning`: every rack of up to 7 U, batches of up to 4 devices of up to 3 U; `NotificationDigest`: one recipient, two overlapping runs, four starts over two days of three hours; `Alerts`: ten rows, three days, limit 1; `Timeline`: two centers, seven readers, two entries; `Valuation`: every plan of two prices, two terms, three rates over a short year | `RepairsAgree`, `HistoryIsKept`, `RepairsDoNotDeadlock`; `PlanIsBest`; `AtMostOneDigest`; `AlertsAreTrue`; `DetailsFollowTheEvent`; `ValuesAreSteady` |
| `administration` | two workers; `Accounts`: four keys, two directory users, three requests, one change in the directory; `SignIn`: one user, two sessions, four calls; `Settings`: two forms, three saves; `Catalog`: two fields, two sets, a model, a type, two assets, three departments, four requests | `AccountsHold`; `FailuresAreCounted`, `CodesOpenOnce`; `SettingsAreSound`; `CatalogIsSound` |
| `stock_lock_order`, `inventory_refresh`, `anchor_race`, `settings_reset` | as above, smaller | each violates one property, see section 6 |

Each module's `TypeOK`, where it has one, is a part of one of its properties.

**Why these bounds are enough to be interesting.**  The gate's hazards need one
arrival, one run that dies and one that comes after, and a second arrival to race
the probe of the first; two kills are a run and its successor, or a run and a
request.  Stock: a lost update needs two keys, a retry two calls, a stale
check one facility write in between and a second one to undo it.  Racks: a stale
ancestry needs a rack and its room to move beside a mount, the U rules two devices
and a hold.  Assets: a stale form needs a read, another's write and the edit; a scope
that combines two rules wrongly needs a grant of two rules.  Counts: creation,
observation, move, correction and a reopening are five requests.  Repairs: open, open,
close, close, reopen and close again are six, and rings have length two because a
transaction waits for a fault or for the one asset.  Backups: a restore that fails, a recovery
that fails and a second recovery, with a fault in each; two edits tell the data
before from the data of the archive; two files let a tree be partly gone.  Web: one
crash is enough because a second process that dies leaves what the first left, and each
may be the one.  Digest: three attempts and a fourth that must not happen need four
starts and three hours, and a second day crosses midnight.  Alerts: a limit of one
cuts every table of two.  Accounts: two first logins and a change between them.
Sign-in: two failures that lock and two codes at once.  Catalog: definition, option, set and
value are four requests.

**Deadlock checking** is off where the bounds let the system stop (all but the
gate); rings of waiting are checked by `RingsNeedAMove` and `RepairsDoNotDeadlock`.
`RackPlacement` does allow them, by the joins of section 6; MariaDB then
aborts a victim, which is `Abort`.

**Fairness.**  Gate: a process that lives takes its next step and a database client
ends (weak fairness of `RequestStep`, `RunStep`, `ClientExit`), and browsers keep
polling, so requests keep arriving (`Arrive`); no run has to start, no deadline to
expire and no process to be killed.  Polls of the drain loop that fail change
nothing, so weak fairness of `Drain` needs the lock to *stay* free: that is what the
marker achieves.  Backup: a run that is alone and alive goes on (`WF(Step)`), errors and
crashes are finitely many, and the operator of a closed site tries the recovery that the
error message names again and again: a run of another kind may come first, so this is
strong fairness of that one command.  Without it a site nobody looks after stays closed,
as the documentation says it should.  Web: a living HTTP worker goes on (`Serve`), a
living worker goes on (`Work`), a page that is open polls (`Watch`, the interval of
`useSystemMaintenance.ts`), a run from a shell ends (`CliLeaves`); nobody has to submit
or to die.

## 4. Proofs

The theorems hold for every set of requests, processes, files, rows and values, and
every bound.  They assume the named assumptions on the constants, which TLC evaluates
on every run, and nothing else; what those say besides types is told below.
`PROJECT.json` lists the theorems.  Each proof has the same shape: an inductive
invariant, one lemma for each action (where several actions differ in one conjunct only,
a lemma on that conjunct), and at the end the steps joined by PTL.  The invariants were
checked by TLC on the instance of their run before they were proved.  In the composites
the invariant of a component is needed only in its own study (`study = "..." => ...Inv`).

**Gate** (`MaintenanceGateProofs`).  `AdmittedIsSafe` is not inductive: whether a request
may pass depends on who holds which file at which line.  `GateInv` adds that
(`ProbeHolds`, `RunHolds`, `SharedHeld`, `ExclusiveHeld`, `ClientsOwned`), that a probe
about to pass left no marker (`PassedIsAbsent`), and that a run whose marker is dirty knows
it (`DirtyKnown`).  From it follow `AdmissionSafe`, `MarkerSafe`, the action property
`DirtyStays`, and `ImplementsBarrier`: every step of the gate is a step of the barrier or a
stutter.

**Stock** (`StockLedgerProofs`).  `StockInv` adds to the soundness of the tables that locks
are exclusive, what every stage of a call holds or has still to take (`StageHolds`), and,
the heart of it, that a call that has checked and read may rely on it until it commits
(`Settled`).  Other workers' steps preserve `Settled` because each table that it reads
is written only by the holder of a lock the call has (`TableWriters`, `OtherStage`,
`SettledStep`).  From it follow `StockSound`, `IntentsAppliedOnce`, `NoPartsAfterFinish`,
and `ImplementsBook`: every commit is one atomic step of the abstract book.
`LedgerExplains` is about sums over the ledger, which are a recursive function: `SumsExist`
shows that there is such a function and `TotalSame`, `TotalNext` what a row that is added does to
it, each by induction in the one form that the prover has, that a set of numbers which holds 0
and the successor of each member is all of `Nat` (`AllNumbers`).
`RingsNeedMoves` has an invariant of its own, `TurnInv`: what a process still wants comes
after what it holds in the order of the locks (`InTurn`), unless it joins a center, and
finitely many processes are busy, however many there are.  In a ring each process would
await a later lock than another one of it does, so no member of it would be the last,
which the lemma `Maximal` about finite sets refutes.

**Racks** (`RackPlacementProofs`).  The same argument with a harder middle: a request locks
an ancestry that it read without locks, and `StageHolds` says what saves it, namely that
at its commit it holds the room and the center that its rack has *by then*.  `Settled`
says that a device that was checked still fits, and that the center which was read is still
the center of the rack; `RackSound` restates the exclusive U with bounds in place of sets of
units.  From `PlacementInv` follow `PlacementSound`, the action property `MovesAllowed`,
and `ImplementsMap`.  For the last one a U is shown to have at most one owner
(`OwnersKnown`), so that what a commit does to the spans can be told U by U: a mount
changes the owners of the U it asked for and of no other, and a rack that shrinks loses U
that nobody owns.

**Backups** (`RecoveryProofs`).  `BackupPhases` says at every stage of a run what the
marker, the memory of the run and the archives say of the data: without a dirty marker
the data are whole and are those from before; with one, the safety backup keeps
them (`Keeps`); the process forgets everything when it is killed, the marker and the archive
do not.  From it follow `OpensWhole`, `NothingSavedIsLost` and the action property
`OpensAgainAsAsked`.  Assumed of the constants: what stands for a torn database and for no
tree of files are no files themselves.

**Web receipts** (`RecoveryProofs`).  `WebInv` says who has the operation lock open
(`LockInv`: one submission and its worker, or one page), what each receipt says of its
worker (`ReceiptFits`), and that the worker inside the window owns it (`WindowInv`).  From it
follow `ReceiptsTellTheTruth` and the action property `FinalReceiptsStay`: a page that
concludes holds the lock, so no worker that could still report is alive.  Assumed: the
names of operations are none of the two values that mean no owner and the shell.

**Reset** (`RecoveryProofs`).  The schema is concrete: that the order of the tables is right is
the fact `RefsFit`, that a table comes after those that refer to it by a reference that
protects, checked reference by reference.  The rest is for any number of rows inserted beside the
reset.  `ResetInv` says that a link is one of the schema (`LinksFit`), that what the
transaction sees refers to nothing that it has deleted (`LinksHold`), that the first rows are as
they were while nothing is committed (`FirstsStay`), that who is kept is kept with an identity and a
profile (`KeptFit`), and that an emptied table has no first row again (`EmptiedStay`).
Django's cascades need no recursion: in this schema none is longer than three steps.
From it follows `ResetLeavesWhole`.

**Inventory counts** (`InventoryCountProofs`).  `CountInv` says of each transaction what its
rows, named from unlocked reads, still cover (`Asked`: an item changes its observed place only
with its revision, so a correction that finds the revision it was sent holds the rack that was
observed), and that what it has checked stays true until it commits (`Settled`).  Two
lemmas carry it: `StepEffect`, what one transaction may do to the tables by the locks it
holds, and `FacilityEffect`, that racks and rooms move only while nobody holds them.  While
a task is created, nothing enters its scope (`Counting`): a scope that is locked can be entered
only through a row that its holder has, which for a rack that moved before it was locked takes
the join of `place_asset` (`Joined`).  From it follow `CountStaysSound` and the action
properties `EvidenceStays` and `CorrectionsStaySeen`.  Trying to prove it
showed that a center's task may lack an asset that came back from the archive between the
listing and the checks, which no lock of the scope prevents: it is a part of the property
(`ScopeIsCounted`).  Assumed: rooms, racks, centers and the special values are different.

**Asset records** (`AssetRegisterProofs`).  `RegisterInv` says of each request that it works
under the present rules of its user (`RequestFits`), that what the client of an edit had read
is a version of the record, and is the record if the revisions are equal (`BaseFits`), and of each
transaction that its locks cover the rows it is about *now* and that what it has checked
still holds (`Protected`), since a rack that is locked keeps what is mounted on it.  The
argument has two halves: `Effect` is what any commit may do to the records, by the locks that
it holds; `Steady` is what a lock keeps for its holder.  Every commit has the first,
the first of one request gives the second to all others (`HeldRowsStay`), and a check
reads nothing but what is steady (`AllowedStays`).  From it follow `RecordsStayInAgreement`, the action
property `EditsSeeWhatTheyChange` and the refinement `RegisterKeepsScopes`: what a commit
writes it may write before and after (`ChangesAreAllowed`), the rules of a request are the
grant of its user until it ends (`Admission`), and a grant finds nobody inside (`RegrantStep`).
Assumed: requests are of the forms of `AllRequests`, an edit with a revision is about one
asset (the batch routes send none), and the register begins with rows that fit, with no holder
and no disposal (`FirstRecords`); what a holder or a disposal needs is then made by commits.

**Repairs** (`OperationsProofs`).  `RepairInv` has the locks by stage (`RepairLocks`: the
fault before the asset, one of each), what was checked and read under them and stays so
(`RepairReads`), and what rows of one fault and of one asset are (`FaultFits`, `AssetFits`,
which relates the status, its snapshot and the open faults).  From it follow
`AssetsFollowTheirFaults`, `NoRepairDeadlock` (the order of locks, by which no set of workers
can wait in a ring of any length) and the action property `RoundsAreKept`.

**Digest** (`OperationsProofs`).  `DigestInv` says that a run that is sending has the claimed
row to itself (`RowsClaimed`), that it is younger than the suppression date and writes a
day after it (`RunsInTime`), so that a restore, which sets that date, leaves no run that
trusts rows it has brought back, and that the rows of the days after that date tell what was
tried and sent (`RowsTell`).  From it follows `DigestOnceADay`.

**Rack planning** (`OperationsProofs`).  That no order of writes does better than the plan
is about all sequences of placements, and `PlanInv` reduces it to one state: free U only
become fewer, so that every device that was added lies in one of the ranges there were at
first (`NewFits`) and apart from the others (`NewApart`), and with devices of 1U a
range between two neighbours keeps a free U (`OneIsKept`), since the last one becomes a gap
before it can be filled (`LastIsGap`).  Devices are then numbered within their range,
the one on the highest U by the free one, which sends them one to one into the places of the
plan (`PlacedBounded`).  That each device of the plan is legal (`NextIsLegal`) is
because a device of the same range is packed after it on the side away from the neighbour.  From
it follows `PlanHolds`.  Nothing is assumed of the constants.

**Alerts** (`OperationsProofs`).  The heart is a lemma on finite ordered sets:
the first n of a set that comes in parts are among the first n of its parts
(`FirstOfParts`), although each query cuts by its own order and the whole is cut by another
one, since both respect urgency.  The counts come from queries that have no list:
`Counts` shows that each counts the alerts of its level.  From it follows `AlertsHold`.
Assumed: rows of one kind differ in name, all in their rank (`AlertConstants`).

**Valuation** (`OperationsProofs`).  The last days of the months are a recursive function, for
which the proof goes as for the ledger (`NumbersAreReached`, `SumsOfMonths`).  Months that have
passed are the monthly dates that have come and grow by one or none from day to day
(`MonthsAreDates`, `ElapsedGrows`); what is rounded grows with what it is rounded
from, and two rounded parts miss their sum by a cent at most (`RoundingGrows`,
`PartsAddUp`).  `ValueInv` says that what is compared with today was computed a day ago from the
same plan.  From it follows `ValuesHold`, for any calendar of months of at least a day.

**Timeline** (`OperationsProofs`).  `TimelineInv` says of each kind of row how what it has
frozen tells what the event was about (`AssetEntry`, `FrozenEntry`).  From it follows
`DetailsAreScoped`.  Assumed: no center, department or task is the value for none.

**Settings** (`AdministrationProofs`).  `SettingsInv` adds to `SettingsAreSound` that a form
with the present revision shows the present row, so that a patch that is accepted replaces
nothing its author has not seen; and that every column that is set while a reset
runs, and no patch raced it, is among those the reset is going to clear.

**Doors** (`AdministrationProofs`).  `DoorInv` says that a process that is counting holds
the rows of its counters and has read them as they are, or as they begin again after a lock
that is over (`Counting`), and that the last code is of a secret that was handed out and,
if that one is in force, is the last step used (`CodesFit`).  From it follow
`EveryFailureCounts` and `NoCodeTwice`.  The latter rests on `InForce`: `login_2fa`
(`admin_auth.py:239`) compares only the step again under the lock, not the secret; a code of a
secret that was replaced meanwhile is accepted, once, as the secret that it belongs to was the
user's when the request came.  Assumed: the ranges of the policy (`PolicyRanges`).

**Catalog** (`AdministrationProofs`).  What a check under row locks leaves true until the
commit is only a part of the check, since other rows that it read are not locked: `Stands`
is that part for each kind of request, `RowsAreLocked` the rows that protect it.  From `ShelfInv`
follows `CatalogStaysSound`.  The rows at first are constants; they are assumed to be of the
types of their columns and requests to be as the serializers let them through (`CatalogKeys`,
`WellFormed`), and that they fit together is the hypothesis of the theorem.

**Accounts** (`AdministrationProofs`).  `StaffInv` has three strengthenings.  A form that an
account's revision has not left behind shows it as it is (`FormFits`): rows evolve by
revisions alone (`Evolves`), so an edit with the present revision overwrites
nothing it has not seen.  What a login of the directory expects stays (`ExpectedAreThere`):
identities change their names, and are never removed, so an answer that differs is
another entry and the collision a real one.  And a person for whom an account is being created is
locked and has none (`PersonsAreLocked`).  From it follows `AccountsStaySound`, one theorem for the
three parts of `AccountsHold`.  Assumed: accounts at first are complete rows with different
names, requests are as the serializers let them through (`AccountKeys`, `WellFormed`).

**Only model-checked.**  Liveness (`NobodyWaitsForEver`, `AlwaysRecoverable`,
`OutcomeIsLearned`), since the prover does not reason about fairness.  All invariants and action properties of the
passing runs, and all refinements, are theorems.  What the runs of section 6 refute is refuted
by TLC's behaviours; a proof could add nothing to them.

## 5. What is not modelled

What a role may do and the permission checks made under the locks (they can only
refuse), audit rows where they are written in the same transaction and read by nothing
modelled, deletion of facilities (refused by foreign keys), the inside of archives and of
imported files, tags and single-row dictionaries, the encryption of stored secrets,
the network clients of SMTP and LDAP, capacity and dashboard reports (read-only sums
over the rows), routing, serialization and error formats, the single-page application
except its retries and polls, and the deployment scripts.  `PROJECT.json` gives the reason for
each component.

## 6. Findings

*Lock order* (`stock_lock_order`).  `physical_location.py:3-4` says that the location graph
is locked in one order, data center before server room before rack.
`lock_server_room_location` reads the ancestry of a room without a lock, locks that center
and then the room, and ends with a query that joins the center the room has *by then* `FOR
UPDATE`.  When another request moved the room in between, a center is locked after the
room.  `lock_rack_location` ends likewise.  The order is what keeps writers from waiting in a
ring; with a concurrent move they can, and MariaDB ends one of them with error 1213.  No
data is lost: `PlacementIsSound` and `StockIsSound` hold because of that last query.

*A place that cannot be recorded again* (`inventory_refresh`).  When a rack has moved to
another room since it was observed, the correction of the ledger is refused with the advice
to record the place again; but `InventoryItem.save` freezes the site only if the status, the
rack or the U differ, so the second recording keeps the old room and the correction is
refused again.

*Links out of reach* (`anchor_race`).  The attribute that identifies directory users may be
changed only while no identity exists; the identities are counted without a lock, so a
first login that was answered under the old attribute may insert one afterwards.

*A reset that leaves a service half configured* (`settings_reset`).  The reset of the settings
saves the columns that an unlocked read found changed; a patch that switches a service on in
between leaves it on without what it needs.

## 7. Plan

Done: all of section 2 and the proofs of section 4.

Next, in this order:

1. Tags, single-row dictionaries and the creation and deletion of sets in `Catalog`.
2. What roles may do, and their checks under the locks.
3. Deletion of facilities, with the foreign keys that refuse it.
