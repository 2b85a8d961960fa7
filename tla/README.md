# TLA+ models of the AOS service manager

This directory holds TLA+ models of the service manager in `src/`, the TLC
configurations that check them, and `PROJECT.json`, which lists the
components, runs, mutants, the source lines each definition models, the
findings and the hazards.

## The system and its parts

- **Main loop** (`src/servicemanager.go`). At every (re)connection it calls
  `SetUsers(vis.GetUsers())`, then `run` it. `run` reacts to:
  - a cloud service list, through `processAmqpMessage`. This installs the
    services that are new or newer and uninstalls those that are absent.
  - a users change, which makes `run` return, so the loop starts over.
- **Launcher** (`src/launcher/launcher.go`). It queues every action in the
  *action handler*, per service ID:
  - cloud installs and uninstalls;
  - the stops and starts of `SetUsers`.

  A worker runs `doActionInstall` or `doActionUninstall`. These call
  `installService`, which in turn calls `addService`, `updateService`,
  `startService`, `stopService` and `removeService`.
  Each of those steps makes one D-Bus call to systemd (`StartUnit`, `StopUnit`,
  `LinkUnitFiles`, `DisableUnitFiles`), runs one SQL statement on the
  services and users tables (`src/database/database.go`), or calls the
  resource manager.

  `SetUsers` runs on the main goroutine:
  1. it queues a stop for every service of the old users and waits for them;
  2. it assigns `launcher.users` without a lock;
  3. it queues a start for every service of the new users and waits;
  4. it runs `cleanServicesDB`. This starts one goroutine per expired
     service, and each goroutine calls `removeService` *outside* the action
     handler.
- **Resource manager** (`src/unnamed/part_007`). `RequestDevice` and
  `ReleaseDevice` run under one mutex and admit a service to a device while
  `sharedCount` allows it.
- **Action handler**. Its source is not in `src/`. It is modelled from
  spec §4.1:
  - FIFO per key;
  - at most one running action per key;
  - keys run in parallel.
- **Database open** (`database.New` in `src/database/database.go`). At every
  start, `main` opens the SQLite file. `New` then runs these steps:
  - `createConfigTable`: if no `config` table exists, it runs
    `CREATE TABLE config` and then `INSERT`s the one row that holds
    `dbVersion`;
  - the three `CREATE TABLE IF NOT EXISTS` statements;
  - `getVersion`.

  Any error makes `main` exit with `log.Fatalf`.
- **IAM client** (`src/unnamed/part_001`, package `iamclient`).
  - `New` reads the subjects.
  - It then starts the goroutine `handleSubjectsChanged`, which
    subscribes to the IAM's subjects-changed stream. It reads the
    subjects again (`getSubjects`), so that it catches a change made while
    it was not subscribed.
  - It forwards every list that differs from `client.subjects` to
    `subjectsChangedChannel`. That channel holds one list, and its send
    blocks.
  - Any error of the subscription, of the read or of the stream ends
    `subscribeSubjectsChanged`. The goroutine's `select` then takes the
    reconnect timer or the token that `Close` puts into `closeChannel`.
- **Image validation** (`launcher/image.go`). Before `installService`
  installs a downloaded image, it checks the unpacked directory with
  `validateUnpackedImage`:
  - it reads `manifest.json`;
  - it runs `validateDigest` on the image config, on the aos service
    config if there is one, and on the first layer (the rootfs);
  - `validateDigest` checks the digest string, opens its blob and feeds
    it to a verifier 1 MiB at a time.

  `prepareService` then reads the manifest again with `getImageParts` and
  unpacks the rootfs from it.
- **`Cleanup`** (`launcher.go`). It is a one-shot path with no caller in
  `src/`. It stops and disables every AOS unit and removes the service,
  storage and upgrade directories.

## Modules

| Module | Models | State |
|---|---|---|
| `ResourceManager` | `RequestDevice`, `ReleaseDevice`, `contains`, `removeFromSlice`, `getAvailableDeviceByName` | `deviceWithServices` |
| `MCResourceManager` | callers that request and release devices, and remember which they were granted (`held`) | |
| `Launcher` | the launcher, main loop, action handler, database tables, process restarts and `Cleanup`, with `ResourceManager` instanced as the device broker | `users`, `db`, `owners`, `linked`, `active`, `grants`, `queue`, `job`, `main`, `started`, `svcState`, `monitored`, `restarts` |
| `MCLauncher` | model values and the bounds | |
| `DatabaseOpen` | `database.New`: `createConfigTable`, the other `create*Table` calls, `getVersion`, and the process ending and starting again, and statements that fail | `tables`, `configRow`, `pc`, `crashes`, `sqlFailures` |
| `ImageValidation` | `validateUnpackedImage`, `getImageManifest`, `validateDigest` with its read loop, and `getImageParts`, from any directory `downloadAndUnpackImage` may leave. A digest is a model value, and its blob is absent, intact or corrupt | `manifestJSON`, `manifest`, `blob`, `wellFormed`, `pc`, `current`, `after`, `read`, `result`, `parts` |
| `MCDatabaseOpen` | `dbVersion` 5 and the stored versions; one crash and one failed statement | |
| `IAMClient` | `New`'s first read, `handleSubjectsChanged`, `subscribeSubjectsChanged`, `isSubjectsEqual`, `Close`; the IAM, lost connections and the channel's owner as environment | `iam`, `stream`, `streamOpen`, `subjects`, `pc`, `channel`, `seen`, `closeChannel`, `closed`, `changes`, `failures` |

### Launcher state

- **`db`**: the `services` table, one version per service ID, with 0 meaning
  no row.
- **`owners`**: the `users` table, as pairs <<user list, service>>.
- **`linked` and `active`**: the units systemd knows and the units it runs.
- **`grants`**: the resource manager's map.
- **`queue` and `job`**: the action handler's per-ID queues, and what each
  thread is running.
  - A thread is `<<s, "action">>` (the worker for ID `s`) or
    `<<s, "clean">>` (a `cleanServicesDB` goroutine).
  - A running thread holds the rest of its Go function as a sequence of
    *calls*. Each call is one atomic step: one systemd call, one SQL
    statement, or one resource-manager call under its mutex.
  - When a call fails, one of three things happens, exactly as the Go code
    does at that line:
    - the rest of the sequence is replaced by the error handler (`abort`);
    - the error is kept as the function's `retErr` (`record`);
    - the error is only logged (`ignore`).
  - The program builders (`startService`, `stopService`, `addService`,
    `updateService`, `updateServiceFailed`, `removeService`, `installPlan`,
    `uninstallPlan`) are the Go functions written as these call sequences.
    `updateServiceFailed` is the deferred handler of `updateService`
    together with `restoreService`.
- **`started`**: the services whose row has a non-zero `startat`.
  `SetServiceStartTime` sets it after every start. `AddService` and
  `UpdateService` write the zero `StartAt` of the `Service` that
  `prepareService` builds, so they clear it. `cleanServicesDB` treats a zero
  `startat` as expired.
- **`svcState`**: the `state` column (`init`, `running`, `stopped`).
  `AddService` and `UpdateService` write the `stateInit` that
  `prepareService` builds, and `updateServiceState` writes the rest.
- **`monitored`**: the services the resource monitor watches.
  `updateMonitoring` adds a service on `running`
  (`StartMonitorService`) and drops it on `stopped`
  (`StopMonitorService`). A restart builds a new monitor that watches
  nothing.
- **`restarts`**: how many times the process has started again.
- **`main`**: the main goroutine's position in `SetUsers`
  (`setUsers`, `stopping`, `startServices`, `starting`, `cleaning`) or in
  `run`, plus the set of results it is still waiting for.

### Launcher actions

There is one action per call kind (`StartUnit`, `StopUnit`,
`RequestDevice`, `AddServiceRow`, …), plus:
- `Dispatch` and `Done`, the action handler;
- `UpdateServiceState` (`updateServiceState`): `GetService`, then
  `updateMonitoring`, whose error is only logged, then
  `SetServiceState`. `startService` calls it after `StartUnit`, and
  `stopService` calls it after the unit's stop and device release;
- `Reconcile` (`processAmqpMessage`) and `UsersChanged`;
- `CloudUpdateState` (`UpdateState`). It queues `doUpdateState`, which runs
  these steps and stops at the first error:
  1. `GetService`;
  2. `stopService`;
  3. the storage handler's `UpdateState`;
  4. `startService`.
- the steps of `SetUsers`: `SetUsersBegin`, `StopsDone`, `StartServices`,
  `StartsDone` (`cleanServicesDB`) and `CleanDone`;
- `Restart` and `Cleanup`, the fault model below.

### Fault model

`ProcessStart` is `main` starting again. It builds a new launcher, action
handler and resource manager. So the users are nil, nothing is queued or
running, and no device is granted. The database survives, and `SetUsers`
runs first.

Which restarts can happen is set by `RestartKinds`:
- **`"crash"`** allows `Restart`: the process dies between any two calls,
  and the units stay as systemd has them.
- **`"cleanup"`** allows `Cleanup` while the launcher is idle: the process
  is stopped, `Cleanup` runs, and the process starts again with no unit
  linked or running.

`MaxRestarts` bounds both kinds together.

Two more constants make steps fail:
- `SystemdMayFail` lets `LinkUnitFiles` or `Reload` fail, in
  `addServiceToSystemd` and in `restoreService`, and lets
  `DisableUnitFiles` fail in `removeService`.
- `MonitorMayFail` lets `StartMonitorService` or `StopMonitorService`
  fail. `updateServiceState` only logs that failure.
- `DownloadMayFail` lets the download, unpack and `prepareService` steps
  fail.

### The action handler and the launcher API

The action handler's source is not in `src/`, so `Dispatch` and `Done`
are written from spec §4.1 and marked `spec_modelled` in `PROJECT.json`.
No refinement of them is checked: an abstract queue written from the
same text would agree with them by construction.

`servicemanager.go` calls an older launcher API than `launcher.go`
defines: `launcher.New(config, db, monitor)`, `RemoveService` and a
one-argument `InstallService`. The modelled main loop (`Reconcile`,
`processAmqpMessage` and `SetUsers` on reconnect) follows the calls of
`servicemanager.go` and runs them against the handlers of `launcher.go`.

### `updateService` and `os.RemoveAll`

`updateService` stops the old service, then deletes its directory
(`os.RemoveAll(oldService.Path)`, `launcher.go` 1613), then links and
starts the new one. Its deferred handler calls `restoreService(old)`. The
model splits the handler at that line:
- before it, `restoreService` relinks the old unit and may succeed;
- after it, `LinkUnitFiles` and `loadServiceSpec` of `restoreService`
  cannot find the old files, so the handler runs `removeService(old)`.

## Runs

| Run | Checks | Result |
|---|---|---|
| `rm_pass` | `DeviceExclusive`: holders of a device stay within its `sharedCount` (IDs s1, s2, s3) | holds |
| `launcher_one` | `VersionMonotonic` (an installed version never goes down), `SetUsersCompletes` (`SetUsers` always returns) | hold |
| `launcher_two` | `RunningWithinSharedCount`: no two running units share an exclusive device. `NoOrphanUnits`: when idle, no unit is linked for a service without a row. `MonitoringFollowsUnits`: when idle, the monitor watches exactly the running units | hold while only the action handler runs actions and monitor calls succeed |
| `launcher_update_violation` | `InstalledStatusTruthful` | violated, with one crash: after a crash leaves a service whose unit systemd does not know, its update fails at `stopService(old)`, before `RemoveAll`. The rollback succeeds and `installService` reports "installed" with the new version while the row keeps the old one. Without the crash the run passes: every failure after `RemoveAll` removes the service and reports "error" |
| `launcher_leak_violation` | `GrantsOnlyForRunning` (spec §3) | violated: a start refused its second device keeps the first |
| `launcher_cleaner_violation` | `RunningWithinSharedCount` with TTLs that expire and two user lists | violated: `cleanServicesDB` releases the devices of a service that its queued install then starts |
| `launcher_quiet` | `InstalledServicesHaveUnits`: when idle, every service of the current users has a linked unit. | holds, with `LinkUnitFiles`, `Reload` and `DisableUnitFiles` failing and no restart |
| `launcher_crash_violation` | `InstalledServicesHaveUnits` with one crash | violated: a crash after `addService` wrote its rows and before it linked the unit leaves a service that is reported installed but cannot start |
| `launcher_users_race_violation` | `ServicesOfCurrentUsersOnly`: when idle, the running units belong to the current users | violated: an install that runs during `SetUsers` registers and starts its service for the old users after their stops were queued |
| `db_open_crash_violation` | `DatabaseEventuallyOpens` with one crash and one failed statement | violated: after a crash, or a failed `INSERT`, between `CREATE TABLE config` and its `INSERT`, `getVersion` fails at every start. Either fault alone is enough |
| `image_validation` | `PreparedImageIntact`: the image config and rootfs that `prepareService` uses, and the aos service config, are intact blobs. `IntactImageAccepted`: an image whose manifest reads and whose needed blobs are intact is never refused | hold, with reads that do not fail |
| `iam_subjects` | `TypeOK`. `SubjectsEventuallyCurrent`: once the IAM and the network settle, `client.subjects` and the list the owner last took both equal the IAM's list, unless the client is closed. `CloseEndsSubscriber`: after `Close` the goroutine returns | hold, with lost streams, failed RPCs and reconnects |

`Cleanup` has no caller in this tree. Its comment says it deletes all AOS
services, but it leaves the services and users tables. Under
`RestartKinds {"cleanup"}` that fails `InstalledServicesHaveUnits`, as
`launcher_crash_violation` shows for a crash. That check no longer has a
run of its own: the run budget goes to code that this tree calls.
`launcher_one` still fires the `Cleanup` step.

`NoOrphanUnits` is checked only with `SystemdMayFail = FALSE`. With
failures allowed, `launcher_two`'s bounds find it violated in 7 steps:
`removeService` logs a failed `DisableUnitFiles` and still deletes the
row, so the unit stays linked with nothing left to disable it. The code
does this on purpose, and the run budget is spent on other violations.

The IAM client also has an ordering hazard that no run checks. After a
resubscription, notifications for changes made before the resync read
are applied after it. The owner is then sent C, the older B, then C
again. TLC shows this when every change is to a new list.
`SubjectsEventuallyCurrent` shows that the regression passes.

Two code bugs were found with TLC and have no run of their own, because
the run budget is spent elsewhere:
- **`validateDigest` and a failed read** (`image.go` 193-194). A
  `file.Read` that fails with an error other than `io.EOF` returns `err`.
  That is still the nil of `os.Open`, so the blob is accepted without
  `verifier.Verified()`. With `ReadMayFail = TRUE` in
  `MCImageValidation.cfg`, TLC finds `PreparedImageIntact` violated: a
  corrupt blob becomes both the image config and the rootfs.
- **`contains` matches service IDs by substring** (`src/unnamed/part_007`).
  Under `MCResourceManager`'s `MCServiceIDsNumbered` and
  `MCSubstrNumbered` ("s10" contains "s1"), TLC finds `DeviceExclusive`
  violated: three services use a device shared by two. `rm_pass` uses IDs
  none of which contains another.

For every property of a passing run, `PROJECT.json` names a mutant: a
plausible bug in the mapped code that TLC catches with that property.

## Bounds and why they suffice

- **Services.** `launcher_one` has one service. The runs with two
  services give them one exclusive device (`lidar`, `sharedCount` 1). `sa`
  also needs `cam` (unlimited), so a start can fail on its second device.
- **User lists.** There are two, so `SetUsers` really switches: its stops,
  its starts and its cleaner all run.
- **Versions.** There are two, so an update and a version regression can
  both happen.
- **`MaxQueue`.** It is 1 pending cloud action per service. With the
  action being run, this still lets two installs of one service overlap.
- **Restarts.** One restart is enough to show every crash window. A second
  restart only repeats the first from another state.
  - `launcher_one` allows both kinds of restart and `UpdateState`
    messages, with one service.
  - `launcher_quiet` has no restart, so `InstalledServicesHaveUnits` is
    checked against link failures alone.
- **Three runs restrict one dimension each** to stay within minutes:
  `launcher_two`, `launcher_update_violation` and `launcher_leak_violation`.
  - They use one user list, so `SetUsers` runs once.
  - Downloads do not fail in them.
  - They set `TTLExpires` to FALSE, so the cleaner never runs. That keeps
    their counterexamples to the one cause they are about.

- **IAM client.** There are three subject lists, so a change can return
  to an earlier list. Up to 4 changes and 3 failures are allowed, so a
  change can fall in each window of the goroutine: while it is
  unsubscribed, between the subscription and the resync read, and while
  a stream is broken. `CHECK_DEADLOCK FALSE` is set because, once nothing
  more happens, the goroutine blocked in `stream.Recv` is the client's
  idle state.

- **Images.** There are two digests, so a manifest can name one blob
  twice, or name a corrupt blob beside an intact one. Manifests have up
  to two layers, so the layers after the rootfs are present. A blob takes
  two reads, so the loop runs more than once. Every blob state and every
  set of malformed digests is an initial state (4,536 of them).

## Fairness

- Each worker, each cleaner goroutine, the dispatch of each queue and the
  main goroutine's own `SetUsers` steps are weakly fair. The Go scheduler
  runs every runnable goroutine, and a systemd or SQL call returns.
- Cloud messages, user changes, crashes and `Cleanup` get no fairness:
  nothing obliges the cloud, the users or the operator to act.
- In `IAMClient`, the goroutine's steps are weakly fair. Taking the close
  token is strongly fair. Go's `select` picks uniformly among the ready
  cases, so a token that stays ready while the timer keeps firing is
  eventually taken. The owner of `subjectsChangedChannel` keeps reading
  (weak fairness): the owner is not in this tree. The IAM's changes,
  lost connections and `Close` get no fairness.
- In `DatabaseOpen`, each statement of `New` is weakly fair. `Start` is
  weakly fair too: a service manager that exited is run again, at the next
  boot at the latest. The model ends once the database is open, so
  `db_open_crash_violation` does not check for deadlock.

- In `ImageValidation`, the steps are weakly fair. The check is one
  sequential call, and each file operation returns. The model stops when
  it returns, so the run does not check for deadlock.

## Abstractions

- **Time.** TTL expiry is any subset of the candidates when `TTLExpires`
  holds. `StartAt` is zero until a service's first start, so a service
  being installed can really be expired.
- **The state column.** After a successful update, `updateService`
  writes `newService` last, with `stateInit`, over the `running` that
  `startService` set. TLC shows this, and the model keeps it. The only
  reader of the column is `updateServiceState`'s comparison, so no property
  is stated about it.
- **`NoOrphanUnits` and `MonitoringFollowsUnits` outside `launcher_two`.**
  Both fail under `launcher_one`'s bounds. There, `cleanServicesDB`'s
  `removeService` interleaves with a queued install of the same service,
  the same race as `launcher_cleaner_violation`. Under `launcher_quiet`,
  a monitor call may fail.
- **Monitor configuration, network, layers and storage quota.** These are
  left out.
  Their calls are in the handlers but do not fail in the model. Where they
  can fail, the fallible steps that the properties need are kept.
- **Restarts.** `launcher_update_violation` allows one crash
  (`MaxRestarts = 1`), which is what it takes to reach an update that fails
  before `RemoveAll`. `launcher_crash_violation` allows one too.
- **`GetServicesInfo` in `Reconcile`** is one atomic read.
- **`addServiceToCurrentUsers`** is two calls, as in the code.
  `GetUsersService` and `AddServiceToUsers` each read `launcher.users`
  when they run, so a `SetUsers` can fall between them. The `INSERT`
  fails on the primary key when the users it reads already have a row.

## Not modelled

1. **`doStateAcceptance` and `FinishProcessingLayers`.** They call
   storage and layer handlers whose source is not in `src/`.
2. **Shutdown on SIGTERM** (`servicemanager.go` 250-261). The signal
   goroutine runs `launcher.Close` beside the workers and calls
   `os.Exit(1)`. The model covers this only as a `Restart` between two
   calls. Spec §4.1 says that queued actions are drained unexecuted. That
   promise would need a run of its own, and is not checked.
3. **The iamclient's stateless RPCs** (`RegisterInstance`,
   `UnregisterInstance`, `GetPermissions`, `GetCertKeyURL`) are single
   calls whose callers are not in this tree. The **runner debounce** of
   spec §4.4 is left out too: only tests of the runner are in `src/`.
4. **Database functions without a caller in `src/`.** These are the
   upgrade state, data and version, the journal cursor, the traffic
   monitor, `GetUsersList`, `IsUsersService`, `SetUsersStorageFolder`,
   `SetUsersStateChecksum` and `GetServiceByUnitName`.
5. **`GetUsersServicesByServiceID` in `removeService`** is used only to
   find storage folders to delete, which the model does not track.
6. **Download, decryption and unpacking of images.** `downloadService`
   and the tar and gzip unpacking are file and network I/O. The Launcher's
   `download` step, which may fail, stands for them. The launcher decrypts
   with `utils.DecryptImage` of aos_common, which is not in `src/`. The
   `fcrypt` package in this tree has no caller besides `fcrypt.Init`.
   Its `removePkcs7Padding` would read `in[-1]` for an empty input, but
   nothing reaches it.

`launcher/service.go` and the first 830 lines of `database.go` belong to an
instance-based launcher whose types are not in this tree, and nothing
calls them. The amqp handler is an early prototype plus a test, and is
broker I/O only.

Image download and decryption, the OCI spec handling, AMQP encoding,
configuration parsing and the D-Bus permission lookup are file, crypto or
network I/O, and are left out.
