------------------------------ MODULE Launcher ------------------------------
(***************************************************************************)
(* The service lifecycle engine of the service manager: the launcher      *)
(* (src/launcher/launcher.go) driven by the main loop that reconciles the *)
(* cloud's service list and switches users (src/servicemanager.go), with  *)
(* the resource manager (ResourceManager) as the device broker.           *)
(*                                                                         *)
(* Threads.  Every launcher action (install, uninstall, the starts and    *)
(* stops of SetUsers) is queued per service ID in the action handler and   *)
(* runs in a worker; cleanServicesDB runs removeService in a goroutine of  *)
(* its own, outside the queue.  A thread is <<s, "action">> or             *)
(* <<s, "clean">>.  A running thread holds the rest of its function as a   *)
(* program: a sequence of calls, each one atomic step (one D-Bus call to   *)
(* systemd, one database statement, one resource manager call under its  *)
(* mutex).  A call that fails either aborts to the error handler the Go   *)
(* code runs (mode "abort", onErr), is logged and ignored ("ignore"), or  *)
(* is remembered in the function's retErr and execution goes on           *)
(* ("record").  err is the error value the running function will return.  *)
(* The main goroutine reads and writes launcher.users without a lock; a   *)
(* worker reads it at each call that uses it.                             *)
(***************************************************************************)
EXTENDS Naturals, Sequences, FiniteSets

CONSTANTS
    Services,        \* service IDs
    UserSets,        \* the user claim lists SetUsers may be given
    NoUsers,         \* launcher.users == nil (before the first SetUsers)
    Versions,        \* versions the cloud may announce (positive naturals)
    ServiceDevices,  \* [Services -> Seq(DeviceNames)]: devices of a service's config
    ResourcesValid,  \* AreResourcesValid() returns nil
    DownloadMayFail, \* download, decrypt, unpack or prepareService may fail
    SystemdMayFail,  \* LinkUnitFiles or Reload may fail
    MonitorMayFail,  \* StartMonitorService or StopMonitorService may fail
    MaxQueue,        \* bound on the cloud actions pending for one service
    TTLExpires,      \* a started service's TTL may run out while it is installed
    StateUpdates,    \* the cloud sends UpdateState messages
    MaxRestarts,     \* bound on the restarts of the service manager process
    RestartKinds,    \* how the process may end: "crash" anywhere, "cleanup" when idle
    DeviceNames, Declared, Substr   \* the resource manager's configuration

ASSUME Versions \subseteq Nat \ {0}
ASSUME NoUsers \notin UserSets

VARIABLES
    users,    \* launcher.users
    db,       \* services table: [Services -> installed version, 0 = no row]
    owners,   \* users table: set of <<user claims, service ID>> rows
    linked,   \* unit files linked into systemd (LinkUnitFiles / DisableUnitFiles)
    active,   \* units systemd runs (StartUnit / StopUnit)
    grants,   \* the resource manager's deviceWithServices
    queue,    \* action handler: [Services -> Seq(request)]
    job,      \* [Threads -> running function or Idle]
    main,     \* the main goroutine: [pc, target users, waiting]
    started,  \* services whose row has a start time (startat is not zero)
    svcState, \* the state column of each row: "init", "running" or "stopped"
    monitored,\* services the resource monitor watches (StartMonitorService)
    restarts  \* restarts of the process so far

vars == <<users, db, owners, linked, active, grants, queue, job, main, started, svcState,
         monitored, restarts>>

RM == INSTANCE ResourceManager
        WITH ServiceIDs <- Services, deviceWithServices <- grants

Threads == Services \X {"action", "clean"}

\* A request of the action handler: serviceAction{id, data, handler}.
NoRequest == [op |-> "none", v |-> 0, from |-> "none"]
Request(op, v, from) == [op |-> op, v |-> v, from |-> from]

\* The values of the state column: stateInit, stateRunning, stateStopped.
States == {"init", "running", "stopped"}

\* A thread that runs nothing.
Idle == [busy |-> FALSE, req |-> NoRequest, prog |-> <<>>, err |-> FALSE]

-----------------------------------------------------------------------------
(* Calls.  k names the call, arg is its version argument (0 if none).     *)
(* A failing "abort" call replaces the rest of the program by onErr, which *)
(* therefore holds the handler followed by whatever the Go code does after *)
(* it returns.                                                             *)

Abort(k, arg, h) == [k |-> k, arg |-> arg, mode |-> "abort", onErr |-> h]
Logged(k, arg)   == [k |-> k, arg |-> arg, mode |-> "ignore", onErr |-> <<>>]
Ignore(k)        == Logged(k, 0)
Record(k, arg)   == [k |-> k, arg |-> arg, mode |-> "record", onErr |-> <<>>]
\* retErr := nil, and: if retErr != nil { h }
ClearErr         == [k |-> "clearErr", arg |-> 0, mode |-> "ignore", onErr |-> <<>>]
IfErr(h)         == [k |-> "ifErr", arg |-> 0, mode |-> "abort", onErr |-> h]

\* A startService that records the running state before it starts the unit.
startServiceStateFirst(s, h) ==
    << Logged("updateServiceState", "running"), Abort("setDevices", 0, h) >>
    \o [i \in 1..Len(ServiceDevices[s]) |-> Abort("requestDevice", i, h)]
    \o << Abort("startUnit", 0, h), Ignore("setStartTime") >>

\* startService(service): prestartService (setDevices looks every device up,
\* then requestDeviceResources asks for them in order), StartUnit, then
\* updateServiceState(running) and SetServiceStartTime, whose errors are
\* only logged.
\* Any error returns to the caller's handler h.
startService(s, h) ==
    << Abort("setDevices", 0, h) >>
    \o [i \in 1..Len(ServiceDevices[s]) |-> Abort("requestDevice", i, h)]
    \o << Abort("startUnit", 0, h), Logged("updateServiceState", "running"),
          Ignore("setStartTime") >>

\* A services row written by AddService or UpdateService: the version,
\* whether its startat is set, and its state.  A Service that prepareService
\* builds has a zero StartAt and stateInit; one read by GetService has the
\* stored ones.
Row(v, st, state) == [v |-> v, startAt |-> st, state |-> state]

\* A stopService that releases the devices before it stops the unit.
stopServiceReleaseFirst(h) ==
    << Ignore("releaseDevices"), Record("stopUnit", 0),
       Record("updateServiceState", "stopped"),
       IfErr(h) >>

\* stopService(service): StopUnit, poststopService (it releases the devices
\* and always returns nil), updateServiceState(stopped); the first error
\* is kept in retErr and returned, to the caller's handler h.
stopService(h) ==
    << Record("stopUnit", 0), Ignore("releaseDevices"),
       Record("updateServiceState", "stopped"), IfErr(h) >>

\* stopService whose error the caller only logs.
stopServiceLogged ==
    << Ignore("stopUnit"), Ignore("releaseDevices"),
       Logged("updateServiceState", "stopped") >>

\* A removeService that deletes the row without disabling the unit.
removeServiceKeepUnit ==
    stopServiceLogged
    \o << Ignore("removeFromAllUsers"), Ignore("removeServiceRow") >>

\* removeService(service): every step runs, errors are only logged.
removeService ==
    stopServiceLogged
    \o << Ignore("disableUnit"), Ignore("removeFromAllUsers"),
          Ignore("removeServiceRow") >>

\* An addService whose deferred removeService is set up only after the
\* unit is linked.
addServiceLateDefer(s, v) ==
    << Abort("addServiceRow", Row(v, FALSE, "init"), <<>>),
       Abort("addToCurrentUsers", 0, <<>>),
       Abort("linkUnit", 0, <<>>) >>
    \o startService(s, removeService)

\* addService(service): the row first; after it any error runs the deferred
\* removeService and is returned.
addService(s, v) ==
    << Abort("addServiceRow", Row(v, FALSE, "init"), <<>>),
       Abort("addToCurrentUsers", 0, removeService),
       Abort("linkUnit", 0, removeService) >>
    \o startService(s, removeService)

\* An updateService handler whose restoreService does not link the old
\* unit back into systemd.
updateServiceFailedNoLink(s, old, rest) ==
    LET return  == << ClearErr >> \o rest
        restored == << IfErr(removeService \o return) >> \o return
    IN stopServiceLogged
       \o << ClearErr, Record("updateServiceRow", old) >>
       \o startService(s, restored)
       \o restored

\* The deferred handler of updateService: stop the new version, then
\* restoreService(old) (each step's error kept in its retErr); if restoring
\* fails, removeService(old).  The handler overwrites err with the results
\* of stopService and os.RemoveAll, so updateService returns nil after it and
\* the caller goes on with rest.
updateServiceFailed(s, old, rest) ==
    LET return  == << ClearErr >> \o rest
        restored == << IfErr(removeService \o return) >> \o return
    IN stopServiceLogged
       \o << ClearErr, Record("updateServiceRow", old), Record("linkUnit", 0) >>
       \o startService(s, restored)
       \o restored

\* The deferred handler of updateService once os.RemoveAll(oldService.Path)
\* has run: restoreService(old) puts the old row back, but LinkUnitFiles of
\* the removed unit file and loadServiceSpec of the removed config.json
\* fail, so it always returns an error and removeService(old) follows.
updateServiceFailedFilesGone(s, old, rest) ==
    stopServiceLogged
    \o << ClearErr, Logged("updateServiceRow", old) >>
    \o removeService
    \o << ClearErr >> \o rest

\* updateService(oldService, newService); on error its deferred handler runs
\* and execution goes on with the caller's rest.  os.RemoveAll of the old
\* version's directory, after stopService(old), is where the handler that
\* can restore the old version gives way to the one that cannot.
updateService(s, old, v, rest) ==
    LET h     == updateServiceFailed(s, old, rest)
        hGone == updateServiceFailedFilesGone(s, old, rest)
    IN << Abort("updateServiceState", "stopped", h),
          Abort("addToCurrentUsers", 0, h) >>
       \o stopService(h)
       \o << Abort("linkUnit", 0, hGone) >>
       \o startService(s, hGone)
       \o << Abort("updateServiceRow", Row(v, FALSE, "init"), hGone) >>
       \o rest

\* doActionInstall, after installService returned nil: GetUsersService.
usersServiceCheck == << Abort("getUsersService", 0, <<>>) >>

\* An installService without the version check.
versionAcceptedAlways(v, cur) == TRUE

\* installService's version check: a version older than the installed one
\* (cur, 0 = ErrNotExist) is refused with "version mistmatch".
versionAccepted(v, cur) == ~(cur # 0 /\ v < cur)

\* installService(serviceInfo) from the point where GetService has been
\* read (cur, the stored row) and the users, resources and version checks
\* passed.
installPlan(s, v, cur) ==
    CASE cur.v = v ->
            << Abort("addToCurrentUsers", 0, <<>>) >>
            \o startService(s, <<>>) \o usersServiceCheck
      [] cur.v = 0 ->
            << Abort("download", 0, <<>>) >>
            \o addService(s, v) \o usersServiceCheck
      [] OTHER ->
            << Abort("download", 0, <<>>) >>
            \o updateService(s, cur, v, usersServiceCheck)

\* uninstallService(id) after GetService and the users check passed.
uninstallPlan ==
    stopService(<<>>)
    \o << Abort("getUsersService", 0, <<>>),
          Abort("removeFromUsers", 0, <<>>) >>

\* doUpdateState: GetService, stopService, the storage handler's
\* UpdateState, startService; any error is logged and ends the action.
updateStatePlan(s) ==
    << Abort("getService", 0, <<>>) >>
    \o stopService(<<>>)
    \o << Abort("updateState", 0, <<>>) >>
    \o startService(s, <<>>)

\* The function a dequeued request runs.
Program(s, req) ==
    CASE req.op = "install"   -> << Abort("installService", req.v, <<>>) >>
      [] req.op = "uninstall" -> << Abort("uninstallService", 0, <<>>) >>
      [] req.op = "start"     -> startService(s, <<>>)
      [] req.op = "stop"      -> stopService(<<>>)
      [] req.op = "updateState" -> updateStatePlan(s)

\* releaseDeviceResources: ReleaseDevice for each device in order, up to the
\* first one that fails.
RECURSIVE releaseDeviceResources(_, _, _)
releaseDeviceResources(dws, devices, id) ==
    IF devices = <<>> \/ ~RM!ReleaseDeviceOk(dws, Head(devices), id)
    THEN dws
    ELSE releaseDeviceResources(RM!ReleaseDeviceMap(dws, Head(devices), id),
                                Tail(devices), id)

-----------------------------------------------------------------------------
(* Thread steps.  Calling(t, k): thread t is about to make call k.         *)

Calling(t, k) ==
    /\ job[t].busy
    /\ job[t].prog # <<>>
    /\ Head(job[t].prog).k = k

Arg(t) == Head(job[t].prog).arg

\* The function after its current call returned (ok) or failed.
AfterCall(j, ok) ==
    LET c == Head(j.prog)
    IN [j EXCEPT !.prog = IF ok \/ c.mode # "abort" THEN Tail(j.prog) ELSE c.onErr,
                 !.err  = IF ~ok /\ c.mode # "ignore" THEN TRUE ELSE j.err]

Return(t, ok) == job' = [job EXCEPT ![t] = AfterCall(@, ok)]

\* installService: the users and resources checks, GetService and the
\* version check, then the rest of the function for what was found.
InstallService(t) ==
    LET s == t[1]  v == Arg(t)
        ok == /\ users # NoUsers
              /\ ResourcesValid
              /\ versionAccepted(v, db[s])
    IN /\ Calling(t, "installService")
       /\ job' = IF ok THEN [job EXCEPT ![t].prog = installPlan(s, v, Row(db[s], s \in started, svcState[s]))]
                       ELSE [job EXCEPT ![t] = AfterCall(@, FALSE)]
       /\ UNCHANGED <<users, db, owners, linked, active, grants, queue, main, started, svcState, monitored, restarts>>

\* uninstallService: GetService, the users check, then the rest.
UninstallService(t) ==
    LET ok == db[t[1]] # 0 /\ users # NoUsers
    IN /\ Calling(t, "uninstallService")
       /\ job' = IF ok THEN [job EXCEPT ![t].prog = uninstallPlan]
                       ELSE [job EXCEPT ![t] = AfterCall(@, FALSE)]
       /\ UNCHANGED <<users, db, owners, linked, active, grants, queue, main, started, svcState, monitored, restarts>>

\* downloadAndUnpackImage, validateUnpackedImage, prepareService (its
\* setDevices looks every device of the service up).
Download(t) ==
    /\ Calling(t, "download")
    /\ \E fetched \in IF DownloadMayFail THEN BOOLEAN ELSE {TRUE} :
          Return(t, fetched /\ \A i \in 1..Len(ServiceDevices[t[1]]) :
                                 RM!getAvailableDeviceByName(ServiceDevices[t[1]][i]) # 0)
    /\ UNCHANGED <<users, db, owners, linked, active, grants, queue, main, started, svcState, monitored, restarts>>

\* setDevices of prestartService: RequestDeviceResourceByName per device.
SetDevices(t) ==
    /\ Calling(t, "setDevices")
    /\ Return(t, \A i \in 1..Len(ServiceDevices[t[1]]) :
                    RM!getAvailableDeviceByName(ServiceDevices[t[1]][i]) # 0)
    /\ UNCHANGED <<users, db, owners, linked, active, grants, queue, main, started, svcState, monitored, restarts>>

\* requestDeviceResources: RequestDevice for the i-th device.
RequestDevice(t) ==
    LET s == t[1]  d == ServiceDevices[s][Arg(t)]
    IN /\ Calling(t, "requestDevice")
       /\ grants' = RM!RequestDeviceMap(grants, d, s)
       /\ Return(t, RM!RequestDeviceOk(grants, d, s))
       /\ UNCHANGED <<users, db, owners, linked, active, queue, main, started, svcState, monitored, restarts>>

\* releaseDeviceResources of poststopService.
ReleaseDevices(t) ==
    /\ Calling(t, "releaseDevices")
    /\ grants' = releaseDeviceResources(grants, ServiceDevices[t[1]], t[1])
    /\ Return(t, TRUE)
    /\ UNCHANGED <<users, db, owners, linked, active, queue, main, started, svcState, monitored, restarts>>

\* systemd StartUnit: fails for a unit that is not linked.
StartUnit(t) ==
    LET ok == t[1] \in linked
    IN /\ Calling(t, "startUnit")
       /\ active' = IF ok THEN active \cup {t[1]} ELSE active
       /\ Return(t, ok)
       /\ UNCHANGED <<users, db, owners, linked, grants, queue, main, started, svcState, monitored, restarts>>

\* systemd StopUnit: fails for a unit systemd does not know.
StopUnit(t) ==
    /\ Calling(t, "stopUnit")
    /\ active' = active \ {t[1]}
    /\ Return(t, t[1] \in linked \/ t[1] \in active)
    /\ UNCHANGED <<users, db, owners, linked, grants, queue, main, started, svcState, monitored, restarts>>

\* addServiceToSystemd: LinkUnitFiles, then Reload; either may fail when
\* SystemdMayFail, and a failed Reload leaves the link in place.
LinkUnit(t) ==
    /\ Calling(t, "linkUnit")
    /\ \E linkOk, reloadOk \in IF SystemdMayFail THEN BOOLEAN ELSE {TRUE} :
          /\ linked' = IF linkOk THEN linked \cup {t[1]} ELSE linked
          /\ Return(t, linkOk /\ reloadOk)
    /\ UNCHANGED <<users, db, owners, active, grants, queue, main, started, svcState, monitored, restarts>>

\* systemd DisableUnitFiles: fails for a unit that is not linked, and may
\* fail when SystemdMayFail, leaving the link in place.
DisableUnit(t) ==
    /\ Calling(t, "disableUnit")
    /\ \E ok \in IF SystemdMayFail THEN BOOLEAN ELSE {TRUE} :
          /\ linked' = IF ok THEN linked \ {t[1]} ELSE linked
          /\ Return(t, ok /\ t[1] \in linked)
    /\ UNCHANGED <<users, db, owners, active, grants, queue, main, started, svcState, monitored, restarts>>

\* addServiceToCurrentUsers: GetUsersService(launcher.users, id); with a row
\* it returns nil, without one (ErrNotExist) it calls AddServiceToUsers,
\* with the same error handling.
AddToCurrentUsers(t) ==
    /\ Calling(t, "addToCurrentUsers")
    /\ job' = IF <<users, t[1]>> \in owners
              THEN [job EXCEPT ![t] = AfterCall(@, TRUE)]
              ELSE [job EXCEPT ![t].prog =
                        << [Head(@) EXCEPT !.k = "addServiceToUsers"] >> \o Tail(@)]
    /\ UNCHANGED <<users, db, owners, linked, active, grants, queue, main, started, svcState, monitored, restarts>>

\* AddServiceToUsers(launcher.users, id), launcher.users read again: the
\* INSERT fails on PRIMARY KEY(users, serviceid) when that row exists.
AddServiceToUsers(t) ==
    /\ Calling(t, "addServiceToUsers")
    /\ owners' = owners \cup {<<users, t[1]>>}
    /\ Return(t, <<users, t[1]>> \notin owners)
    /\ UNCHANGED <<users, db, linked, active, grants, queue, main, started, svcState, monitored, restarts>>

\* RemoveServiceFromUsers(launcher.users, id).
RemoveFromUsers(t) ==
    /\ Calling(t, "removeFromUsers")
    /\ owners' = owners \ {<<users, t[1]>>}
    /\ Return(t, TRUE)
    /\ UNCHANGED <<users, db, linked, active, grants, queue, main, started, svcState, monitored, restarts>>

\* RemoveServiceFromAllUsers(id).
RemoveFromAllUsers(t) ==
    /\ Calling(t, "removeFromAllUsers")
    /\ owners' = {o \in owners : o[2] # t[1]}
    /\ Return(t, TRUE)
    /\ UNCHANGED <<users, db, linked, active, grants, queue, main, started, svcState, monitored, restarts>>

\* GetUsersService(launcher.users, id): ErrNotExist without a row.
GetUsersService(t) ==
    /\ Calling(t, "getUsersService")
    /\ Return(t, <<users, t[1]>> \in owners)
    /\ UNCHANGED <<users, db, owners, linked, active, grants, queue, main, started, svcState, monitored, restarts>>

\* GetService(id) (in doUpdateState): ErrNotExist without a row.
GetService(t) ==
    /\ Calling(t, "getService")
    /\ Return(t, db[t[1]] # 0)
    /\ UNCHANGED <<users, db, owners, linked, active, grants, queue, main, started, svcState, monitored, restarts>>

\* AddService: INSERT, which the primary key refuses for an existing row.
AddServiceRow(t) ==
    LET ok == db[t[1]] = 0
    IN /\ Calling(t, "addServiceRow")
       /\ db' = IF ok THEN [db EXCEPT ![t[1]] = Arg(t).v] ELSE db
       /\ started' = IF ok /\ ~Arg(t).startAt THEN started \ {t[1]} ELSE started
       /\ svcState' = IF ok THEN [svcState EXCEPT ![t[1]] = Arg(t).state] ELSE svcState
       /\ Return(t, ok)
       /\ UNCHANGED <<users, owners, linked, active, grants, queue, main, monitored, restarts>>

\* UpdateService: UPDATE of every column, ErrNotExist when no row was affected.
UpdateServiceRow(t) ==
    LET ok == db[t[1]] # 0
    IN /\ Calling(t, "updateServiceRow")
       /\ db' = IF ok THEN [db EXCEPT ![t[1]] = Arg(t).v] ELSE db
       /\ started' = CASE ~ok          -> started
                       [] Arg(t).startAt -> started \cup {t[1]}
                       [] OTHER        -> started \ {t[1]}
       /\ svcState' = IF ok THEN [svcState EXCEPT ![t[1]] = Arg(t).state] ELSE svcState
       /\ Return(t, ok)
       /\ UNCHANGED <<users, owners, linked, active, grants, queue, main, monitored, restarts>>

\* updateMonitoring(service, state): StartMonitorService for running,
\* StopMonitorService for stopped; either may fail (the alert rules do not
\* parse, no IP, the monitor refuses), and the watched set stays as it was.
updateMonitoring(s, state) ==
    LET watched == IF state = "running" THEN monitored \cup {s}
                                        ELSE monitored \ {s}
    IN  IF MonitorMayFail THEN {watched, monitored} ELSE {watched}

\* SetServiceState: UPDATE services SET state; updateServiceState calls it
\* only for a row it has just read, so it affects that row.
SetServiceState(s, state) == [svcState EXCEPT ![s] = state]

\* updateServiceState(id, state, statusOk): GetService (ErrNotExist without
\* a row), updateMonitoring (its error only logged), then SetServiceState
\* if the stored state differs; the status is always statusOk, so
\* SetServiceStatus has nothing to change.
UpdateServiceState(t) ==
    LET s == t[1]  state == Arg(t)  ok == db[s] # 0
    IN /\ Calling(t, "updateServiceState")
       /\ IF ok THEN monitored' \in updateMonitoring(s, state)
                ELSE monitored' = monitored
       /\ svcState' = IF ok THEN SetServiceState(s, state) ELSE svcState
       /\ Return(t, ok)
       /\ UNCHANGED <<users, db, owners, linked, active, grants, queue, main, started, restarts>>

\* SetServiceStartTime: UPDATE startat, ErrNotExist when no row was affected.
SetStartTime(t) ==
    LET ok == db[t[1]] # 0
    IN /\ Calling(t, "setStartTime")
       /\ started' = IF ok THEN started \cup {t[1]} ELSE started
       /\ Return(t, ok)
       /\ UNCHANGED <<users, db, owners, linked, active, grants, queue, main, svcState,
                      monitored, restarts>>

\* RemoveService: DELETE.
RemoveServiceRow(t) ==
    /\ Calling(t, "removeServiceRow")
    /\ db' = [db EXCEPT ![t[1]] = 0]
    /\ started' = started \ {t[1]}
    /\ Return(t, TRUE)
    /\ UNCHANGED <<users, owners, linked, active, grants, queue, main, svcState, monitored,
                   restarts>>

\* storageHandler.UpdateState: writes the state file; it may fail.
UpdateStorageState(t) ==
    /\ Calling(t, "updateState")
    /\ \E ok \in BOOLEAN : Return(t, ok)
    /\ UNCHANGED <<users, db, owners, linked, active, grants, queue, main, started, svcState, monitored, restarts>>

\* retErr := nil
ClearError(t) ==
    /\ Calling(t, "clearErr")
    /\ job' = [job EXCEPT ![t].prog = Tail(@), ![t].err = FALSE]
    /\ UNCHANGED <<users, db, owners, linked, active, grants, queue, main, started, svcState, monitored, restarts>>

\* if retErr != nil { handler }
CheckError(t) ==
    /\ Calling(t, "ifErr")
    /\ Return(t, ~job[t].err)
    /\ UNCHANGED <<users, db, owners, linked, active, grants, queue, main, started, svcState, monitored, restarts>>

\* Every call step of thread t.
CallStep(t) ==
    \/ InstallService(t) \/ UninstallService(t) \/ Download(t)
    \/ SetDevices(t) \/ RequestDevice(t) \/ ReleaseDevices(t)
    \/ StartUnit(t) \/ StopUnit(t) \/ LinkUnit(t) \/ DisableUnit(t)
    \/ AddToCurrentUsers(t) \/ AddServiceToUsers(t) \/ RemoveFromUsers(t) \/ RemoveFromAllUsers(t)
    \/ GetUsersService(t) \/ GetService(t)
    \/ AddServiceRow(t) \/ UpdateServiceRow(t) \/ RemoveServiceRow(t)
    \/ SetStartTime(t) \/ UpdateServiceState(t) \/ UpdateStorageState(t)
    \/ ClearError(t) \/ CheckError(t)

-----------------------------------------------------------------------------
(* The action handler and the end of a handler.                           *)

\* A worker that takes the newest queued request instead of the oldest.
DispatchLast(s) ==
    LET t == <<s, "action">>
    IN /\ ~job[t].busy
       /\ queue[s] # <<>>
       /\ job' = [job EXCEPT ![t] = [busy |-> TRUE, req |-> queue[s][Len(queue[s])],
                                     prog |-> Program(s, queue[s][Len(queue[s])]),
                                     err |-> FALSE]]
       /\ queue' = [queue EXCEPT ![s] = SubSeq(@, 1, Len(@) - 1)]
       /\ UNCHANGED <<users, db, owners, linked, active, grants, main, started, svcState, monitored, restarts>>

\* The worker of service s takes the oldest queued request once the previous
\* one of the same ID has finished.
Dispatch(s) ==
    LET t == <<s, "action">>
    IN /\ ~job[t].busy
       /\ queue[s] # <<>>
       /\ job' = [job EXCEPT ![t] = [busy |-> TRUE, req |-> Head(queue[s]),
                                     prog |-> Program(s, Head(queue[s])),
                                     err |-> FALSE]]
       /\ queue' = [queue EXCEPT ![s] = Tail(@)]
       /\ UNCHANGED <<users, db, owners, linked, active, grants, main, started, svcState, monitored, restarts>>

\* A cleanServicesDB whose goroutines do not report to the status channel.
AcknowledgeStopsAndStarts(waiting, s, req) ==
    IF req.from = "setUsers" THEN waiting \ {s} ELSE waiting

\* The handlers of stopServices, startServices and cleanServicesDB send
\* their result to the status channel the main goroutine counts.
Acknowledge(waiting, s, req) ==
    IF req.from \in {"setUsers", "clean"} THEN waiting \ {s} ELSE waiting

\* A handler returns.
Done(t) ==
    /\ job[t].busy
    /\ job[t].prog = <<>>
    /\ job' = [job EXCEPT ![t] = Idle]
    /\ main' = [main EXCEPT !.waiting = Acknowledge(@, t[1], job[t].req)]
    /\ UNCHANGED <<users, db, owners, linked, active, grants, queue, started, svcState, monitored, restarts>>

-----------------------------------------------------------------------------
(* The main goroutine: processAmqpMessage, and SetUsers on every (re)start *)
(* of the main loop.                                                       *)

\* Service IDs of GetUsersServices(u).
UsersServices(u) == {s \in Services : <<u, s>> \in owners /\ db[s] # 0}

\* Service IDs of GetServices().
Installed == {s \in Services : db[s] # 0}

\* The version GetServicesInfo reports for s (0: not in the list).
currentVersion(s) == IF s \in UsersServices(users) THEN db[s] ELSE 0

\* isUsersEqual: user claim lists are model values, nil is NoUsers.
isUsersEqual(u1, u2) == u1 = u2

\* processAmqpMessage with the cloud's list desired (0 = not in the list):
\* GetServicesInfo, then install the new and newer ones, remove the others.
Reconcile(desired) ==
    LET current(s) == currentVersion(s)
        install    == {s \in Services : desired[s] # 0 /\
                                        (current(s) = 0 \/ desired[s] > current(s))}
        uninstall  == {s \in Services : desired[s] = 0 /\ current(s) # 0}
    IN /\ main.pc = "run"
       /\ install \cup uninstall # {}
       /\ \A s \in install \cup uninstall : Len(queue[s]) < MaxQueue
       /\ queue' = [s \in Services |->
                      IF s \in install THEN Append(queue[s], Request("install", desired[s], "cloud"))
                      ELSE IF s \in uninstall THEN Append(queue[s], Request("uninstall", 0, "cloud"))
                      ELSE queue[s]]
       /\ UNCHANGED <<users, db, owners, linked, active, grants, job, main, started, svcState, monitored, restarts>>

\* UsersChangedChannel, or a lost cloud connection: run returns and the
\* main loop calls SetUsers(vis.GetUsers()).
UsersChanged(u) ==
    /\ main.pc = "run"
    /\ main' = [main EXCEPT !.pc = "setUsers", !.target = u]
    /\ UNCHANGED <<users, db, owners, linked, active, grants, queue, job, started, svcState, monitored, restarts>>

\* Queue req for every service of set ss; main waits for their results.
EnqueueAll(ss, req) ==
    queue' = [s \in Services |-> IF s \in ss THEN Append(queue[s], req) ELSE queue[s]]

\* SetUsers: nothing to do for the same users; otherwise stopServices
\* (GetServices while users is nil, else GetUsersServices(users)).
SetUsersBegin ==
    LET stop == IF users = NoUsers THEN Installed
                ELSE UsersServices(users)
    IN /\ main.pc = "setUsers"
       /\ IF isUsersEqual(users, main.target)
          THEN /\ main' = [main EXCEPT !.pc = "run"]
               /\ UNCHANGED queue
          ELSE /\ EnqueueAll(stop, Request("stop", 0, "setUsers"))
               /\ main' = [main EXCEPT !.pc = "stopping", !.waiting = stop]
       /\ UNCHANGED <<users, db, owners, linked, active, grants, job, started, svcState, monitored, restarts>>

\* All stops reported: launcher.users = users, then AreResourcesValid.
StopsDone ==
    /\ main.pc = "stopping"
    /\ main.waiting = {}
    /\ users' = main.target
    /\ main' = [main EXCEPT !.pc = IF ResourcesValid THEN "startServices" ELSE "run"]
    /\ UNCHANGED <<db, owners, linked, active, grants, queue, job, started, svcState, monitored, restarts>>

\* startServices: GetUsersServices(users), a start for each.
StartServices ==
    /\ main.pc = "startServices"
    /\ EnqueueAll(UsersServices(users), Request("start", 0, "setUsers"))
    /\ main' = [main EXCEPT !.pc = "starting", !.waiting = UsersServices(users)]
    /\ UNCHANGED <<users, db, owners, linked, active, grants, job, started, svcState, monitored, restarts>>

\* cleanServicesDB: every service not among GetUsersServices(users) whose
\* StartAt + TTL is before now is removed by a goroutine of its own; main
\* waits for all of them.  A row with a zero startat has always expired;
\* whether a started one has is a choice when TTLExpires (time is not
\* modelled).
StartsDone ==
    LET candidates == Installed \ UsersServices(users)
        neverStarted == candidates \ started
    IN
    /\ main.pc = "starting"
    /\ main.waiting = {}
    /\ \E ttlOver \in IF TTLExpires THEN SUBSET (candidates \cap started) ELSE {{}} :
       LET expired == neverStarted \cup ttlOver IN
          /\ job' = [t \in Threads |->
                       IF t[2] = "clean" /\ t[1] \in expired
                       THEN [busy |-> TRUE, req |-> Request("remove", 0, "clean"),
                             prog |-> removeService, err |-> FALSE]
                       ELSE job[t]]
          /\ main' = [main EXCEPT !.pc = "cleaning", !.waiting = expired]
    /\ UNCHANGED <<users, db, owners, linked, active, grants, queue, started, svcState, monitored, restarts>>

\* The cloud's UpdateState message for s: launcher.UpdateState queues
\* doUpdateState.
CloudUpdateState(s) ==
    /\ StateUpdates
    /\ main.pc = "run"
    /\ Len(queue[s]) < MaxQueue
    /\ queue' = [queue EXCEPT ![s] = Append(@, Request("updateState", 0, "cloud"))]
    /\ UNCHANGED <<users, db, owners, linked, active, grants, job, main, started, svcState, monitored, restarts>>

\* A new service manager process starts (main): the launcher, its action
\* handler, the resource manager and the monitor are new (users nil, no
\* queued action, no device granted, nothing monitored); the database survives, the unit files systemd has linked
\* and the units it runs are units and running, and main calls SetUsers first.
ProcessStart(units, running) ==
    /\ restarts < MaxRestarts
    /\ restarts' = restarts + 1
    /\ users' = NoUsers
    /\ grants' = [d \in DeviceNames |-> <<>>]
    /\ queue' = [s \in Services |-> <<>>]
    /\ job' = [t \in Threads |-> Idle]
    /\ linked' = units
    /\ active' = running
    /\ \E u \in UserSets : main' = [pc |-> "setUsers", target |-> u, waiting |-> {}]
    /\ monitored' = {}
    /\ UNCHANGED <<db, owners, started, svcState>>

\* The process dies at any step and is started again.
Restart ==
    /\ "crash" \in RestartKinds
    /\ ProcessStart(linked, active)

\* The idle process is stopped, Cleanup runs, and the process starts again:
\* Cleanup stops and disables every unit named aos_*.service whose
\* Description is "AOS Service", reloads systemd and removes the service,
\* storage and upgrade directories; the database is left as it is.
Cleanup ==
    /\ "cleanup" \in RestartKinds
    /\ main.pc = "run"
    /\ \A s \in Services : queue[s] = <<>>
    /\ \A t \in Threads : ~job[t].busy
    /\ ProcessStart({}, {})

\* SetUsers returns; the main loop connects and runs.
CleanDone ==
    /\ main.pc = "cleaning"
    /\ main.waiting = {}
    /\ main' = [main EXCEPT !.pc = "run"]
    /\ UNCHANGED <<users, db, owners, linked, active, grants, queue, job, started, svcState, monitored, restarts>>

-----------------------------------------------------------------------------

\* Start-up: launcher.New leaves users nil, the action handler's queues
\* empty and its workers idle.  The database and the linked units are what
\* earlier runs left; no unit runs and no device is granted; the main loop
\* calls SetUsers first.
Init ==
    /\ users = NoUsers
    /\ db \in [Services -> {0} \cup Versions]
    /\ owners \in SUBSET {<<u, s>> \in UserSets \X Services : db[s] # 0}
    /\ linked = {s \in Services : db[s] # 0}
    /\ started \in SUBSET linked
    /\ svcState \in {f \in [Services -> States] : \A s \in Services : db[s] = 0 => f[s] = "init"}
    /\ monitored = {}
    /\ restarts = 0
    /\ active = {}
    /\ grants = [d \in DeviceNames |-> <<>>]
    /\ queue = [s \in Services |-> <<>>]
    /\ job = [t \in Threads |-> Idle]
    /\ main \in [pc : {"setUsers"}, target : UserSets, waiting : {{}}]

MainStep ==
    \/ SetUsersBegin \/ StopsDone \/ StartServices \/ StartsDone \/ CleanDone

Next ==
    \/ \E t \in Threads : CallStep(t) \/ Done(t)
    \/ \E s \in Services : Dispatch(s)
    \/ MainStep
    \/ \E desired \in [Services -> {0} \cup Versions] : Reconcile(desired)
    \/ \E u \in UserSets : UsersChanged(u)
    \/ \E s \in Services : CloudUpdateState(s)
    \/ Restart
    \/ Cleanup

\* The Go scheduler runs every runnable goroutine; the cloud and the users
\* are not obliged to do anything.
Spec ==
    /\ Init /\ [][Next]_vars
    /\ \A t \in Threads : WF_vars(CallStep(t) \/ Done(t))
    /\ \A s \in Services : WF_vars(Dispatch(s))
    /\ WF_vars(MainStep)

-----------------------------------------------------------------------------
(* Properties.                                                              *)

\* The installed version of a service never goes down while its row exists:
\* installService refuses an older version, and updateService writes the
\* new row only as its last step; on a failure before it the old row is
\* restored, or removed with the service once its files are gone, however installs queued by successive cloud lists interleave
\* with stops, starts and the cleaner.
VersionMonotonic ==
    [][\A s \in Services : db[s] # 0 /\ db'[s] # 0 => db'[s] >= db[s]]_vars

\* SetUsers always returns: every stop, start and clean it waits for is
\* eventually run to its end and reported, even behind the cloud's
\* installs queued for the same service.
SetUsersCompletes == main.pc = "setUsers" ~> main.pc = "run"

\* doActionInstall sends "installed" with the announced version only when
\* that version is the one installed: a handler that has run installService
\* and GetUsersService without error finds its version in the services table.
InstalledStatusTruthful ==
    \A s \in Services :
        LET j == job[<<s, "action">>]
        IN j.busy /\ j.prog = <<>> /\ j.req.op = "install" /\ ~j.err
           => db[s] = j.req.v

\* Index in Declared of the device a service's i-th device resolves to.
DeviceIndexes(s) ==
    {RM!getAvailableDeviceByName(ServiceDevices[s][i]) : i \in 1..Len(ServiceDevices[s])}

\* A device with a sharedCount is never in use by more running units than it
\* admits: a unit runs only after requestDeviceResources was granted every
\* device of its service, and its grants are released only after StopUnit,
\* whatever the workers of other services do in between.
RunningWithinSharedCount ==
    \A i \in 1..Len(Declared) :
        Declared[i].sharedCount > 0 =>
            Cardinality({s \in active : i \in DeviceIndexes(s)}) <= Declared[i].sharedCount

\* A device grant exists only for a service whose unit runs or whose action
\* is in progress (spec, data model invariant): a start that fails on one
\* device gives back the devices granted before it.
GrantsOnlyForRunning ==
    \A s \in Services :
        (\E d \in DeviceNames : \E i \in 1..Len(grants[d]) : grants[d][i] = s)
            => s \in active \/ \E t \in Threads : t[1] = s /\ job[t].busy

\* Nothing is queued or running and main is in run.
Quiescent ==
    /\ main.pc = "run"
    /\ \A s \in Services : queue[s] = <<>>
    /\ \A t \in Threads : ~job[t].busy

\* Once the launcher is idle, every service GetUsersServices reports for the
\* current users (and so GetServicesInfo reports to the cloud as installed)
\* has its unit file linked into systemd, so that startService can run it:
\* addService removes the row when a later step fails, and removeService
\* disables the unit only on its way to deleting the row.
InstalledServicesHaveUnits ==
    Quiescent => UsersServices(users) \subseteq linked

\* Once the launcher is idle after SetUsers, the units that run are services
\* of the current users: SetUsers stops the services of the old users before
\* it assigns launcher.users, and starts only the new users' services.
ServicesOfCurrentUsersOnly ==
    Quiescent => active \subseteq UsersServices(users)

\* Once the launcher is idle, no unit file stays linked into systemd for a
\* service whose row is gone: removeService disables the unit before it
\* deletes the row, and addService's deferred removeService does the same
\* when a step after linkUnit fails, so systemd never keeps a unit that
\* GetServicesInfo no longer reports and no later removal would disable.
NoOrphanUnits ==
    Quiescent => linked \subseteq Installed

\* Once the launcher is idle, the services the monitor watches (the
\* updateMonitoring that updateServiceState runs) are exactly the units that
\* run: startService marks a service running only after prestartService and
\* startService of systemd succeeded, and stopService marks it stopped,
\* whatever the stop of its unit returned.
MonitoringFollowsUnits ==
    Quiescent => monitored = active

=============================================================================
