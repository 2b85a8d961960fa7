-------------------------- MODULE MCResourceManager --------------------------
(***************************************************************************)
(* The resource manager alone, driven by callers that request and release *)
(* devices in any order (the launcher's startService and stopService do   *)
(* so for every device of a service, from concurrent workers).  held is   *)
(* the callers' view: the devices whose last RequestDevice returned nil   *)
(* and that the caller has not released since.                            *)
(***************************************************************************)
EXTENDS ResourceManager, FiniteSets

CONSTANTS s1, s2, s3, s10, cam, gps, lidar

VARIABLE held   \* [service ID -> set of device names the caller holds]

vars == <<deviceWithServices, held>>

\* A caller asks for a device; on nil it believes it holds the device.
Request(s, d) ==
    /\ RequestDevice(d, s)
    /\ held' = IF RequestDeviceOk(deviceWithServices, d, s)
               THEN [held EXCEPT ![s] = @ \cup {d}]
               ELSE held

\* A caller gives a device back (stopService releases every device of the
\* service, whether or not it got it); on nil it no longer holds it.
Release(s, d) ==
    /\ ReleaseDevice(d, s)
    /\ held' = IF ReleaseDeviceOk(deviceWithServices, d, s)
               THEN [held EXCEPT ![s] = @ \ {d}]
               ELSE held

Init == RMInit /\ held = [s \in ServiceIDs |-> {}]

Next == \E s \in ServiceIDs, d \in DeviceNames : Request(s, d) \/ Release(s, d)

Spec == Init /\ [][Next]_vars

TypeOK == RMTypeOK /\ held \in [ServiceIDs -> SUBSET DeviceNames]

\* The services that, by the answers they got, use a declared device.
Users(i) == {s \in ServiceIDs :
                \E d \in held[s] : getAvailableDeviceByName(d) = i}

(***************************************************************************)
(* DeviceExclusive: a declared device with SharedCount n > 0 is used by at *)
(* most n services at once, counting every service whose RequestDevice     *)
(* returned nil and that has not released it (RequestDevice's admission    *)
(* test against the list in deviceWithServices).                          *)
(***************************************************************************)
DeviceExclusive ==
    \A i \in 1..Len(Declared) :
        Declared[i].sharedCount > 0 =>
            Cardinality(Users(i)) <= Declared[i].sharedCount

\* Model values: cam shared by two services, lidar by one, gps unlimited.
MCDeclared == << [name |-> cam, sharedCount |-> 2],
                 [name |-> lidar, sharedCount |-> 1],
                 [name |-> gps, sharedCount |-> 0] >>
MCDeviceNames == {cam, lidar, gps}
\* IDs none of which is a substring of another.
MCServiceIDs == {s1, s2, s3}
MCSubstr == {}
\* IDs as the cloud numbers them: "s10" contains "s1".
MCServiceIDsNumbered == {s1, s2, s10}
MCSubstrNumbered == {<<s10, s1>>}
=============================================================================
