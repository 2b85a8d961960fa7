--------------------------- MODULE ResourceManager ---------------------------
(***************************************************************************)
(* The device resource manager of the service manager (package            *)
(* resourcemanager, src/unnamed/part_007).  It keeps, under one mutex, the *)
(* map deviceWithServices from a requested device name to the list of     *)
(* service IDs that were given the device, and admits a request against   *)
(* the SharedCount of the declared device resource the name resolves to.  *)
(*                                                                         *)
(* Strings are model values.  The code compares them with strings.Contains *)
(* (substring), so the module takes the substring relation as a constant: *)
(* <<a, b>> \in Substr means that string a contains string b, a # b.       *)
(* Each operation is one atomic step: it runs entirely under the mutex.   *)
(***************************************************************************)
EXTENDS Naturals, Sequences, SequencesExt

CONSTANTS
    ServiceIDs,   \* service IDs a caller passes as serviceID
    DeviceNames,  \* device names a caller passes as device
    Declared,     \* availableResources.Devices: a sequence of [name, sharedCount]
    Substr        \* <<a, b>> \in Substr iff a # b and strings.Contains(a, b)

ASSUME Declared \in Seq([name : DeviceNames, sharedCount : Nat])

VARIABLE deviceWithServices   \* [device name -> list of service IDs]

rmVars == <<deviceWithServices>>

\* strings.Contains(a, b)
StrContains(a, b) == a = b \/ <<a, b>> \in Substr

\* contains(arr, str): some element of arr has str as a substring.
contains(arr, str) == \E i \in 1..Len(arr) : StrContains(arr[i], str)

\* removeFromSlice(arr, str): drop the first element equal to str.
removeFromSlice(arr, str) == RemoveFirst(arr, str)

\* isAvailableResourcesChecked: a resource configuration was loaded.
isAvailableResourcesChecked == Len(Declared) # 0

\* getAvailableDeviceByName: index of the first declared resource whose name
\* is a substring of the requested name; 0 when there is none (the error).
getAvailableDeviceByName(name) ==
    SelectInSeq(Declared, LAMBDA r : StrContains(name, r.name))

\* Mutant of Admits: the bound compared with >= instead of >.
AdmitsOrEqual(sharedCount, listOfServices) ==
    sharedCount = 0 \/ sharedCount >= Len(listOfServices)

\* The admission test of RequestDevice: SharedCount 0 is unlimited.
Admits(sharedCount, listOfServices) ==
    sharedCount = 0 \/ sharedCount > Len(listOfServices)

\* RequestDevice returns nil, given the map dws it reads under the mutex.
RequestDeviceOk(dws, device, serviceID) ==
    /\ isAvailableResourcesChecked
    /\ getAvailableDeviceByName(device) # 0
    /\ Admits(Declared[getAvailableDeviceByName(device)].sharedCount,
              dws[device])

\* RequestDevice(device, serviceID): the map it leaves.  On success the ID is
\* appended unless the list already "contains" it (then only a warning).
RequestDeviceMap(dws, device, serviceID) ==
    IF RequestDeviceOk(dws, device, serviceID) /\ ~contains(dws[device], serviceID)
    THEN [dws EXCEPT ![device] = Append(@, serviceID)]
    ELSE dws

\* ReleaseDevice returns nil.
ReleaseDeviceOk(dws, device, serviceID) ==
    /\ isAvailableResourcesChecked
    /\ getAvailableDeviceByName(device) # 0
    /\ contains(dws[device], serviceID)

\* ReleaseDevice(device, serviceID): the map it leaves.
ReleaseDeviceMap(dws, device, serviceID) ==
    IF ReleaseDeviceOk(dws, device, serviceID)
    THEN [dws EXCEPT ![device] = removeFromSlice(@, serviceID)]
    ELSE dws

\* The two operations as steps of the component.
RequestDevice(device, serviceID) ==
    deviceWithServices' = RequestDeviceMap(deviceWithServices, device, serviceID)

ReleaseDevice(device, serviceID) ==
    deviceWithServices' = ReleaseDeviceMap(deviceWithServices, device, serviceID)

\* New: the map starts empty.
RMInit == deviceWithServices = [d \in DeviceNames |-> <<>>]

RMTypeOK == deviceWithServices \in [DeviceNames -> Seq(ServiceIDs)]
=============================================================================
