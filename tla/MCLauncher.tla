----------------------------- MODULE MCLauncher -----------------------------
(* Launcher with two services, two user claim lists and two versions.      *)
EXTENDS Launcher

CONSTANTS sa, sb, u1, u2, none, cam, lidar

MCServices == {sa, sb}
MCOneService == {sa}
MCUserSets == {u1, u2}
MCOneUser == {u1}
MCVersions == {1, 2}
MCOneVersion == {1}
MCDeviceNames == {cam, lidar}
\* sa needs both devices, sb only the lidar, which only one service may hold.
MCServiceDevices == [s \in MCServices |-> IF s = sa THEN <<cam, lidar>> ELSE <<lidar>>]
MCDeclared == << [name |-> cam, sharedCount |-> 0], [name |-> lidar, sharedCount |-> 1] >>
MCSubstr == {}
MCMaxQueue == 1

=============================================================================
