------------------------------- MODULE MCDevice -------------------------------
(***************************************************************************)
(* The two parts of the device that share no state, each in behaviours of  *)
(* its own: the resources on the interface while the device is connected,  *)
(* and the Wi-Fi connection from the start on.                             *)
(***************************************************************************)
EXTENDS EspResources, EspWifi

VARIABLE part

deviceVars == <<resourcesVars, wifiVars, part>>

Connected ==
  /\ reachable = TRUE /\ status = "GOT_IP" /\ softAP = FALSE
  /\ StationConStatus = "GOT_IP" /\ failRetryCnt = 0
  /\ missedConnections = 0 /\ watching = FALSE /\ puts = 0

DeviceInit ==
  /\ ResourcesInit
  /\ \/ part = "RESOURCES" /\ Connected
     \/ part = "WIFI" /\ WifiInit

DeviceNext ==
  /\ UNCHANGED part
  /\ \/ part = "RESOURCES" /\ ResourcesNext /\ UNCHANGED wifiVars
     \/ part = "WIFI" /\ WifiNext /\ UNCHANGED resourcesVars

DeviceSpec ==
  /\ DeviceInit /\ [][DeviceNext]_deviceVars
  /\ part = "RESOURCES" => ResourcesFairness
  /\ part = "WIFI" => WifiFairness
=============================================================================
