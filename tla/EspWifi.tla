------------------------------- MODULE EspWifi -------------------------------
(***************************************************************************)
(* Who looks after the Wi-Fi connection: the Lobaro monitor                *)
(* (connection_timer_cb in lobaro-coap_esp8266.c), the Sming application   *)
(* (wifi.cpp) and the resource wifi/config (wifi_cfg_res.c).  They share   *)
(* one station and one soft AP and do not know of each other.              *)
(*                                                                         *)
(* The station is external: it comes to an end of every attempt to connect *)
(* and tries again until it is told to disconnect.  The device can be      *)
(* talked to while the station has an address or the soft AP is on.        *)
(***************************************************************************)
EXTENDS Integers

CONSTANTS
  MAX_CON_RETRIES_BEFORE_ACTIVATING_SOFT_AP,
  maxMissedConnections,
  MaxPuts        \* bound: how often the configuration is written

ASSUME WifiAssumption ==
  /\ MAX_CON_RETRIES_BEFORE_ACTIVATING_SOFT_AP \in Nat
  /\ maxMissedConnections \in 0..254 /\ MaxPuts \in Nat

VARIABLES
  reachable,          \* whether the configured access point can be reached
  status,             \* wifi_station_get_connect_status
  softAP,             \* whether the soft AP is on
  StationConStatus,   \* the status the monitor saw last
  failRetryCnt,
  missedConnections,
  watching,           \* WifiStation.waitConnection waits
  puts                \* writes of the configuration so far

wifiVars == <<reachable, status, softAP, StationConStatus, failRetryCnt,
              missedConnections, watching, puts>>

\* Attempts end with NO_AP_FOUND, WRONG_PASSWORD or CONNECT_FAIL.
Failures == {"NO_AP", "FAIL"}
Status == {"IDLE", "CONNECTING", "GOT_IP"} \cup Failures

(***************************************************************************)
(* The station.                                                            *)
(***************************************************************************)
AttemptEnds ==
  /\ status = "CONNECTING"
  /\ IF reachable THEN status' = "GOT_IP" ELSE status' \in Failures
  /\ UNCHANGED <<reachable, softAP, StationConStatus, failRetryCnt,
                 missedConnections, watching, puts>>

TriesAgain ==
  /\ status \in Failures /\ status' = "CONNECTING"
  /\ UNCHANGED <<reachable, softAP, StationConStatus, failRetryCnt,
                 missedConnections, watching, puts>>

AccessPointChanges ==
  /\ reachable' = ~reachable
  /\ status' = IF status = "GOT_IP" THEN "CONNECTING" ELSE status
  /\ UNCHANGED <<softAP, StationConStatus, failRetryCnt, missedConnections,
                 watching, puts>>

(***************************************************************************)
(* The monitor, every two seconds.                                         *)
(***************************************************************************)
\* An attempt that failed counts if the status was another one before.
FailedAttempt == status \in Failures /\ status # StationConStatus

CountedRetries ==
  CASE status = "GOT_IP" /\ StationConStatus # "GOT_IP" -> 0
    [] FailedAttempt -> failRetryCnt + 1
    [] OTHER -> failRetryCnt

GivesUp == CountedRetries > MAX_CON_RETRIES_BEFORE_ACTIVATING_SOFT_AP

\* Connected as before: nothing else is looked at.
connection_timer_cb ==
  /\ ~(status = "GOT_IP" /\ StationConStatus = "GOT_IP")
  /\ StationConStatus' = status
  /\ IF GivesUp
     THEN status' = "IDLE" /\ softAP' = TRUE /\ failRetryCnt' = 0
     ELSE /\ status' = IF FailedAttempt THEN "CONNECTING" ELSE status
          /\ failRetryCnt' = CountedRetries /\ UNCHANGED softAP
  /\ UNCHANGED <<reachable, missedConnections, watching, puts>>

(***************************************************************************)
(* The application.                                                        *)
(***************************************************************************)
\* It does not wait for the connection again.
connectOk ==
  /\ watching /\ status = "GOT_IP"
  /\ missedConnections' = 0 /\ watching' = FALSE
  /\ UNCHANGED <<reachable, status, softAP, StationConStatus, failRetryCnt, puts>>

\* Variant of connectFail: it does not wait again.
connectFailOnce ==
  /\ watching /\ status # "GOT_IP"
  /\ missedConnections' = missedConnections + 1
  /\ softAP' = (softAP \/ missedConnections' > maxMissedConnections)
  /\ watching' = FALSE
  /\ UNCHANGED <<reachable, status, StationConStatus, failRetryCnt, puts>>

\* After 30 or 10 seconds without a connection.
connectFail ==
  /\ watching /\ status # "GOT_IP"
  /\ missedConnections' = missedConnections + 1
  /\ softAP' = (softAP \/ missedConnections' > maxMissedConnections)
  /\ watching' = (missedConnections' <= maxMissedConnections)
  /\ UNCHANGED <<reachable, status, StationConStatus, failRetryCnt, puts>>

(***************************************************************************)
(* wifi/config: a PUT disconnects, then sets the configuration, and        *)
(* connects only if that succeeds.                                         *)
(***************************************************************************)
PutConfig ==
  /\ status = "GOT_IP" \/ softAP
  /\ puts < MaxPuts /\ puts' = puts + 1
  /\ \/ status' = "CONNECTING" /\ reachable' \in BOOLEAN
     \/ status' = "IDLE" /\ UNCHANGED reachable
  /\ UNCHANGED <<softAP, StationConStatus, failRetryCnt, missedConnections,
                 watching>>

(***************************************************************************)
(* The specification, from the start on: wifiSetup has begun to wait for   *)
(* the connection, then CoAP_ESP8266_ConfigDevice has set the station mode *)
(* (whatever the application's configuration said of the soft AP) and has  *)
(* connected, or started the soft AP where the configuration was not taken.*)
(***************************************************************************)
WifiInit ==
  /\ reachable \in BOOLEAN
  /\ \/ status = "CONNECTING" /\ softAP = FALSE
     \/ status = "IDLE" /\ softAP = TRUE
  /\ StationConStatus = "UNKNOWN" /\ failRetryCnt = 0
  /\ missedConnections = 0 /\ watching = TRUE
  /\ puts = 0

WifiNext ==
  \/ AttemptEnds \/ TriesAgain \/ AccessPointChanges
  \/ connection_timer_cb \/ connectOk \/ connectFail
  \/ PutConfig

\* Both timers run; attempts end.
WifiFairness ==
  /\ WF_wifiVars(AttemptEnds)
  /\ WF_wifiVars(connection_timer_cb)
  /\ WF_wifiVars(connectOk \/ connectFail)

(***************************************************************************)
(* Properties.                                                             *)
(***************************************************************************)
\* A device that starts can be talked to sooner or later, over the access point
\* or over its own: the monitor may count no failure at all (it polls, and
\* counts only changes), then the application's count gets there
\* (connection_timer_cb, connectFail).
BecomesReachable == <>(status = "GOT_IP" \/ softAP)
=============================================================================
