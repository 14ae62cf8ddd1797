------------------------------- MODULE CoapPaced -------------------------------
(***************************************************************************)
(* The stack under the scheduling of server.c: a 100 ms timer calls        *)
(* CoAP_doWork, so between two ticks of the 1 Hz clock it runs CallsPerTick *)
(* times (10 in the program).  Only with a pace does a deadline on that    *)
(* clock mean anything.                                                    *)
(***************************************************************************)
EXTENDS CoapMain

CONSTANT CallsPerTick
ASSUME PaceAssumption == CallsPerTick \in Nat \ {0}

VARIABLE calls    \* calls of CoAP_doWork since the last tick

pacedVars == <<vars, calls>>

PacedInit == Init /\ calls = 0

\* With an empty list CoAP_doWork returns at once.
PacedTick == Tick /\ (calls = CallsPerTick \/ list = <<>>) /\ calls' = 0
PacedWork ==
  doWork /\ calls' = IF calls < CallsPerTick THEN calls + 1 ELSE calls

PacedNext ==
  \/ PacedTick
  \/ PacedWork
  \/ StartNotifyInteractions /\ UNCHANGED calls
  \/ onNewPacketHandler /\ UNCHANGED calls
  \/ \E r \in Changing : NotifyResourceObservers(r) /\ UNCHANGED calls
  \/ \E ep \in Servers : StartNewGetRequest(ep) /\ UNCHANGED calls

\* The timer and the clock go on for ever, and the loop of a running callback
\* is finished; nothing is assumed of the network or the application.  Between
\* two callbacks both are always enabled; fairness is strong only because the
\* notify loop, a part of one callback, is several steps here.
PacedSpec ==
  /\ PacedInit /\ [][PacedNext]_pacedVars
  /\ SF_pacedVars(PacedTick) /\ SF_pacedVars(PacedWork)
  /\ WF_pacedVars(StartNotifyInteractions /\ UNCHANGED calls)

(***************************************************************************)
(* Liveness.                                                               *)
(***************************************************************************)
\* A deadline the clock never gets past: it wraps to 0 before.
Overrun(a) == a.ackTo >= RtcMod - 1 \/ a.sleep >= RtcMod

\* Every request is worked off and every request of ours answered or given up,
\* unless the clock overruns the interaction's deadline.
EndsUnlessClockOverruns ==
  \A s \in Slots :
    ia[s].role \in {"SERVER", "CLIENT"} ~>
      (ia[s].role \notin {"SERVER", "CLIENT"} \/ Overrun(ia[s]))

\* No interaction starves: whatever the others do, each one gets to the head
\* of the list again and again until it ends.
EveryoneGetsTheirTurn ==
  \A s \in Slots : s \in Linked ~> (s \notin Linked \/ list[1] = s)

\* A change that finds a notification under way is not put off for ever: the
\* notification is refreshed, or ends together with the observation.
UpdateGetsOut ==
  \A s \in Slots : ia[s].upd ~> (~ia[s].upd \/ Overrun(ia[s]))
=============================================================================
