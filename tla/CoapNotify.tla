------------------------------ MODULE CoapNotify ------------------------------
(***************************************************************************)
(* The notification role of the Lobaro stack (RFC 7641): a resource that   *)
(* changed calls CoAP_NotifyResourceObservers, whose loop starts, flags or *)
(* skips one notification per observer, and CoAP_doWork transmits them.    *)
(*                                                                         *)
(* The loop of CoAP_StartNotifyInteractions is one step per observer; no   *)
(* other step happens until it ends (Running is FALSE meanwhile).          *)
(***************************************************************************)
EXTENDS CoapInteraction

CONSTANTS
  ConEvery,        \* every ConEvery-th update goes out as CON (20)
  NotifierCodes,   \* the codes a Notifier may put into a notification
  NotifierTypes,   \* the types it may give one
  NotifierMayFail  \* it may return something else than COAP_OK

ASSUME NotifyAssumption ==
  /\ ConEvery \in Nat \ {0}
  /\ NotifierCodes \subseteq {"CONTENT", "ERROR"}
  /\ NotifierTypes \subseteq {"CON", "NON"}
  /\ NotifierMayFail \in BOOLEAN

NextObserver(r, pos, q) ==
  IF pos > Len(q) THEN NoNotify ELSE [res |-> r, pos |-> pos]

\* CoAP_NotifyResourceObservers, while the bound leaves the loop enough
\* message IDs.
\* Variant: the update counter is wider than CntMod.
NotifyWithoutWrap(r) ==
  /\ Running /\ MidsLeft(Len(observers[r])) /\ updateCnt[r] <= CntMod
  /\ updateCnt' = [updateCnt EXCEPT ![r] = @ + 1]
  /\ notifying' = NextObserver(r, 1, observers[r])
  /\ Silent /\ NoLoss
  /\ UNCHANGED <<now, mid, list, ia, observers, ownTok, fault>>

NotifyResourceObservers(r) ==
  /\ Running /\ MidsLeft(Len(observers[r]))
  /\ updateCnt' = [updateCnt EXCEPT ![r] = (@ + 1) % CntMod]
  /\ notifying' = NextObserver(r, 1, observers[r])
  /\ Silent /\ NoLoss
  /\ UNCHANGED <<now, mid, list, ia, observers, ownTok, fault>>

(***************************************************************************)
(* One round of the loop of CoAP_StartNotifyInteractions, for observer o.  *)
(***************************************************************************)
\* Variant of PendingNotification: notifications in flight are overlooked.
NotificationUnsent(r, o) ==
  Matching(LAMBDA a : /\ a.role = "NOTIFICATION" /\ a.res = r /\ a.ep = o.ep
                      /\ a.st = "READY_TO_NOTIFY")

PendingNotification(r, o) ==
  Matching(LAMBDA a : a.role = "NOTIFICATION" /\ a.res = r /\ a.ep = o.ep)

LoopRes == notifying.res
LoopObserver == observers[LoopRes][notifying.pos]
LoopGoesOn ==
  notifying' = NextObserver(LoopRes, notifying.pos + 1, observers[LoopRes])

\* Variant of FlagPending: the observer is skipped without a flag.
SkipPending ==
  /\ PendingNotification(LoopRes, LoopObserver) # {}
  /\ LoopGoesOn
  /\ UNCHANGED <<mid, list, ia, observers>>

FlagPending ==
  LET pending == PendingNotification(LoopRes, LoopObserver) IN
  /\ pending # {}
  /\ ia' = [ia EXCEPT ![list[First(pending)]].upd = TRUE]
  /\ LoopGoesOn
  /\ UNCHANGED <<mid, list, observers>>

\* No block for a new interaction: the loop is left, later observers too.
NoRoomForNotification ==
  /\ PendingNotification(LoopRes, LoopObserver) = {} /\ FreeSlots = {}
  /\ notifying' = NoNotify
  /\ UNCHANGED <<mid, list, ia, observers>>

\* No message, or the Notifier refuses: the new interaction is freed again.
NotificationDropped ==
  /\ PendingNotification(LoopRes, LoopObserver) = {} /\ FreeSlots # {}
  /\ MemMayFail \/ NotifierMayFail
  /\ DrawMid /\ LoopGoesOn
  /\ UNCHANGED <<list, ia, observers>>

\* "every 20th message as CON even if notify handler defines ... NON"
NotificationType(type) ==
  IF type = "NON" /\ updateCnt[LoopRes] % ConEvery = 0 THEN "CON" ELSE type

NewNotification(code, type, obs) ==
  [NewInteraction EXCEPT
     !.role = "NOTIFICATION", !.st = "READY_TO_NOTIFY",
     !.ep = LoopObserver.ep, !.res = LoopRes, !.observer = LoopObserver.id,
     !.resp = [type |-> type, code |-> code, mid |-> GetNextMid(mid),
               tok |-> LoopObserver.tok, obs |-> obs, ts |-> 0]]

StartNotification(type) ==
  /\ PendingNotification(LoopRes, LoopObserver) = {}
  /\ "CONTENT" \in NotifierCodes
  /\ DrawMid
  /\ \E s \in FreeSlots :
       /\ \E obs \in ObserveOption(updateCnt[LoopRes]) :
            ia' = [ia EXCEPT ![s] =
                     NewNotification("CONTENT", NotificationType(type), obs)]
       /\ list' = Append(list, s)
  /\ LoopGoesOn
  /\ UNCHANGED observers

\* Variant of NotifierError: after the saved successor, the loop takes the next
\* one once more (the continue is missing).
NotifierErrorSkips(type) ==
  /\ PendingNotification(LoopRes, LoopObserver) = {}
  /\ "ERROR" \in NotifierCodes
  /\ DrawMid
  /\ \E s \in FreeSlots :
       ia' = [ia EXCEPT ![s] = NewNotification("ERROR", type, NoObserve)]
  /\ LET q == WithoutObserver(observers[LoopRes], LoopObserver.ep,
                              LoopObserver.tok)
     IN /\ observers' = [observers EXCEPT ![LoopRes] = q]
        /\ notifying' = NextObserver(LoopRes, notifying.pos + 1, q)
  /\ UNCHANGED list

\* A Notifier's error code removes the observer; the loop continues with the
\* next one and leaves the new interaction behind.
NotifierError(type) ==
  /\ PendingNotification(LoopRes, LoopObserver) = {}
  /\ "ERROR" \in NotifierCodes
  /\ DrawMid
  /\ \E s \in FreeSlots :
       ia' = [ia EXCEPT ![s] = NewNotification("ERROR", type, NoObserve)]
  /\ LET q == WithoutObserver(observers[LoopRes], LoopObserver.ep,
                              LoopObserver.tok)
     IN /\ observers' = [observers EXCEPT ![LoopRes] = q]
        /\ notifying' = NextObserver(LoopRes, notifying.pos, q)
  /\ UNCHANGED list

StartNotifyInteractions ==
  /\ ~fault /\ notifying # NoNotify
  /\ \/ FlagPending \/ NoRoomForNotification \/ NotificationDropped
     \/ \E type \in NotifierTypes : StartNotification(type) \/ NotifierError(type)
  /\ Silent /\ NoLoss
  /\ UNCHANGED <<now, updateCnt, ownTok, fault>>

(***************************************************************************)
(* CoAP_doWork, notification role.                                         *)
(***************************************************************************)
ReadyToNotify ==
  /\ Turn("NOTIFICATION", {"READY_TO_NOTIFY"})
  /\ SendResp(ia[Head1], "NOTIFICATION_SENT", list, ia)
  /\ UNCHANGED <<now, mid, observers, updateCnt, notifying, ownTok, lost>>

\* Variant of Refreshed: the flag is not cleared.
RefreshedStillFlagged(a, code, type, obs) ==
  [a EXCEPT !.resp = [@ EXCEPT !.mid = GetNextMid(mid), !.code = code,
                               !.type = type, !.obs = obs]]

\* The Notifier writes a fresh representation into the pending message.  Its
\* result is compared with a response code, so it never counts as an error.
Refreshed(a, code, type, obs) ==
  [a EXCEPT !.upd = FALSE,
            !.resp = [@ EXCEPT !.mid = GetNextMid(mid), !.code = code,
                               !.type = type, !.obs = obs]]

NotificationWaiting(a) ==
  /\ CheckRespStatus(a) \in {"WAITING", "HOLDING_BACK"}
  /\ Requeue(a) /\ Silent
  /\ UNCHANGED <<mid, observers, fault>>

\* "4.5.2. Advanced Transmission": the retry carries the fresh state.
NotificationRetry(a) ==
  /\ CheckRespStatus(a) = "RETRY"
  /\ IF a.upd
       THEN /\ DrawMid
            /\ \E code \in NotifierCodes,
                  obs \in ObserveOption(updateCnt[a.res]) :
                 ResendResp(Refreshed(a, code, a.resp.type, obs))
       ELSE UNCHANGED mid /\ ResendResp(a)
  /\ UNCHANGED observers

Restarted(a) ==
  [a EXCEPT !.st = "READY_TO_NOTIFY", !.retrans = 0, !.respRel = "NOT_SET"]

NotificationDone(a) ==
  /\ CheckRespStatus(a) = "OK"
  /\ IF a.upd
       THEN /\ DrawMid
            /\ \E code \in NotifierCodes,
                  type \in NotifierTypes \cup {a.resp.type},
                  obs \in ObserveOption(updateCnt[a.res]) :
                 Requeue(Restarted(Refreshed(a, code, type, obs)))
       ELSE UNCHANGED mid /\ Delete
  /\ Silent
  /\ UNCHANGED <<observers, fault>>

\* Variant: a client that stays silent keeps its observation.
AbortedOnlyByReset(a) ==
  /\ CheckRespStatus(a) \in {"REMOTE_RST", "OUT_OF_ATTEMPTS"}
  /\ IF CheckRespStatus(a) = "REMOTE_RST"
       THEN observers' = [observers EXCEPT ![a.res] =
                            WithoutObserver(@, a.ep, a.resp.tok)]
       ELSE observers' = observers
  /\ Delete /\ Silent
  /\ UNCHANGED <<mid, fault>>

\* Variant: the first observation of the endpoint is taken for the failed one.
AbortedForEndpoint(a) ==
  /\ CheckRespStatus(a) \in {"REMOTE_RST", "OUT_OF_ATTEMPTS"}
  /\ observers' = [observers EXCEPT ![a.res] =
                     RemoveFirstMatch(@, LAMBDA o : o.ep = a.ep)]
  /\ Delete /\ Silent
  /\ UNCHANGED <<mid, fault>>

NotificationAborted(a) ==
  /\ CheckRespStatus(a) \in {"REMOTE_RST", "OUT_OF_ATTEMPTS"}
  /\ observers' = [observers EXCEPT ![a.res] =
                     WithoutObserver(@, a.ep, a.resp.tok)]
  /\ Delete /\ Silent
  /\ UNCHANGED <<mid, fault>>

NotificationSent ==
  LET a == ia[Head1] IN
  /\ Turn("NOTIFICATION", {"NOTIFICATION_SENT"})
  /\ \/ NotificationWaiting(a) \/ NotificationRetry(a)
     \/ NotificationDone(a) \/ NotificationAborted(a)
  /\ UNCHANGED <<now, updateCnt, notifying, ownTok, lost>>

NotifyWork == ReadyToNotify \/ NotificationSent
=============================================================================
