---------------------------- MODULE RequestPromise ----------------------------
(***************************************************************************)
(* What CoapClient promises the caller of get, put, post or del: a request *)
(* is tried a limited number of times, and its callback is called at most  *)
(* once: with success after some try, with failure only when all tries are *)
(* used up.                                                                *)
(***************************************************************************)
EXTENDS Naturals, Sequences

CONSTANTS Requests, MaxTries

VARIABLES
  limit,     \* the tries a request may use: 1, or MaxTries; 0 if not yet made
  tries,     \* the tries it has used
  heard      \* the calls of its callback

promiseVars == <<limit, tries, heard>>

PromiseInit ==
  /\ limit = [r \in Requests |-> 0]
  /\ tries = [r \in Requests |-> 0]
  /\ heard = [r \in Requests |-> <<>>]

\* A request that never gets further is one the client had no memory for.
Make(r) ==
  /\ limit[r] = 0
  /\ \E n \in {1, MaxTries} : limit' = [limit EXCEPT ![r] = n]
  /\ \E k \in {0, 1} : tries' = [tries EXCEPT ![r] = k]
  /\ UNCHANGED heard

TryAgain(r) ==
  /\ heard[r] = <<>> /\ tries[r] \in 1..(limit[r] - 1)
  /\ tries' = [tries EXCEPT ![r] = @ + 1]
  /\ UNCHANGED <<limit, heard>>

Tell(r, outcome) ==
  /\ heard[r] = <<>> /\ tries[r] > 0
  /\ outcome = "FAILED" => tries[r] = limit[r]
  /\ heard' = [heard EXCEPT ![r] = <<outcome>>]
  /\ UNCHANGED <<limit, tries>>

PromiseNext ==
  \E r \in Requests :
    Make(r) \/ TryAgain(r) \/ \E outcome \in {"ANSWERED", "FAILED"} : Tell(r, outcome)

PromiseSpec == PromiseInit /\ [][PromiseNext]_promiseVars
=============================================================================
