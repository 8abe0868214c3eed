----------------------- MODULE DagSyncTrigger_proofs -----------------------
(***************************************************************************)
(* The results of DagSyncTrigger tell the truth, for any number of stores, *)
(* DAGs, retries, calls, faults and other people.                          *)
(***************************************************************************)
EXTENDS DagSyncTrigger, TLAPS

\* The steps of everybody but the call.
OthersStep == \E r \in Runs : StartRun(r) \/ EndRun(r) \/ DisturbRun(r)

\* The steps that start the call, or a store, or lose them: nothing is left of the
\* lists.
FreshStep == TriggerStores \/ EndStore \/ CallerDies \/ (again /\ (TriggerFails \/ StillExists))

-----------------------------------------------------------------------------
(* The two lists of a call *)

LEMMA DagList ==
  ASSUME config \in Configurations
  PROVE  /\ Len(config.dags) \in Nat \ {0}
         /\ \A i \in 1 .. Len(config.dags) : config.dags[i] \in Dags
         /\ \A i, j \in 1 .. Len(config.dags) : config.dags[i] = config.dags[j] => i = j
         /\ DOMAIN config.dags = 1 .. Len(config.dags)
BY ConfigIsSound DEF IsListOf

LEMMA StoreList ==
  ASSUME config \in Configurations
  PROVE  /\ Len(config.stores) \in Nat \ {0}
         /\ \A i \in 1 .. Len(config.stores) : config.stores[i] \in Stores
         /\ \A i, j \in 1 .. Len(config.stores) : config.stores[i] = config.stores[j] => i = j
BY ConfigIsSound DEF IsListOf

LEMMA Modes ==
  ASSUME config \in Configurations
  PROVE  config.sdk \in BOOLEAN /\ config.parallel \in BOOLEAN /\ config.wait \in BOOLEAN
BY ConfigIsSound

\* The run of a DAG, at a store.
LEMMA RunType ==
  ASSUME TypeOK, PositionInvariant, pc # "idle", NEW d \in Dags
  PROVE  Run(d) \in Runs
<1>1. store \in 1 .. Len(config.stores)
  BY StoreList DEF TypeOK, PositionInvariant
<1> QED
  BY <1>1, StoreList DEF Run, Runs, TypeOK

LEMMA RunsDiffer ==
  ASSUME NEW d, NEW e, Run(d) = Run(e)
  PROVE  d = e
BY DEF Run

\* The list of the DAGs come to, as the loop goes on.
LEMMA ReachedGrows ==
  ASSUME NEW n \in Nat
  PROVE  /\ Reached(0) = {}
         /\ Reached(n + 1) = Reached(n) \cup {config.dags[n + 1]}
BY DEF Reached

LEMMA ReachedIsNew ==
  ASSUME config \in Configurations, NEW n \in Nat, n < Len(config.dags)
  PROVE  config.dags[n + 1] \notin Reached(n)
BY DagList DEF Reached

\* A call is made one way for good.
LEMMA ConfigStays == ASSUME Next PROVE config' = config
BY DEF Next, CallStep, TriggerStores, NextDag, LookUp, TriggerDag, AlreadyExists,
   ClearExisting, CreateAgain, StillExists, WaitForAll, EndWait, EndStore, Poll, RetryRun,
   TriggerFails, CallerDies, StartRun, EndRun, DisturbRun

-----------------------------------------------------------------------------
(* Position *)

LEMMA PositionFresh ==
  ASSUME BeginStore, pc' # "idle" => store' >= 1, pc' \in {"idle", "next"}
  PROVE  PositionInvariant'
<1>1. Reached(next)' = {}
  BY DEF BeginStore, Reached
<1> QED
  BY <1>1 DEF PositionInvariant, BeginStore, Asking, Waiting, InRequest, Begun

\* The DAG in hand is one of those come to.
LEMMA AskedIsReached ==
  ASSUME TypeOK, PositionInvariant, Asking
  PROVE  current \in Reached(next)
BY DEF TypeOK, PositionInvariant, Reached

LEMMA PositionReturned ==
  ASSUME TypeOK, PositionInvariant, WaitInvariant, InRequest, Returned,
         UNCHANGED <<config, store, next, current, again, skipped, failed>>
  PROVE  PositionInvariant'
<1> USE DEF PositionInvariant, Asking, Waiting, InRequest, Begun, TypeOK
<1>0. Reached(next)' = Reached(next)
  BY DEF Reached
<1>1. CASE again
  <2>1. pc' \in {"poll", "retry"} /\ triggered' = triggered
    BY <1>1 DEF Returned
  <2> QED
    BY <1>0, <1>1, <2>1
<1>2. CASE ~again
  <2>1. triggered' = triggered \cup {current} /\ pc' \in {"poll", "next"}
    BY <1>2 DEF Returned, Proceed
  <2>2. pc' = "next" \/ ~config.parallel
    BY <1>2 DEF Returned, Proceed
  <2> QED
    BY <1>0, <1>2, <2>1, <2>2, AskedIsReached
<1> QED
  BY <1>1, <1>2

LEMMA PositionRaised ==
  ASSUME TypeOK, PositionInvariant, InRequest, Raised, config' = config
  PROVE  PositionInvariant'
<1> USE DEF PositionInvariant, Asking, Waiting, InRequest, Begun, TypeOK
<1>1. CASE again
  BY <1>1, PositionFresh DEF Raised, LoseCall
<1>2. CASE ~again
  <2>1. Reached(next)' = Reached(next)
    BY <1>2 DEF Raised, Reached
  <2>2. /\ failed' = failed \cup {current} /\ pc' = "next"
        /\ UNCHANGED <<store, next, current, again, triggered, skipped>>
    BY <1>2 DEF Raised
  <2> QED
    BY <1>2, <2>1, <2>2, AskedIsReached
<1> QED
  BY <1>1, <1>2

LEMMA PositionStep ==
  ASSUME TypeOK, PositionInvariant, WaitInvariant, Next
  PROVE  PositionInvariant'
<1> USE DEF PositionInvariant, Asking, Waiting, InRequest, Begun
<1>0. config' = config /\ Reached(next)' = Reached(next')
  BY ConfigStays DEF Reached
<1>1. CASE TriggerStores
  BY <1>1, PositionFresh DEF TriggerStores
<1>2. CASE NextDag
  <2>1. next < Len(config.dags) /\ next \in Nat /\ next' = next + 1
    BY <1>2 DEF NextDag, HasNextDag, TypeOK
  <2>2. Reached(next') = Reached(next) \cup {current'} /\ current' \notin Reached(next)
    BY <1>2, <2>1, ReachedGrows, ReachedIsNew DEF NextDag, TypeOK
  <2> QED
    BY <1>0, <1>2, <2>1, <2>2 DEF NextDag, HasNextDag, dagVars
<1>3. CASE LookUp
  <2>1. PICK state \in States :
          /\ Lookup(current, state)
          /\ \/ /\ state \in ActiveStates
                /\ skipped' = skipped \cup {current}
                /\ Proceed(current)
                /\ UNCHANGED reset
             \/ /\ state \notin ActiveStates
                /\ reset' = (state \in {"failed", "success"})
                /\ pc' = "trigger"
                /\ UNCHANGED <<skipped, waitVars>>
    BY <1>3 DEF LookUp
  <2>2. ~again /\ ~again'
    BY <1>3 DEF LookUp, WaitInvariant
  <2>3. CASE pc' = "trigger"
    BY <1>0, <1>3, <2>1, <2>2, <2>3 DEF LookUp, Proceed
  <2>4. CASE pc' # "trigger"
    <3>1. skipped' = skipped \cup {current} /\ pc' \in {"poll", "next"}
      BY <2>1, <2>4 DEF Proceed
    <3>2. ~config.parallel \/ pc' = "next"
      BY <2>1, <2>4 DEF Proceed
    <3> QED
      BY <1>0, <1>3, <2>2, <3>1, <3>2, AskedIsReached DEF LookUp
  <2> QED
    BY <2>3, <2>4
<1>4. CASE TriggerDag
  <2>1. CASE Returned
    BY <1>0, <1>4, <2>1, PositionReturned DEF TriggerDag
  <2>2. CASE ~Returned
    BY <1>0, <1>4, <2>2 DEF TriggerDag, WaitInvariant
  <2> QED
    BY <2>1, <2>2
<1>5. CASE AlreadyExists
  <2>1. CASE Returned
    BY <1>0, <1>5, <2>1, PositionReturned DEF AlreadyExists
  <2>2. CASE ~Returned
    BY <1>0, <1>5, <2>2 DEF AlreadyExists, WaitInvariant
  <2> QED
    BY <2>1, <2>2
<1>6. CASE ClearExisting
  BY <1>0, <1>6 DEF ClearExisting, dagVars
<1>7. CASE CreateAgain
  <2>1. CASE Returned
    BY <1>0, <1>7, <2>1, PositionReturned DEF CreateAgain
  <2>2. CASE ~Returned
    BY <1>0, <1>7, <2>2 DEF CreateAgain, WaitInvariant
  <2> QED
    BY <2>1, <2>2
<1>8. CASE StillExists \/ TriggerFails
  BY <1>0, <1>8, PositionRaised DEF StillExists, TriggerFails
<1>9. CASE WaitForAll
  BY <1>0, <1>9 DEF WaitForAll, MustWaitForAll, dagVars
<1>10. CASE EndWait
  BY <1>0, <1>10 DEF EndWait, WaitInvariant, Waiting, Waited
<1>11. CASE EndStore
  <2>1. store' >= 1
    BY <1>11, StoreList DEF EndStore, TypeOK
  <2> QED
    BY <1>11, <2>1, PositionFresh DEF EndStore
<1>12. CASE \E d \in Dags : Poll(d) \/ RetryRun(d)
  BY <1>0, <1>12 DEF Poll, RetryRun, callVars, dagVars, WaitInvariant
<1>13. CASE CallerDies
  BY <1>13, PositionFresh DEF CallerDies, LoseCall
<1>14. CASE OthersStep
  BY <1>0, <1>14 DEF OthersStep, StartRun, EndRun, DisturbRun, callVars, dagVars
<1> QED
  BY <1>1, <1>2, <1>3, <1>4, <1>5, <1>6, <1>7, <1>8, <1>9, <1>10, <1>11, <1>12, <1>13, <1>14
  DEF Next, CallStep, OthersStep
-----------------------------------------------------------------------------
(* The lists of the wait *)

LEMMA WaitFresh ==
  ASSUME BeginStore, pc' \in {"idle", "next"}
  PROVE  WaitInvariant' /\ ModeInvariant'
BY DEF BeginStore, WaitInvariant, ModeInvariant, Waited, Begun, Waiting, Asking, InRequest

LEMMA WaitReturned ==
  ASSUME TypeOK, PositionInvariant, WaitInvariant, InRequest, Returned,
         UNCHANGED <<config, store, next, current, reset, again, skipped, failed>>
  PROVE  WaitInvariant'
<1> USE DEF WaitInvariant, PositionInvariant, Waited, Begun, Waiting, Asking, InRequest, TypeOK
<1>1. CASE again
  <2>1. /\ pending' = pending \cup {current} /\ toRetry' = toRetry \ {current}
        /\ pc' = IF toRetry' = {} THEN "poll" ELSE "retry"
        /\ UNCHANGED <<triggered, succeeded_runs, failed_runs, attempt>>
    BY <1>1 DEF Returned
  <2>2. failed_runs = {} /\ current \in toRetry /\ failed = {} /\ config.wait
    BY <1>1
  <2> QED
    BY <1>1, <2>1, <2>2
<1>2. CASE ~again
  <2>1. triggered' = triggered \cup {current} /\ Proceed(current)
    BY <1>2 DEF Returned
  <2>2. /\ pending = {} /\ toRetry = {} /\ failed_runs = {}
        /\ current \notin triggered \cup skipped \cup failed
    BY <1>2
  <2>3. CASE ~config.parallel /\ config.wait
    BY <1>2, <2>1, <2>2, <2>3 DEF Proceed
  <2>4. CASE ~(~config.parallel /\ config.wait)
    BY <1>2, <2>1, <2>2, <2>4 DEF Proceed, waitVars
  <2> QED
    BY <2>3, <2>4
<1> QED
  BY <1>1, <1>2

LEMMA WaitRaised ==
  ASSUME TypeOK, PositionInvariant, WaitInvariant, InRequest, Raised, config' = config
  PROVE  WaitInvariant'
<1>1. CASE again
  BY <1>1, WaitFresh DEF Raised, LoseCall
<1>2. CASE ~again
  BY <1>2 DEF Raised, WaitInvariant, PositionInvariant, Waited, Begun, Waiting, Asking,
              InRequest, TypeOK, waitVars
<1> QED
  BY <1>1, <1>2

LEMMA WaitStep ==
  ASSUME TypeOK, PositionInvariant, WaitInvariant, ModeInvariant, Next
  PROVE  WaitInvariant'
<1> USE DEF WaitInvariant, PositionInvariant, Waited, Begun, Waiting, Asking, InRequest, TypeOK
<1>0. config' = config
  BY ConfigStays
<1>1. CASE TriggerStores
  BY <1>1, WaitFresh DEF TriggerStores
<1>2. CASE NextDag
  <2>1. /\ pc = "next" /\ pc' = "look" /\ ~again'
        /\ UNCHANGED <<dagVars, waitVars>>
    BY <1>2 DEF NextDag
  <2>2. failed_runs = {}
    <3>1. next < Len(config.dags) /\ (failed = {} \/ config.parallel)
      BY <1>2 DEF NextDag, HasNextDag
    <3> QED
      BY <2>1, <3>1 DEF ModeInvariant
  <2> QED
    BY <1>0, <2>1, <2>2 DEF dagVars, waitVars
<1>3. CASE LookUp
  <2>1. /\ ~again /\ ~again' /\ failed' = failed /\ triggered' = triggered
        /\ pending = {} /\ toRetry = {} /\ failed_runs = {} /\ current \notin failed
    BY <1>3 DEF LookUp
  <2>2. CASE pc' = "trigger"
    BY <1>0, <1>3, <2>1, <2>2 DEF LookUp, Proceed, waitVars
  <2>3. CASE pc' # "trigger"
    <3>1. skipped' = skipped \cup {current} /\ Proceed(current)
      BY <1>3, <2>3 DEF LookUp
    <3>2. CASE ~config.parallel /\ config.wait
      BY <1>0, <1>3, <2>1, <3>1, <3>2 DEF Proceed, LookUp
    <3>3. CASE ~(~config.parallel /\ config.wait)
      BY <1>0, <1>3, <2>1, <3>1, <3>3 DEF Proceed, waitVars, LookUp
    <3> QED
      BY <3>2, <3>3
  <2> QED
    BY <2>2, <2>3
<1>4. CASE TriggerDag
  <2>1. CASE Returned
    BY <1>0, <1>4, <2>1, WaitReturned DEF TriggerDag
  <2>2. CASE ~Returned
    BY <1>0, <1>4, <2>2 DEF TriggerDag, waitVars
  <2> QED
    BY <2>1, <2>2
<1>5. CASE AlreadyExists
  <2>1. CASE Returned /\ reset' = reset
    BY <1>0, <1>5, <2>1, WaitReturned DEF AlreadyExists
  <2>2. CASE ~(Returned /\ reset' = reset)
    <3>1. /\ ~reset /\ pc' = (IF config.sdk THEN "trigger" ELSE "clear")
          /\ UNCHANGED <<triggered, waitVars>>
      BY <1>5, <2>2 DEF AlreadyExists
    <3> QED
      BY <1>0, <1>5, <3>1 DEF AlreadyExists, waitVars
  <2> QED
    BY <2>1, <2>2
<1>6. CASE ClearExisting
  BY <1>0, <1>6 DEF ClearExisting, dagVars, waitVars
<1>7. CASE CreateAgain
  BY <1>0, <1>7, WaitReturned DEF CreateAgain
<1>8. CASE StillExists \/ TriggerFails
  BY <1>0, <1>8, WaitRaised DEF StillExists, TriggerFails
<1>9. CASE WaitForAll
  <2>1. failed = {} /\ succeeded_runs = {} /\ config.wait
    BY <1>9 DEF WaitForAll, MustWaitForAll
  <2> QED
    BY <1>0, <1>9, <2>1 DEF WaitForAll, dagVars
<1>10. CASE EndWait
  <2>1. pending = {} /\ toRetry = {} /\ failed = {} /\ config.wait
    BY <1>10 DEF EndWait
  <2>2. CASE failed_runs # {} /\ MayRetry
    BY <1>0, <1>10, <2>1, <2>2 DEF EndWait
  <2>3. CASE ~(failed_runs # {} /\ MayRetry)
    <3>1. attempt = Retries \/ failed_runs = {}
      BY <2>3, ConfigIsSound DEF MayRetry
    <3> QED
      BY <1>0, <1>10, <2>1, <2>3, <3>1 DEF EndWait
  <2> QED
    BY <2>2, <2>3
<1>11. CASE EndStore
  BY <1>11, WaitFresh DEF EndStore
<1>12. ASSUME NEW d \in Dags, Poll(d) PROVE WaitInvariant'
  <2>1. /\ pc = "poll" /\ pc' = "poll" /\ d \in pending /\ pending' = pending \ {d}
        /\ UNCHANGED <<callVars, dagVars, attempt, toRetry>>
    BY <1>12 DEF Poll, callVars
  <2>2. \/ succeeded_runs' = succeeded_runs \cup {d} /\ failed_runs' = failed_runs
        \/ succeeded_runs' = succeeded_runs /\ failed_runs' = failed_runs \cup {d}
    BY <1>12 DEF Poll
  <2> QED
    BY <1>0, <2>1, <2>2 DEF callVars, dagVars
<1>13. ASSUME NEW d \in Dags, RetryRun(d) PROVE WaitInvariant'
  BY <1>0, <1>13 DEF RetryRun, dagVars, waitVars
<1>14. CASE CallerDies
  BY <1>14, WaitFresh DEF CallerDies, LoseCall
<1>15. CASE OthersStep
  BY <1>0, <1>15 DEF OthersStep, StartRun, EndRun, DisturbRun, callVars, dagVars, waitVars
<1> QED
  BY <1>1, <1>2, <1>3, <1>4, <1>5, <1>6, <1>7, <1>8, <1>9, <1>10, <1>11, <1>12, <1>13, <1>14,
     <1>15
  DEF Next, CallStep, OthersStep
-----------------------------------------------------------------------------
(* Serial and parallel *)

LEMMA ModeReturned ==
  ASSUME TypeOK, PositionInvariant, WaitInvariant, ModeInvariant, InRequest, Returned,
         UNCHANGED <<config, store, next, current, reset, again, skipped, failed>>
  PROVE  ModeInvariant'
<1> USE DEF WaitInvariant, PositionInvariant, ModeInvariant, Waited, Begun, Waiting, Asking,
            InRequest, TypeOK
<1>1. CASE again
  <2>1. /\ pending' = pending \cup {current} /\ toRetry' = toRetry \ {current}
        /\ pc' \in {"poll", "retry"}
        /\ UNCHANGED <<triggered, succeeded_runs, failed_runs, attempt>>
    BY <1>1 DEF Returned
  <2>2. current \in toRetry
    BY <1>1
  <2> QED
    BY <1>1, <2>1, <2>2
<1>2. CASE ~again
  <2>1. triggered' = triggered \cup {current} /\ Proceed(current)
    BY <1>2 DEF Returned
  <2>2. CASE ~config.parallel /\ config.wait
    BY <1>2, <2>1, <2>2 DEF Proceed
  <2>3. CASE ~(~config.parallel /\ config.wait)
    BY <1>2, <2>1, <2>3 DEF Proceed, waitVars
  <2> QED
    BY <2>2, <2>3
<1> QED
  BY <1>1, <1>2

LEMMA ModeRaised ==
  ASSUME TypeOK, PositionInvariant, WaitInvariant, ModeInvariant, InRequest, Raised,
         config' = config
  PROVE  ModeInvariant'
<1>1. CASE again
  BY <1>1, WaitFresh DEF Raised, LoseCall
<1>2. CASE ~again
  BY <1>2 DEF Raised, WaitInvariant, PositionInvariant, ModeInvariant, Waited, Begun, Waiting,
              Asking, InRequest, TypeOK, waitVars
<1> QED
  BY <1>1, <1>2

LEMMA ModeStep ==
  ASSUME TypeOK, PositionInvariant, WaitInvariant, ModeInvariant, Next
  PROVE  ModeInvariant'
<1> USE DEF WaitInvariant, PositionInvariant, ModeInvariant, Waited, Begun, Waiting, Asking,
            InRequest, TypeOK
<1>0. config' = config
  BY ConfigStays
<1>1. CASE TriggerStores
  BY <1>1, WaitFresh DEF TriggerStores
<1>2. CASE NextDag
  <2>1. /\ pc = "next" /\ pc' = "look" /\ next' = next + 1
        /\ UNCHANGED <<dagVars, waitVars>>
        /\ next < Len(config.dags) /\ (failed = {} \/ config.parallel)
    BY <1>2 DEF NextDag, HasNextDag
  <2>2. pending = {} /\ toRetry = {} /\ failed_runs = {}
    BY <2>1
  <2> QED
    BY <1>0, <2>1, <2>2 DEF dagVars, waitVars
<1>3. CASE LookUp
  <2>1. ~again /\ pending = {} /\ toRetry = {} /\ failed_runs = {}
    BY <1>3 DEF LookUp
  <2>2. CASE pc' = "trigger"
    BY <1>0, <1>3, <2>1, <2>2 DEF LookUp, Proceed, waitVars
  <2>3. CASE pc' # "trigger"
    <3>1. skipped' = skipped \cup {current} /\ Proceed(current)
      BY <1>3, <2>3 DEF LookUp
    <3>2. CASE ~config.parallel /\ config.wait
      BY <1>0, <1>3, <2>1, <3>1, <3>2 DEF Proceed, LookUp
    <3>3. CASE ~(~config.parallel /\ config.wait)
      BY <1>0, <1>3, <2>1, <3>1, <3>3 DEF Proceed, waitVars, LookUp
    <3> QED
      BY <3>2, <3>3
  <2> QED
    BY <2>2, <2>3
<1>4. CASE TriggerDag
  <2>1. CASE Returned
    BY <1>0, <1>4, <2>1, ModeReturned DEF TriggerDag
  <2>2. CASE ~Returned
    BY <1>0, <1>4, <2>2 DEF TriggerDag, waitVars
  <2> QED
    BY <2>1, <2>2
<1>5. CASE AlreadyExists
  <2>1. CASE Returned /\ reset' = reset
    BY <1>0, <1>5, <2>1, ModeReturned DEF AlreadyExists
  <2>2. CASE ~(Returned /\ reset' = reset)
    <3>1. /\ pc' \in {"trigger", "clear"}
          /\ UNCHANGED <<triggered, waitVars>>
      BY <1>5, <2>2 DEF AlreadyExists
    <3> QED
      BY <1>0, <1>5, <3>1 DEF AlreadyExists, waitVars
  <2> QED
    BY <2>1, <2>2
<1>6. CASE ClearExisting
  BY <1>0, <1>6 DEF ClearExisting, dagVars, waitVars
<1>7. CASE CreateAgain
  BY <1>0, <1>7, ModeReturned DEF CreateAgain
<1>8. CASE StillExists \/ TriggerFails
  BY <1>0, <1>8, ModeRaised DEF StillExists, TriggerFails
<1>9. CASE WaitForAll
  <2>1. /\ config.parallel /\ failed = {} /\ next = Len(config.dags)
        /\ pc' = "poll" /\ pending' = Begun
    BY <1>9, DagList DEF WaitForAll, MustWaitForAll, HasNextDag
  <2> QED
    BY <1>0, <1>9, <2>1, Modes DEF WaitForAll, dagVars
<1>10. CASE EndWait
  BY <1>0, <1>10 DEF EndWait
<1>11. CASE EndStore
  BY <1>11, WaitFresh DEF EndStore
<1>12. ASSUME NEW d \in Dags, Poll(d) PROVE ModeInvariant'
  <2>1. /\ pc = "poll" /\ pc' = "poll" /\ d \in pending /\ pending' = pending \ {d}
        /\ UNCHANGED <<callVars, dagVars, attempt, toRetry>>
    BY <1>12 DEF Poll, callVars
  <2>2. \/ succeeded_runs' = succeeded_runs \cup {d} /\ failed_runs' = failed_runs
        \/ succeeded_runs' = succeeded_runs /\ failed_runs' = failed_runs \cup {d}
    BY <1>12 DEF Poll
  <2> QED
    BY <1>0, <2>1, <2>2 DEF callVars, dagVars
<1>13. ASSUME NEW d \in Dags, RetryRun(d) PROVE ModeInvariant'
  BY <1>0, <1>13 DEF RetryRun, dagVars, waitVars
<1>14. CASE CallerDies
  BY <1>14, WaitFresh DEF CallerDies, LoseCall
<1>15. CASE OthersStep
  BY <1>0, <1>15 DEF OthersStep, StartRun, EndRun, DisturbRun, callVars, dagVars, waitVars
<1> QED
  BY <1>1, <1>2, <1>3, <1>4, <1>5, <1>6, <1>7, <1>8, <1>9, <1>10, <1>11, <1>12, <1>13, <1>14,
     <1>15
  DEF Next, CallStep, OthersStep
-----------------------------------------------------------------------------
(* Types *)

\* A counter below its bound can be incremented.
LEMMA Incremented ==
  ASSUME NEW bound \in Nat, NEW i \in 0 .. bound, i < bound
  PROVE  i + 1 \in 0 .. bound
OBVIOUS

LEMMA FaultType ==
  ASSUME TypeOK, Fault \/ faults' = faults
  PROVE  faults' \in 0 .. MaxFaults
BY Incremented, ConfigIsSound DEF Fault, TypeOK

LEMMA BeginStoreType ==
  ASSUME config \in Configurations, config' = config, BeginStore
  PROVE  /\ next' \in 0 .. Len(config'.dags)
         /\ current' \in Dags /\ reset' \in BOOLEAN /\ again' \in BOOLEAN
         /\ triggered' \subseteq Dags /\ skipped' \subseteq Dags /\ failed' \subseteq Dags
         /\ pending' \subseteq Dags /\ toRetry' \subseteq Dags
         /\ succeeded_runs' \subseteq Dags /\ failed_runs' \subseteq Dags
         /\ succeeded_runs' \cap (failed_runs' \cup toRetry') = {}
         /\ attempt' \in 0 .. Retries
<1>1. Len(config.dags) \in Nat /\ config.dags[1] \in Dags
  BY DagList
<1>2. 0 \in 0 .. Len(config.dags) /\ 0 \in 0 .. Retries
  BY <1>1, ConfigIsSound
<1> QED
  BY <1>1, <1>2 DEF BeginStore

LEMMA ResultsType ==
  /\ [s \in Stores |-> NoResult] \in
       [Stores -> [success : BOOLEAN, action : [Dags -> Actions],
                   status : [Dags -> Actions \cup {"success"}]]]
  /\ [r \in Runs |-> 0] \in [Runs -> 0 .. Retries + 1]
BY ConfigIsSound DEF NoResult, Actions

LEMMA LoseCallType ==
  ASSUME TypeOK, config' = config, LoseCall
  PROVE  /\ pc' = "idle" /\ store' \in 0 .. Len(config'.stores)
         /\ results' \in [Stores -> [success : BOOLEAN, action : [Dags -> Actions],
                                     status : [Dags -> Actions \cup {"success"}]]]
         /\ synced' \subseteq Runs /\ failures' \in [Runs -> 0 .. Retries + 1]
BY ResultsType, StoreList DEF LoseCall, TypeOK

LEMMA RaisedType ==
  ASSUME TypeOK, config' = config, Raised, runs' \in [Runs -> States],
         faults' \in 0 .. MaxFaults, calls' = calls, others' = others
  PROVE  TypeOK'
<1>1. CASE again
  <2>1. LoseCall /\ BeginStore
    BY <1>1 DEF Raised, LoseCall
  <2> QED
    BY <2>1, LoseCallType, BeginStoreType DEF TypeOK
<1>2. CASE ~again
  BY <1>2 DEF Raised, TypeOK, waitVars, endVars
<1> QED
  BY <1>1, <1>2

LEMMA ReturnedType ==
  ASSUME TypeOK, WaitInvariant, InRequest, config' = config, Returned,
         runs' \in [Runs -> States],
         faults' \in 0 .. MaxFaults,
         UNCHANGED <<store, next, current, reset, again, skipped, failed, results, synced,
                     failures, calls, others>>
  PROVE  TypeOK'
<1>1. /\ pc' \in {"poll", "retry", "next"} /\ attempt' \in 0 .. Retries
      /\ triggered' \subseteq Dags /\ pending' \subseteq Dags
      /\ succeeded_runs' = succeeded_runs /\ failed_runs' = failed_runs
      /\ toRetry' \subseteq toRetry
  BY ConfigIsSound DEF Returned, Proceed, waitVars, TypeOK
<1> QED
  BY <1>1 DEF TypeOK

LEMMA TypeInit == Init => TypeOK
<1> SUFFICES ASSUME Init PROVE TypeOK
  OBVIOUS
<1>1. config \in Configurations /\ config.dags[1] \in Dags /\ Len(config.stores) \in Nat
      /\ Len(config.dags) \in Nat
  BY DagList, StoreList DEF Init
<1>2. runs \in [Runs -> States]
  BY DEF Init, States
<1>3. 0 \in 0 .. Len(config.stores) /\ 0 \in 0 .. Len(config.dags) /\ 0 \in 0 .. Retries
      /\ 0 \in 0 .. MaxCalls /\ 0 \in 0 .. MaxFaults /\ 0 \in 0 .. MaxOthers
  BY <1>1, ConfigIsSound
<1> QED
  BY <1>1, <1>2, <1>3, ResultsType DEF Init, TypeOK

LEMMA TypeStep ==
  ASSUME TypeOK, PositionInvariant, WaitInvariant, Next
  PROVE  TypeOK'
<1>0. config' = config /\ config \in Configurations
  BY ConfigStays DEF TypeOK
<1>1. CASE TriggerStores
  <2>1. calls' \in 0 .. MaxCalls
    BY <1>1, Incremented, ConfigIsSound DEF TriggerStores, TypeOK
  <2>2. store' \in 0 .. Len(config.stores)
    BY <1>0, <1>1, StoreList DEF TriggerStores
  <2> QED
    BY <1>0, <1>1, <2>1, <2>2, BeginStoreType, ResultsType DEF TriggerStores, TypeOK
<1>2. CASE NextDag
  <2>1. next' \in 0 .. Len(config'.dags) /\ current' \in Dags
    BY <1>0, <1>2, DagList DEF NextDag, HasNextDag, TypeOK
  <2> QED
    BY <1>0, <1>2, <2>1 DEF NextDag, TypeOK, dagVars, waitVars, endVars, boundVars
<1>3. CASE LookUp
  <2>1. faults' \in 0 .. MaxFaults
    BY <1>3, FaultType DEF LookUp, Lookup, NoFault
  <2>2. /\ pc' \in {"poll", "next", "trigger"} /\ reset' \in BOOLEAN /\ skipped' \subseteq Dags
        /\ pending' \subseteq Dags /\ attempt' \in 0 .. Retries
        /\ UNCHANGED <<succeeded_runs, failed_runs, toRetry>>
    <3>1. CASE pc' = "trigger"
      BY <1>3, <3>1 DEF LookUp, Proceed, waitVars, TypeOK
    <3>2. CASE pc' # "trigger"
      <4>1. skipped' = skipped \cup {current} /\ Proceed(current) /\ reset' = reset
        BY <1>3, <3>2 DEF LookUp
      <4> QED
        BY <4>1, ConfigIsSound DEF Proceed, waitVars, TypeOK
    <3> QED
      BY <3>1, <3>2
  <2> QED
    BY <1>0, <1>3, <2>1, <2>2 DEF LookUp, TypeOK, endVars
<1>4. CASE TriggerDag
  <2>1. runs' \in [Runs -> States]
    BY <1>4 DEF TriggerDag, SetRun, TypeOK, States
  <2>2. CASE Returned
    BY <1>0, <1>4, <2>1, <2>2, ReturnedType DEF TriggerDag, InRequest, endVars, boundVars, TypeOK
  <2>3. CASE ~Returned
    BY <1>0, <1>4, <2>1, <2>3 DEF TriggerDag, TypeOK, waitVars, endVars, boundVars
  <2> QED
    BY <2>2, <2>3
<1>5. CASE AlreadyExists
  <2>1. faults' \in 0 .. MaxFaults
    BY <1>5, FaultType DEF AlreadyExists, Lookup, NoFault
  <2>2. CASE Returned /\ reset' = reset
    BY <1>0, <1>5, <2>1, <2>2, ReturnedType DEF AlreadyExists, InRequest, endVars, TypeOK
  <2>3. CASE ~(Returned /\ reset' = reset)
    <3>1. /\ pc' \in {"trigger", "clear"} /\ reset' = config.sdk
          /\ UNCHANGED <<triggered, waitVars>>
      BY <1>5, <2>3 DEF AlreadyExists
    <3> QED
      BY <1>0, <1>5, <2>1, <3>1, Modes DEF AlreadyExists, TypeOK, waitVars, endVars
  <2> QED
    BY <2>2, <2>3
<1>6. CASE ClearExisting
  <2>1. runs' \in [Runs -> States] /\ faults' \in 0 .. MaxFaults
    BY <1>6, FaultType DEF ClearExisting, ClearDagRun, SetRun, NoFault, TypeOK, States
  <2> QED
    BY <1>0, <1>6, <2>1 DEF ClearExisting, TypeOK, dagVars, waitVars, endVars
<1>7. CASE CreateAgain
  <2>1. runs' \in [Runs -> States]
    BY <1>7 DEF CreateAgain, SetRun, TypeOK, States
  <2> QED
    BY <1>0, <1>7, <2>1, ReturnedType DEF CreateAgain, InRequest, endVars, boundVars, TypeOK
<1>8. CASE StillExists \/ TriggerFails
  <2>1. runs' \in [Runs -> States] /\ faults' \in 0 .. MaxFaults
    BY <1>8, FaultType DEF StillExists, TriggerFails, SetRun, TypeOK, States, boundVars
  <2> QED
    BY <1>0, <1>8, <2>1, RaisedType DEF StillExists, TriggerFails, boundVars
<1>9. CASE WaitForAll
  <2>1. attempt' \in 0 .. Retries
    BY <1>9, ConfigIsSound DEF WaitForAll
  <2> QED
    BY <1>0, <1>9, <2>1 DEF WaitForAll, TypeOK, dagVars, endVars, boundVars
<1>10. CASE EndWait
  <2>1. attempt' \in 0 .. Retries
    BY <1>10, Incremented, ConfigIsSound DEF EndWait, MayRetry, TypeOK
  <2> QED
    BY <1>0, <1>10, <2>1 DEF EndWait, TypeOK, dagVars, endVars, boundVars
<1>11. CASE EndStore
  <2>1. store' \in 0 .. Len(config.stores) /\ pc' \in {"idle", "next"}
    BY <1>0, <1>11, StoreList DEF EndStore, TypeOK
  <2>2. results' \in [Stores -> [success : BOOLEAN, action : [Dags -> Actions],
                                status : [Dags -> Actions \cup {"success"}]]]
    BY <1>11 DEF EndStore, TypeOK, StatusOf, ActionOf, Actions
  <2> QED
    BY <1>0, <1>11, <2>1, <2>2, BeginStoreType DEF EndStore, TypeOK, endVars, boundVars
<1>12. ASSUME NEW d \in Dags, Poll(d) PROVE TypeOK'
  <2>1. faults' \in 0 .. MaxFaults
    BY <1>12, FaultType DEF Poll, Lookup, NoFault
  <2>2. d \notin succeeded_runs \cup failed_runs \cup toRetry
    BY <1>12 DEF Poll, WaitInvariant
  <2>3. toRetry = {}
    BY <1>12 DEF Poll, WaitInvariant, InRequest
  <2> QED
    BY <1>0, <1>12, <2>1, <2>2, <2>3 DEF Poll, TypeOK, callVars, dagVars, endVars
<1>13. ASSUME NEW d \in Dags, RetryRun(d) PROVE TypeOK'
  <2>1. runs' \in [Runs -> States] /\ faults' \in 0 .. MaxFaults
    BY <1>13, FaultType DEF RetryRun, ClearDagRun, SetRun, NoFault, TypeOK, States
  <2> QED
    BY <1>0, <1>13, <2>1 DEF RetryRun, TypeOK, dagVars, waitVars, endVars
<1>14. CASE CallerDies
  <2>1. faults' \in 0 .. MaxFaults /\ LoseCall /\ BeginStore
    BY <1>14, FaultType DEF CallerDies, LoseCall
  <2> QED
    BY <1>0, <1>14, <2>1, LoseCallType, BeginStoreType DEF CallerDies, TypeOK
<1>15. ASSUME NEW r \in Runs, StartRun(r) \/ EndRun(r) \/ DisturbRun(r) PROVE TypeOK'
  <2>1. CASE StartRun(r)
    BY <1>0, <2>1 DEF StartRun, TypeOK, States, callVars, dagVars, waitVars, endVars, boundVars
  <2>2. CASE EndRun(r)
    <3>1. failures' \in [Runs -> 0 .. Retries + 1]
      <4>1. failures \in [Runs -> 0 .. Retries + 1] /\ Retries \in Nat
        BY ConfigIsSound DEF TypeOK
      <4>2. \/ failures' = failures
            \/ failures' = [failures EXCEPT ![r] = IF @ > Retries THEN @ ELSE @ + 1]
        BY <2>2 DEF EndRun
      <4>3. \A i \in 0 .. Retries + 1 : (IF i > Retries THEN i ELSE i + 1) \in 0 .. Retries + 1
        BY <4>1
      <4> QED
        BY <4>1, <4>2, <4>3
    <3> QED
      BY <1>0, <2>2, <3>1 DEF EndRun, TypeOK, States, callVars, dagVars, waitVars, boundVars
  <2>3. CASE DisturbRun(r)
    <3>1. others' \in 0 .. MaxOthers
      BY <2>3, Incremented, ConfigIsSound DEF DisturbRun, TypeOK
    <3> QED
      BY <1>0, <2>3, <3>1 DEF DisturbRun, TypeOK, States, callVars, dagVars, waitVars, endVars
  <2> QED
    BY <1>15, <2>1, <2>2, <2>3
<1> QED
  BY <1>1, <1>2, <1>3, <1>4, <1>5, <1>6, <1>7, <1>8, <1>9, <1>10, <1>11, <1>12, <1>13, <1>14,
     <1>15
  DEF Next, CallStep
-----------------------------------------------------------------------------
(* What a step does to the runs and to what the call knows of them *)

LEMMA IdleKnowsNothing ==
  ASSUME PositionInvariant, pc = "idle"
  PROVE  Begun = {} /\ failed = {}
BY DEF PositionInvariant, Reached

LEMMA BegunRun ==
  ASSUME TypeOK, PositionInvariant, NEW d \in Begun
  PROVE  Run(d) \in Runs /\ d \in Dags
<1>1. d \in Dags /\ pc # "idle"
  BY IdleKnowsNothing DEF TypeOK, Begun
<1> QED
  BY <1>1, RunType

\* Nobody but the scheduler ends a run, which then counts; the call only queues runs
\* and clears them.
LEMMA RunsChange ==
  ASSUME TypeOK, Next, NEW r \in Runs
  PROVE  \/ runs'[r] = runs[r]
         \/ runs'[r] \in {"none", "queued", "running"}
         \/ runs'[r] = "success" /\ r \in synced'
         \/ runs'[r] = "failed" /\ (failures'[r] > failures[r] \/ failures'[r] > Retries)
<1>1. CASE CallStep \/ TriggerStores \/ TriggerFails \/ CallerDies
  <2>1. \/ runs' = runs
        \/ \E d \in Dags : SetRun(d, "queued") \/ SetRun(d, "none")
    BY <1>1 DEF CallStep, TriggerStores, NextDag, LookUp, TriggerDag, AlreadyExists,
       ClearExisting, CreateAgain, StillExists, WaitForAll, EndWait, EndStore, Poll, RetryRun,
       TriggerFails, CallerDies, ClearDagRun, TypeOK
  <2> QED
    BY <2>1 DEF SetRun, TypeOK
<1>2. ASSUME NEW s \in Runs, StartRun(s) \/ EndRun(s) \/ DisturbRun(s)
      PROVE  \/ runs'[r] = runs[r]
             \/ runs'[r] \in {"none", "queued", "running"}
             \/ runs'[r] = "success" /\ r \in synced'
             \/ runs'[r] = "failed" /\ (failures'[r] > failures[r] \/ failures'[r] > Retries)
  <2>1. CASE StartRun(s)
    BY <2>1 DEF StartRun, TypeOK
  <2>2. CASE EndRun(s)
    BY <2>2, ConfigIsSound DEF EndRun, TypeOK
  <2>3. CASE DisturbRun(s)
    BY <2>3 DEF DisturbRun, TypeOK
  <2> QED
    BY <1>2, <2>1, <2>2, <2>3
<1> QED
  BY <1>1, <1>2 DEF Next

\* The numbers that are counted.
LEMMA CountTypes ==
  ASSUME TypeOK
  PROVE  /\ Retries \in Nat /\ attempt \in 0 .. Retries /\ faults \in Nat
         /\ failures \in [Runs -> 0 .. Retries + 1]
         /\ \A r \in Runs : failures[r] \in Nat
<1>1. Retries \in Nat /\ MaxFaults \in Nat
  BY ConfigIsSound
<1>2. /\ attempt \in 0 .. Retries /\ faults \in 0 .. MaxFaults
      /\ failures \in [Runs -> 0 .. Retries + 1]
  BY DEF TypeOK
<1> QED
  BY <1>1, <1>2

\* A step begins a store anew, or the store stays and what is counted grows.
LEMMA CountsGrow ==
  ASSUME TypeOK, PositionInvariant, WaitInvariant, Next
  PROVE  \/ BeginStore /\ (pc' = "idle" \/ TriggerStores \/ EndStore)
         \/ /\ store' = store /\ (pc' = "idle" <=> pc = "idle")
            /\ synced \subseteq synced' /\ faults' >= faults
            /\ \A r \in Runs : failures'[r] >= failures[r]
<1> USE DEF TypeOK
<1>1. CASE \/ NextDag \/ TriggerDag \/ CreateAgain \/ WaitForAll \/ EndWait
  BY <1>1 DEF NextDag, TriggerDag, CreateAgain, WaitForAll, EndWait, Returned, Proceed,
              endVars, boundVars
<1>2. CASE LookUp \/ AlreadyExists \/ ClearExisting
  BY <1>2 DEF LookUp, AlreadyExists, ClearExisting, ClearDagRun, Lookup, Fault, NoFault,
              Returned, Proceed, endVars
<1>3. CASE \E d \in Dags : Poll(d) \/ RetryRun(d)
  BY <1>3 DEF Poll, RetryRun, ClearDagRun, Lookup, Fault, NoFault, endVars, callVars
<1>4. CASE StillExists \/ TriggerFails
  BY <1>4 DEF StillExists, TriggerFails, Raised, LoseCall, Fault, endVars, boundVars
<1>5. CASE TriggerStores \/ EndStore \/ CallerDies
  BY <1>5 DEF TriggerStores, EndStore, CallerDies, LoseCall
<1>6. ASSUME NEW r \in Runs, StartRun(r) \/ EndRun(r) \/ DisturbRun(r)
      PROVE  /\ store' = store /\ pc' = pc
             /\ synced \subseteq synced' /\ faults' >= faults
             /\ \A s \in Runs : failures'[s] >= failures[s]
  <2>1. /\ store' = store /\ pc' = pc
        /\ synced \subseteq synced' /\ faults' = faults
        /\ \/ failures' = failures
           \/ failures' = [failures EXCEPT ![r] = IF @ > Retries THEN @ ELSE @ + 1]
    BY <1>6 DEF StartRun, EndRun, DisturbRun, endVars, callVars, boundVars
  <2>2. /\ faults \in Nat /\ failures \in [Runs -> 0 .. Retries + 1]
        /\ \A s \in Runs : failures[s] \in Nat
    BY CountTypes
  <2> QED
    BY <2>1, <2>2
<1> QED
  BY <1>1, <1>2, <1>3, <1>4, <1>5, <1>6 DEF Next, CallStep

\* A DAG whose run the call comes to know of has an active one, or the call has access
\* to the database.
LEMMA BegunChange ==
  ASSUME TypeOK, PositionInvariant, WaitInvariant, ResetInvariant, Next
  PROVE  \/ BeginStore
         \/ \A d \in Begun' :
              \/ d \in Begun
              \/ d = current /\ (runs'[Run(d)] \in ActiveStates \/ ~config.sdk)
<1> USE DEF Begun
<1>0. ASSUME InRequest PROVE Run(current) \in Runs
  BY <1>0, RunType DEF InRequest, TypeOK
<1>1. CASE NextDag \/ ClearExisting \/ WaitForAll \/ EndWait \/ OthersStep
           \/ \E d \in Dags : Poll(d) \/ RetryRun(d)
  BY <1>1 DEF NextDag, ClearExisting, WaitForAll, EndWait, Poll, RetryRun, OthersStep, StartRun,
              EndRun, DisturbRun, dagVars
<1>2. CASE LookUp
  <2>1. CASE skipped' = skipped
    BY <1>2, <2>1 DEF LookUp
  <2>2. CASE skipped' # skipped
    <3>1. skipped' = skipped \cup {current} /\ runs[Run(current)] \in ActiveStates
      BY <1>2, <2>2 DEF LookUp, Lookup, ActiveStates
    <3> QED
      BY <1>2, <3>1 DEF LookUp
  <2> QED
    BY <2>1, <2>2
<1>3. CASE TriggerDag \/ CreateAgain
  BY <1>0, <1>3 DEF TriggerDag, CreateAgain, Returned, Proceed, SetRun, ActiveStates, TypeOK,
                    InRequest
<1>4. CASE AlreadyExists
  <2>1. CASE reset
    BY <1>4, <2>1 DEF AlreadyExists, Returned, ResetInvariant
  <2>2. CASE ~reset /\ triggered' # triggered
    <3>1. runs[Run(current)] \in ActiveStates /\ triggered' = triggered \cup {current}
      BY <1>4, <2>2 DEF AlreadyExists, Returned, Lookup, ActiveStates
    <3> QED
      BY <1>4, <3>1 DEF AlreadyExists
  <2>3. CASE triggered' = triggered
    BY <1>4, <2>3 DEF AlreadyExists
  <2> QED
    BY <2>1, <2>2, <2>3
<1>5. CASE StillExists \/ TriggerFails
  BY <1>5 DEF StillExists, TriggerFails, Raised, LoseCall
<1>6. CASE TriggerStores \/ EndStore \/ CallerDies
  BY <1>6 DEF TriggerStores, EndStore, CallerDies, LoseCall
<1> QED
  BY <1>1, <1>2, <1>3, <1>4, <1>5, <1>6 DEF Next, CallStep, OthersStep
\* A run that is taken for a success is one.
LEMMA SucceededChange ==
  ASSUME TypeOK, Next
  PROVE  \/ BeginStore
         \/ \A d \in succeeded_runs' :
              \/ d \in succeeded_runs
              \/ d \in pending /\ runs[Run(d)] = "success"
<1>1. ASSUME NEW d \in Dags, Poll(d)
      PROVE  succeeded_runs' \subseteq succeeded_runs \cup {d}
             /\ (succeeded_runs' = succeeded_runs
                 \/ (d \in pending /\ runs[Run(d)] = "success"))
  BY <1>1 DEF Poll, Lookup, IsSuccess, IsFailure
<1>2. CASE OthersStep \/ \E d \in Dags : RetryRun(d)
  BY <1>2 DEF OthersStep, StartRun, EndRun, DisturbRun, RetryRun, waitVars
<1>3. CASE NextDag \/ LookUp \/ TriggerDag \/ AlreadyExists \/ ClearExisting \/ CreateAgain
           \/ WaitForAll \/ EndWait
  BY <1>3 DEF NextDag, LookUp, TriggerDag, AlreadyExists, ClearExisting, CreateAgain, WaitForAll,
              EndWait, Returned, Proceed, waitVars
<1>4. CASE StillExists \/ TriggerFails \/ TriggerStores \/ EndStore \/ CallerDies
  BY <1>4 DEF StillExists, TriggerFails, Raised, LoseCall, TriggerStores, EndStore, CallerDies,
              waitVars
<1> QED
  BY <1>1, <1>2, <1>3, <1>4 DEF Next, CallStep, OthersStep

-----------------------------------------------------------------------------
(* What has ended in success *)

LEMMA SyncStep ==
  ASSUME TypeOK, PositionInvariant, WaitInvariant, SyncInvariant, ResetInvariant, Next
  PROVE  SyncInvariant'
<1>0. config' = config
  BY ConfigStays
<1>1. ASSUME ~config.sdk, pc' # "idle", NEW r \in Runs, runs'[r] = "success"
      PROVE  r \in synced'
  <2>1. CASE TriggerStores
    BY <1>1, <2>1 DEF TriggerStores
  <2>2. CASE ~TriggerStores
    <3>1. synced \subseteq synced' /\ pc # "idle"
      BY <1>1, <2>2, CountsGrow DEF EndStore, endVars
    <3> QED
      BY <1>1, <3>1, RunsChange DEF SyncInvariant
  <2> QED
    BY <2>1, <2>2
<1>2. CASE BeginStore
  BY <1>0, <1>1, <1>2 DEF BeginStore, SyncInvariant, Begun
<1>3. CASE ~BeginStore
  <2>1. store' = store /\ synced \subseteq synced' /\ \A d : Run(d)' = Run(d)
    BY <1>0, <1>3, CountsGrow DEF Run
  <2>2. ASSUME NEW d \in succeeded_runs' PROVE Run(d) \in synced'
    <3>1. CASE d \in succeeded_runs
      BY <2>1, <3>1 DEF SyncInvariant
    <3>2. CASE d \in pending /\ runs[Run(d)] = "success"
      <4>1. d \in Begun /\ pc # "idle"
        BY <3>2, IdleKnowsNothing DEF WaitInvariant, Waited
      <4>2. Run(d) \in synced
        BY <3>2, <4>1, BegunRun DEF SyncInvariant
      <4> QED
        BY <2>1, <4>2
    <3> QED
      BY <1>3, <3>1, <3>2, SucceededChange
  <2>3. ASSUME config.sdk, NEW d \in Begun', runs'[Run(d)] = "success" PROVE Run(d) \in synced'
    <3>1. CASE d \in Begun
      BY <2>1, <2>3, <3>1, BegunRun, RunsChange DEF SyncInvariant
    <3>2. CASE d \notin Begun
      BY <1>3, <2>3, <3>2, BegunChange DEF ActiveStates
    <3> QED
      BY <3>1, <3>2
  <2> QED
    BY <1>0, <1>1, <2>1, <2>2, <2>3 DEF SyncInvariant
<1> QED
  BY <1>2, <1>3

-----------------------------------------------------------------------------
(* How often a run has failed *)

LEMMA FailuresType ==
  ASSUME TypeOK, NEW d \in Dags, Run(d) \in Runs
  PROVE  Failures(d) \in Nat /\ (~config.sdk => Failures(d) >= 1)
<1>1. failures[Run(d)] \in Nat /\ faults \in Nat
  BY CountTypes
<1> QED
  BY <1>1 DEF Failures

\* The count of a run only grows while the store stays.
LEMMA FailuresGrow ==
  ASSUME TypeOK, TypeOK', PositionInvariant, WaitInvariant, Next, ~BeginStore,
         NEW d \in Dags, Run(d) \in Runs
  PROVE  /\ Run(d)' = Run(d) /\ Failures(d)' >= Failures(d)
         /\ Failures(d) \in Nat /\ Failures(d)' \in Nat
         /\ runs'[Run(d)] = "failed" /\ runs[Run(d)] # "failed" =>
              Failures(d)' > Failures(d) \/ Failures(d)' > Retries
<1>1. /\ store' = store /\ config' = config /\ faults' >= faults
      /\ failures'[Run(d)] >= failures[Run(d)]
  BY ConfigStays, CountsGrow
<1>2. Run(d)' = Run(d)
  BY <1>1 DEF Run
<1>3. /\ failures[Run(d)] \in Nat /\ failures'[Run(d)] \in Nat
      /\ faults \in Nat /\ faults' \in Nat
  BY ConfigIsSound DEF TypeOK
<1>4. runs'[Run(d)] = "failed" /\ runs[Run(d)] # "failed" =>
        failures'[Run(d)] > failures[Run(d)] \/ failures'[Run(d)] > Retries
  BY RunsChange
<1>5. Failures(d)' = failures'[Run(d)] + faults' + IF config.sdk THEN 0 ELSE 1
  BY <1>1, <1>2 DEF Failures
<1> QED
  BY <1>1, <1>2, <1>3, <1>4, <1>5, ConfigIsSound DEF Failures
\* What is waited for was waited for before, or the wait begins, or a run that had
\* failed was triggered again.
LEMMA PendingChange ==
  ASSUME TypeOK, PositionInvariant, WaitInvariant, ResetInvariant, Next
  PROVE  \/ BeginStore
         \/ \A d \in pending' :
              \/ d \in pending /\ attempt' = attempt
              \/ attempt' = 0
              \/ /\ d \in toRetry /\ d = current /\ attempt' = attempt /\ InRequest /\ again
                 /\ runs'[Run(d)] = "failed" => ~config.sdk /\ runs[Run(d)] = "failed"
<1>0. ASSUME InRequest PROVE Run(current) \in Runs
  BY <1>0, RunType DEF InRequest, TypeOK
<1>1. ASSUME Returned, InRequest,
             runs'[Run(current)] = "failed" =>
               ~again \/ (~config.sdk /\ runs[Run(current)] = "failed")
      PROVE  \A d \in pending' :
              \/ d \in pending /\ attempt' = attempt
              \/ attempt' = 0
              \/ /\ d \in toRetry /\ d = current /\ attempt' = attempt /\ InRequest /\ again
                 /\ runs'[Run(d)] = "failed" => ~config.sdk /\ runs[Run(d)] = "failed"
  <2>1. CASE again
    BY <1>1, <2>1 DEF Returned, WaitInvariant
  <2>2. CASE ~again
    BY <1>1, <2>2 DEF Returned, Proceed, waitVars
  <2> QED
    BY <2>1, <2>2
<1>2. CASE OthersStep \/ NextDag \/ ClearExisting \/ EndWait \/ \E d \in Dags : RetryRun(d)
  BY <1>2 DEF OthersStep, StartRun, EndRun, DisturbRun, RetryRun, NextDag, ClearExisting, EndWait,
              waitVars
<1>3. CASE WaitForAll \/ LookUp \/ \E d \in Dags : Poll(d)
  BY <1>3 DEF WaitForAll, LookUp, Poll, Proceed, waitVars
<1>4. CASE TriggerDag \/ CreateAgain
  <2>1. CASE Returned /\ SetRun(current, "queued")
    <3>1. InRequest /\ runs'[Run(current)] = "queued"
      BY <1>0, <1>4, <2>1 DEF TriggerDag, CreateAgain, SetRun, TypeOK, InRequest
    <3> QED
      BY <1>1, <2>1, <3>1
  <2>2. CASE ~(Returned /\ SetRun(current, "queued"))
    BY <1>4, <2>2 DEF TriggerDag, CreateAgain, waitVars
  <2> QED
    BY <2>1, <2>2
<1>5. CASE AlreadyExists
  <2>1. CASE Returned
    <3>1. InRequest /\ runs' = runs /\ (again => ~config.sdk)
      BY <1>5 DEF AlreadyExists, InRequest, WaitInvariant, ResetInvariant
    <3> QED
      BY <1>1, <2>1, <3>1
  <2>2. CASE ~Returned
    BY <1>5, <2>2 DEF AlreadyExists, waitVars
  <2> QED
    BY <2>1, <2>2
<1>6. CASE StillExists \/ TriggerFails \/ TriggerStores \/ EndStore \/ CallerDies
  BY <1>6 DEF StillExists, TriggerFails, Raised, LoseCall, TriggerStores, EndStore, CallerDies,
              waitVars
<1> QED
  BY <1>2, <1>3, <1>4, <1>5, <1>6 DEF Next, CallStep, OthersStep

\* What is triggered again has failed, and what has failed in the end was polled.
LEMMA RetryChange ==
  ASSUME TypeOK, PositionInvariant, WaitInvariant, ModeInvariant, Next
  PROVE  \/ BeginStore
         \/ /\ \A d \in toRetry' :
                 \/ d \in toRetry /\ attempt' = attempt
                 \/ d \in failed_runs /\ attempt' = attempt + 1
            /\ \A d \in failed_runs' :
                 \/ d \in failed_runs /\ attempt' = attempt
                 \/ d \in pending /\ attempt' = attempt /\ runs[Run(d)] = "failed"
<1>1. ASSUME NEW d \in Dags, Poll(d)
      PROVE  /\ toRetry' = toRetry /\ attempt' = attempt
             /\ \/ failed_runs' = failed_runs
                \/ /\ failed_runs' = failed_runs \cup {d} /\ d \in pending
                   /\ runs[Run(d)] = "failed"
  BY <1>1 DEF Poll, Lookup, IsSuccess, IsFailure
<1>2. CASE OthersStep \/ NextDag \/ ClearExisting \/ \E d \in Dags : RetryRun(d)
  BY <1>2 DEF OthersStep, StartRun, EndRun, DisturbRun, RetryRun, NextDag, ClearExisting, waitVars
<1>3. CASE EndWait
  BY <1>3 DEF EndWait, WaitInvariant, InRequest
<1>4. CASE WaitForAll
  <2>1. failed_runs = {} /\ toRetry = {}
    BY <1>4 DEF WaitForAll, MustWaitForAll, WaitInvariant, InRequest
  <2> QED
    BY <1>4, <2>1 DEF WaitForAll
<1>5. CASE LookUp \/ TriggerDag \/ AlreadyExists \/ CreateAgain
  <2>1. failed_runs = {} /\ (~again => toRetry = {}) /\ (pc = "look" => ~again)
    BY <1>5 DEF LookUp, TriggerDag, AlreadyExists, CreateAgain, WaitInvariant, InRequest
  <2>2. /\ failed_runs' = failed_runs /\ toRetry' \subseteq toRetry
        /\ again => attempt' = attempt
    BY <1>5, <2>1 DEF LookUp, TriggerDag, AlreadyExists, CreateAgain, Returned, Proceed, waitVars
  <2> QED
    BY <2>1, <2>2
<1>6. CASE StillExists \/ TriggerFails \/ TriggerStores \/ EndStore \/ CallerDies
  BY <1>6 DEF StillExists, TriggerFails, Raised, LoseCall, TriggerStores, EndStore, CallerDies,
              waitVars
<1> QED
  BY <1>1, <1>2, <1>3, <1>4, <1>5, <1>6 DEF Next, CallStep, OthersStep

\* A run that is triggered again although it is there was not cleared.
LEMMA AgainChange ==
  ASSUME TypeOK, PositionInvariant, WaitInvariant, Next,
         (InRequest /\ again)', ~config.sdk, runs'[Run(current')] # "none"
  PROVE  \/ InRequest /\ again /\ current' = current /\ attempt' = attempt
            /\ runs[Run(current)] # "none"
         \/ current' \in toRetry /\ faults' = faults + 1 /\ attempt' = attempt
<1>1. ASSUME NEW d \in Dags, RetryRun(d)
      PROVE  current' \in toRetry /\ faults' = faults + 1 /\ attempt' = attempt
  <2>1. Run(d) \in Runs /\ current' = d
    BY <1>1, RunType DEF RetryRun
  <2>2. ~SetRun(d, "none")
    BY <2>1 DEF SetRun, TypeOK
  <2> QED
    BY <1>1, <2>2 DEF RetryRun, ClearDagRun, Fault, waitVars
<1>2. ASSUME NEW r \in Runs, StartRun(r) \/ EndRun(r) \/ DisturbRun(r)
      PROVE  /\ InRequest /\ again /\ current' = current /\ attempt' = attempt
             /\ runs[Run(current)] # "none"
  <2>1. InRequest /\ again /\ current' = current /\ attempt' = attempt
    BY <1>2 DEF StartRun, EndRun, DisturbRun, callVars, waitVars, InRequest
  <2>2. Run(current) \in Runs
    BY <2>1, RunType DEF InRequest, TypeOK
  <2> QED
    BY <1>2, <2>1, <2>2 DEF StartRun, EndRun, DisturbRun, TypeOK
<1>3. CASE TriggerDag \/ AlreadyExists
  BY <1>3 DEF TriggerDag, AlreadyExists, Returned, Proceed, InRequest, WaitInvariant, waitVars
<1>4. CASE NextDag \/ LookUp \/ ClearExisting \/ CreateAgain \/ WaitForAll \/ EndWait
  BY <1>4 DEF NextDag, LookUp, ClearExisting, CreateAgain, WaitForAll, EndWait, Returned, Proceed,
              InRequest, WaitInvariant
<1>5. CASE StillExists \/ TriggerFails
  BY <1>5 DEF StillExists, TriggerFails, Raised, LoseCall, InRequest
<1>6. CASE TriggerStores \/ EndStore \/ CallerDies
  BY <1>6 DEF TriggerStores, EndStore, CallerDies, LoseCall, BeginStore
<1>7. CASE \E d \in Dags : Poll(d)
  BY <1>7 DEF Poll, callVars, InRequest
<1> QED
  BY <1>1, <1>2, <1>3, <1>4, <1>5, <1>6, <1>7 DEF Next, CallStep

LEMMA FailureStep ==
  ASSUME TypeOK, TypeOK', PositionInvariant, PositionInvariant', WaitInvariant, WaitInvariant',
         ModeInvariant, ResetInvariant, FailureInvariant, Next
  PROVE  FailureInvariant'
<1>0. config' = config
  BY ConfigStays
<1>1. CASE BeginStore
  BY <1>1 DEF BeginStore, FailureInvariant, Begun
<1>2. CASE ~BeginStore
  <2>0. /\ attempt \in Nat /\ attempt' \in Nat /\ attempt' <= Retries
        /\ \A d \in Dags : Run(d)' = Run(d)
    <3>1. attempt \in 0 .. Retries /\ attempt' \in 0 .. Retries /\ Retries \in Nat
      BY ConfigIsSound DEF TypeOK
    <3>2. store' = store
      BY <1>2, CountsGrow
    <3> QED
      BY <1>0, <3>1, <3>2 DEF Run
  <2>1. \A d \in Begun' : d \in Dags /\ Run(d) \in Runs
    <3>1. \A d \in Begun' : d \in Dags
      BY DEF TypeOK, Begun
    <3>2. \A d \in Begun : Run(d) \in Runs
      BY BegunRun
    <3>3. ASSUME NEW d \in Begun', d \notin Begun PROVE Run(d) \in Runs
      <4>1. pc' # "idle"
        BY <3>3 DEF PositionInvariant, Begun, Reached
      <4>2. pc # "idle"
        BY <1>2, <4>1, CountsGrow
      <4> QED
        BY <3>1, <4>2, RunType
    <3> QED
      BY <3>1, <3>2, <3>3
  <2>2. pending' \cup toRetry' \cup failed_runs' \subseteq Begun'
    BY DEF WaitInvariant, Waited
  <2>3. ASSUME NEW d \in Begun', runs'[Run(d)] = "failed" PROVE Failures(d)' >= 1
    <3>1. /\ Failures(d)' >= Failures(d) /\ Failures(d) \in Nat /\ Failures(d)' \in Nat
          /\ runs[Run(d)] # "failed" => Failures(d)' > Failures(d) \/ Failures(d)' > Retries
      BY <1>2, <2>1, <2>3, FailuresGrow
    <3>2. CASE runs[Run(d)] # "failed"
      BY <3>1, <3>2, ConfigIsSound
    <3>3. CASE d \in Begun /\ runs[Run(d)] = "failed"
      BY <3>1, <3>3 DEF FailureInvariant
    <3>4. CASE d \notin Begun
      <4>1. ~config.sdk
        BY <1>2, <2>3, <3>4, BegunChange DEF ActiveStates
      <4>2. Failures(d) >= 1
        BY <2>1, <4>1, FailuresType
      <4> QED
        BY <3>1, <4>2
    <3> QED
      BY <3>2, <3>3, <3>4
  <2>4. ASSUME NEW d \in pending'
        PROVE  Failures(d)' >= attempt' + IF runs'[Run(d)] = "failed" THEN 1 ELSE 0
    <3>1. /\ Failures(d)' >= Failures(d) /\ Failures(d) \in Nat /\ Failures(d)' \in Nat
          /\ runs'[Run(d)] = "failed" /\ runs[Run(d)] # "failed" =>
               Failures(d)' > Failures(d) \/ Failures(d)' > Retries
      BY <1>2, <2>1, <2>2, FailuresGrow
    <3>2. CASE d \in pending /\ attempt' = attempt
      <4>1. Failures(d) >= attempt + IF runs[Run(d)] = "failed" THEN 1 ELSE 0
        BY <3>2 DEF FailureInvariant
      <4>2. CASE runs'[Run(d)] = "failed" /\ runs[Run(d)] # "failed"
        BY <2>0, <3>1, <3>2, <4>1, <4>2, ConfigIsSound
      <4>3. CASE ~(runs'[Run(d)] = "failed" /\ runs[Run(d)] # "failed")
        BY <2>0, <3>1, <3>2, <4>1, <4>3
      <4> QED
        BY <4>2, <4>3
    <3>3. CASE attempt' = 0
      BY <2>2, <2>3, <3>1, <3>3
    <3>4. CASE /\ d \in toRetry /\ d = current /\ attempt' = attempt /\ InRequest /\ again
               /\ runs'[Run(d)] = "failed" => ~config.sdk /\ runs[Run(d)] = "failed"
      <4>1. Failures(d) >= attempt
        BY <3>4 DEF FailureInvariant
      <4>2. runs'[Run(d)] = "failed" => Failures(d) >= attempt + 1
        BY <3>4 DEF FailureInvariant
      <4> QED
        BY <2>0, <3>1, <3>4, <4>1, <4>2
    <3> QED
      BY <1>2, <3>2, <3>3, <3>4, PendingChange
  <2>5. ASSUME NEW d \in toRetry' PROVE Failures(d)' >= attempt'
    <3>1. Failures(d)' >= Failures(d) /\ Failures(d) \in Nat /\ Failures(d)' \in Nat
      BY <1>2, <2>1, <2>2, FailuresGrow
    <3>2. Failures(d) >= attempt'
      BY <1>2, RetryChange DEF FailureInvariant
    <3> QED
      BY <2>0, <3>1, <3>2
  <2>6. ASSUME NEW d \in failed_runs' PROVE Failures(d)' >= attempt' + 1
    <3>1. Failures(d)' >= Failures(d) /\ Failures(d) \in Nat /\ Failures(d)' \in Nat
      BY <1>2, <2>1, <2>2, FailuresGrow
    <3>2. Failures(d) >= attempt' + 1
      BY <1>2, RetryChange DEF FailureInvariant
    <3> QED
      BY <2>0, <3>1, <3>2
  <2>7. ASSUME (InRequest /\ again /\ ~config.sdk)', runs'[Run(current')] # "none"
        PROVE  Failures(current)' >= attempt' + 1
    <3>1. CASE InRequest /\ again /\ current' = current /\ attempt' = attempt
               /\ runs[Run(current)] # "none"
      <4>1. Failures(current) >= attempt + 1
        BY <1>0, <2>7, <3>1 DEF FailureInvariant
      <4>2. Run(current) \in Runs /\ current \in Dags
        BY <3>1, RunType DEF InRequest, TypeOK
      <4>3. Failures(current)' >= Failures(current)
            /\ Failures(current) \in Nat /\ Failures(current)' \in Nat
        <5>1. PICK d \in Dags : d = current
          BY <4>2
        <5>2. Failures(d)' >= Failures(d) /\ Failures(d) \in Nat /\ Failures(d)' \in Nat
          BY <1>2, <4>2, <5>1, FailuresGrow
        <5>3. Failures(current)' = Failures(d)' /\ Failures(current) = Failures(d)
          BY <3>1, <5>1 DEF Failures, Run
        <5> QED
          BY <5>2, <5>3
      <4> QED
        BY <2>0, <3>1, <4>1, <4>3
    <3>2. CASE current' \in toRetry /\ faults' = faults + 1 /\ attempt' = attempt
      <4>1. PICK d \in toRetry : d = current'
        BY <3>2
      <4>2. Failures(d) >= attempt
        BY <4>1 DEF FailureInvariant
      <4>3. d \in Dags /\ Run(d) \in Runs
        BY <4>1, BegunRun DEF WaitInvariant, Waited
      <4>4. /\ store' = store /\ failures'[Run(d)] >= failures[Run(d)]
            /\ failures[Run(d)] \in Nat /\ failures'[Run(d)] \in Nat
            /\ faults \in Nat
        <5>1. store' = store /\ failures'[Run(d)] >= failures[Run(d)]
          BY <1>2, <4>3, CountsGrow
        <5>2. failures[Run(d)] \in Nat /\ faults \in Nat
          BY <4>3, CountTypes
        <5>3. failures'[Run(d)] \in 0 .. Retries + 1 /\ Retries \in Nat
          BY <4>3, ConfigIsSound DEF TypeOK
        <5> QED
          BY <5>1, <5>2, <5>3
      <4>5. Failures(current)' = failures'[Run(d)] + faults' + IF config.sdk THEN 0 ELSE 1
        BY <1>0, <4>1, <4>4 DEF Failures, Run
      <4> QED
        BY <2>0, <3>2, <4>2, <4>4, <4>5 DEF Failures
    <3> QED
      BY <1>0, <2>7, <3>1, <3>2, AgainChange
  <2>8. Run(current)' = Run(current')
    BY <2>0, <1>0, <1>2, CountsGrow DEF Run
  <2> QED
    BY <2>0, <2>1, <2>2, <2>3, <2>4, <2>5, <2>6, <2>7, <2>8 DEF FailureInvariant
<1> QED
  BY <1>1, <1>2
-----------------------------------------------------------------------------
(* What may be replaced *)

\* While nobody else clears runs and no more than one request has failed, a run becomes
\* active by a request of the call, or it was active.
LEMMA ActiveChange ==
  ASSUME TypeOK, PositionInvariant, WaitInvariant, Next, others' = 0, NEW r \in Runs,
         runs'[r] \in ActiveStates, runs[r] \notin ActiveStates
  PROVE  (TriggerDag \/ TriggerFails \/ CreateAgain) /\ r = Run(current)
<1>1. CASE TriggerDag \/ TriggerFails \/ CreateAgain
  BY <1>1 DEF TriggerDag, TriggerFails, CreateAgain, SetRun, TypeOK
<1>2. CASE TriggerStores \/ NextDag \/ LookUp \/ AlreadyExists \/ StillExists \/ WaitForAll
           \/ EndWait \/ EndStore \/ CallerDies \/ \E d \in Dags : Poll(d)
  BY <1>2 DEF TriggerStores, NextDag, LookUp, AlreadyExists, StillExists, WaitForAll, EndWait,
              EndStore, CallerDies, Poll
<1>3. CASE ClearExisting \/ \E d \in Dags : RetryRun(d)
  BY <1>3 DEF ClearExisting, RetryRun, ClearDagRun, SetRun, TypeOK, ActiveStates
<1>4. ASSUME NEW s \in Runs, StartRun(s) \/ EndRun(s) \/ DisturbRun(s) PROVE FALSE
  <2>1. ~DisturbRun(s)
    BY DEF DisturbRun, TypeOK
  <2> QED
    BY <1>4, <2>1 DEF StartRun, EndRun, TypeOK, ActiveStates
<1> QED
  BY <1>1, <1>2, <1>3, <1>4 DEF Next, CallStep

LEMMA BoundsGrow ==
  ASSUME TypeOK, Next
  PROVE  /\ others \in Nat /\ faults \in Nat /\ others' \in Nat /\ faults' \in Nat
         /\ others' >= others /\ faults' >= faults
<1> USE DEF TypeOK, Fault, NoFault, boundVars
<1>0. others \in Nat /\ faults \in Nat
  BY ConfigIsSound
<1>1. CASE TriggerStores \/ NextDag \/ LookUp \/ TriggerDag \/ AlreadyExists
  BY <1>0, <1>1 DEF TriggerStores, NextDag, LookUp, TriggerDag, AlreadyExists, Lookup
<1>2. CASE ClearExisting \/ CreateAgain \/ StillExists \/ WaitForAll \/ EndWait \/ EndStore
  BY <1>0, <1>2 DEF ClearExisting, CreateAgain, StillExists, WaitForAll, EndWait, EndStore,
                    ClearDagRun
<1>3. CASE TriggerFails \/ CallerDies \/ \E d \in Dags : Poll(d) \/ RetryRun(d)
  BY <1>0, <1>3 DEF TriggerFails, CallerDies, Poll, RetryRun, ClearDagRun, Lookup
<1>4. CASE OthersStep
  BY <1>0, <1>4 DEF OthersStep, StartRun, EndRun, DisturbRun
<1> QED
  BY <1>1, <1>2, <1>3, <1>4 DEF Next, CallStep, OthersStep

LEMMA ResetStep ==
  ASSUME TypeOK, PositionInvariant, WaitInvariant, ModeInvariant, ResetInvariant, Next
  PROVE  ResetInvariant'
<1>0. config' = config
  BY ConfigStays
<1>1. (config.sdk /\ pc = "exists" => ~reset)' /\ (pc \in {"clear", "create"} => ~config.sdk)'
  <2> USE DEF ResetInvariant
  <2>1. CASE LookUp \/ TriggerDag \/ AlreadyExists \/ ClearExisting \/ CreateAgain
    BY <1>0, <2>1 DEF LookUp, TriggerDag, AlreadyExists, ClearExisting, CreateAgain, Returned,
                      Proceed
  <2>2. CASE NextDag \/ WaitForAll \/ EndWait \/ \E d \in Dags : Poll(d) \/ RetryRun(d)
    BY <1>0, <2>2 DEF NextDag, WaitForAll, EndWait, Poll, RetryRun, callVars
  <2>3. CASE TriggerStores \/ EndStore \/ CallerDies \/ StillExists \/ TriggerFails
    BY <1>0, <2>3 DEF TriggerStores, EndStore, CallerDies, StillExists, TriggerFails, Raised,
                      LoseCall
  <2>4. CASE OthersStep
    BY <1>0, <2>4 DEF OthersStep, StartRun, EndRun, DisturbRun, callVars
  <2> QED
    BY <2>1, <2>2, <2>3, <2>4 DEF Next, CallStep, OthersStep
<1>2. ASSUME others' = 0, faults' <= 1
      PROVE  /\ (pc' = "trigger" /\ reset') \/ pc' = "clear" =>
                  runs'[Run(current')] \notin ActiveStates
             /\ pc' \in {"trigger", "exists"} /\ ~reset' /\ runs'[Run(current')] # "none" =>
                  faults' >= 1
             /\ \A d \in toRetry' \cup failed_runs' : runs'[Run(d)] \notin ActiveStates
  <2>1. others = 0 /\ faults <= 1 /\ faults \in Nat /\ faults' \in Nat /\ faults' >= faults
    BY <1>2, BoundsGrow
  <2>2. ASSUME InRequest PROVE Run(current) \in Runs
    BY <2>2, RunType DEF InRequest, TypeOK
  <2>3. (pc' = "trigger" /\ reset') \/ pc' = "clear" => runs'[Run(current')] \notin ActiveStates
    <3>1. CASE LookUp
      BY <3>1 DEF LookUp, Lookup, Proceed, ActiveStates
    <3>2. CASE AlreadyExists
      <4>1. CASE Returned /\ reset' = reset
        BY <3>2, <4>1 DEF AlreadyExists, Returned, Proceed
      <4>2. CASE ~(Returned /\ reset' = reset)
        <5>1. PICK state \in States :
                Lookup(current, state) /\ state \notin ActiveStates /\ ~reset
          BY <3>2, <4>2 DEF AlreadyExists
        <5>2. runs' = runs /\ current' = current
          BY <3>2 DEF AlreadyExists
        <5>3. CASE runs[Run(current)] = state
          BY <5>1, <5>2, <5>3
        <5>4. CASE state = "none" /\ runs[Run(current)] # "none" /\ Fault
          <6>1. faults >= 1
            BY <2>1, <3>2, <5>1, <5>4 DEF ResetInvariant, AlreadyExists
          <6> QED
            BY <1>2, <2>1, <5>4, <6>1 DEF Fault
        <5> QED
          BY <5>1, <5>3, <5>4 DEF Lookup
      <4> QED
        BY <4>1, <4>2
    <3>3. ASSUME NEW d \in Dags, RetryRun(d) PROVE runs'[Run(current')] \notin ActiveStates
      <4>1. current' = d /\ Run(d) \in Runs /\ runs[Run(d)] \notin ActiveStates
        BY <2>1, <3>3, RunType DEF RetryRun, ResetInvariant
      <4> QED
        BY <3>3, <4>1 DEF RetryRun, ClearDagRun, SetRun, TypeOK, ActiveStates
    <3>4. ASSUME NEW r \in Runs, StartRun(r) \/ EndRun(r) \/ DisturbRun(r),
                 (pc' = "trigger" /\ reset') \/ pc' = "clear"
          PROVE  runs'[Run(current')] \notin ActiveStates
      <4>1. ~DisturbRun(r) /\ pc' = pc /\ reset' = reset /\ current' = current
        BY <1>2, <2>1, <3>4 DEF StartRun, EndRun, DisturbRun, callVars
      <4>2. Run(current) \in Runs /\ runs[Run(current)] \notin ActiveStates
        BY <2>1, <2>2, <3>4, <4>1 DEF ResetInvariant, InRequest
      <4> QED
        BY <3>4, <4>1, <4>2 DEF StartRun, EndRun, TypeOK, ActiveStates
    <3>5. CASE TriggerDag \/ ClearExisting \/ CreateAgain \/ NextDag \/ WaitForAll \/ EndWait
      BY <3>5 DEF TriggerDag, ClearExisting, CreateAgain, NextDag, WaitForAll, EndWait, Returned,
                  Proceed
    <3>6. CASE TriggerStores \/ EndStore \/ CallerDies \/ StillExists \/ TriggerFails
      BY <3>6 DEF TriggerStores, EndStore, CallerDies, StillExists, TriggerFails, Raised, LoseCall
    <3>7. ASSUME NEW d \in Dags, Poll(d) PROVE pc' = "poll"
      BY <3>7 DEF Poll, callVars
    <3> QED
      BY <3>1, <3>2, <3>3, <3>4, <3>5, <3>6, <3>7 DEF Next, CallStep
  <2>4. ASSUME pc' \in {"trigger", "exists"}, ~reset', runs'[Run(current')] # "none"
        PROVE  faults' >= 1
    <3>1. CASE LookUp
      <4>1. PICK state \in States : Lookup(current, state) /\ state \notin {"failed", "success"}
              /\ state \notin ActiveStates
        BY <2>4, <3>1 DEF LookUp, Proceed
      <4>2. state = "none" /\ runs' = runs /\ current' = current
        BY <3>1, <4>1 DEF LookUp, States, ActiveStates
      <4> QED
        BY <2>1, <2>4, <4>1, <4>2 DEF Lookup, Fault
    <3>2. CASE TriggerDag
      BY <2>1, <2>4, <3>2 DEF TriggerDag, Returned, Proceed, ResetInvariant
    <3>3. CASE AlreadyExists
      <4>1. ~reset /\ pc = "exists" /\ runs' = runs /\ current' = current
        BY <2>4, <3>3, Modes DEF AlreadyExists, Returned, Proceed, TypeOK
      <4> QED
        BY <2>1, <2>4, <4>1 DEF ResetInvariant
    <3>4. ASSUME NEW r \in Runs, StartRun(r) \/ EndRun(r) \/ DisturbRun(r) PROVE faults' >= 1
      <4>1. ~DisturbRun(r) /\ pc' = pc /\ reset' = reset /\ current' = current
        BY <1>2, <2>1, <3>4 DEF StartRun, EndRun, DisturbRun, callVars
      <4>2. runs[Run(current)] # "none"
        BY <2>2, <2>4, <3>4, <4>1 DEF StartRun, EndRun, TypeOK, InRequest
      <4> QED
        BY <2>1, <2>4, <4>1, <4>2 DEF ResetInvariant
    <3>5. CASE ClearExisting \/ CreateAgain \/ NextDag \/ WaitForAll \/ EndWait
      BY <2>4, <3>5 DEF ClearExisting, CreateAgain, NextDag, WaitForAll, EndWait, Returned, Proceed
    <3>6. CASE TriggerStores \/ EndStore \/ CallerDies \/ StillExists \/ TriggerFails
      BY <2>4, <3>6 DEF TriggerStores, EndStore, CallerDies, StillExists, TriggerFails, Raised,
                        LoseCall
    <3>7. ASSUME NEW d \in Dags, Poll(d) \/ RetryRun(d) PROVE FALSE
      BY <2>4, <3>7 DEF Poll, RetryRun, callVars
    <3> QED
      BY <2>4, <3>1, <3>2, <3>3, <3>4, <3>5, <3>6, <3>7 DEF Next, CallStep
  <2>5. ASSUME NEW d \in toRetry' \cup failed_runs', runs'[Run(d)] \in ActiveStates PROVE FALSE
    <3>1. ~BeginStore
      BY <2>5 DEF BeginStore
    <3>2. runs[Run(d)] \notin ActiveStates /\ d \in Begun
      BY <2>1, <3>1, <2>5, RetryChange DEF ResetInvariant, WaitInvariant, Waited, ActiveStates
    <3>3. (TriggerDag \/ TriggerFails \/ CreateAgain) /\ d = current
      BY <1>2, <2>5, <3>2, BegunRun, ActiveChange, RunsDiffer
    <3>4. failed_runs = {} /\ (~again => toRetry = {})
      BY <3>3 DEF TriggerDag, TriggerFails, CreateAgain, WaitInvariant, InRequest
    <3>5. CASE TriggerFails
      BY <2>5, <3>1, <3>4, <3>5 DEF TriggerFails, Raised, LoseCall, waitVars
    <3>6. CASE TriggerDag \/ CreateAgain
      <4>1. runs' # runs
        BY <2>5, <3>2
      <4>2. Returned
        BY <3>6, <4>1 DEF TriggerDag, CreateAgain
      <4> QED
        BY <2>5, <3>3, <3>4, <4>2 DEF Returned, Proceed, waitVars
    <3> QED
      BY <3>3, <3>5, <3>6
  <2> QED
    BY <2>3, <2>4, <2>5
<1>3. CASE BeginStore /\ pc' \in {"idle", "next"}
  BY <1>1, <1>3 DEF ResetInvariant, BeginStore
<1>4. CASE store' = store
  <2>1. Run(current)' = Run(current') /\ \A d : Run(d)' = Run(d)
    BY <1>0, <1>4 DEF Run
  <2> QED
    BY <1>1, <1>2, <2>1 DEF ResetInvariant
<1> QED
  BY <1>3, <1>4, CountsGrow DEF TriggerStores, EndStore

-----------------------------------------------------------------------------
(* The invariant, and what it rests on *)

TypeAndTrigger == TypeOK /\ TriggerInvariant

LEMMA TriggerInit == Init => TypeAndTrigger
<1> SUFFICES ASSUME Init PROVE TypeAndTrigger
  OBVIOUS
<1>1. Reached(next) = {}
  BY DEF Init, Reached
<1> QED
  BY <1>1, TypeInit DEF Init, TypeAndTrigger, TriggerInvariant, PositionInvariant, WaitInvariant,
     ModeInvariant, SyncInvariant, FailureInvariant, ResetInvariant, Waited, Begun, Waiting,
     Asking, InRequest

LEMMA TriggerUnchanged ==
  ASSUME TypeAndTrigger, UNCHANGED vars
  PROVE  TypeAndTrigger'
<1> USE DEF vars, callVars, dagVars, waitVars, endVars, boundVars
<1>1. TypeOK'
  BY DEF TypeAndTrigger, TypeOK
<1>2. /\ Begun' = Begun /\ Waited' = Waited /\ InRequest' = InRequest /\ Asking' = Asking
      /\ Waiting' = Waiting /\ Reached(next)' = Reached(next)
      /\ Run(current)' = Run(current) /\ Failures(current)' = Failures(current)
      /\ \A d : Run(d)' = Run(d) /\ Failures(d)' = Failures(d)
  BY DEF Begun, Waited, InRequest, Asking, Waiting, Reached, Run, Failures
<1>3. PositionInvariant' /\ WaitInvariant' /\ ModeInvariant'
  BY <1>2 DEF TypeAndTrigger, TriggerInvariant, PositionInvariant, WaitInvariant, ModeInvariant
<1>4. SyncInvariant' /\ FailureInvariant' /\ ResetInvariant'
  BY <1>2 DEF TypeAndTrigger, TriggerInvariant, SyncInvariant, FailureInvariant, ResetInvariant
<1> QED
  BY <1>1, <1>3, <1>4 DEF TypeAndTrigger, TriggerInvariant

LEMMA TriggerStep ==
  ASSUME TypeAndTrigger, [Next]_vars
  PROVE  TypeAndTrigger'
<1>1. CASE Next
  <2> USE <1>1 DEF TypeAndTrigger, TriggerInvariant
  <2>1. TypeOK' /\ PositionInvariant' /\ WaitInvariant' /\ ModeInvariant'
    BY TypeStep, PositionStep, WaitStep, ModeStep
  <2>2. SyncInvariant' /\ FailureInvariant' /\ ResetInvariant'
    BY <2>1, SyncStep, FailureStep, ResetStep
  <2> QED
    BY <2>1, <2>2
<1>2. CASE UNCHANGED vars
  BY <1>2, TriggerUnchanged
<1> QED
  BY <1>1, <1>2

LEMMA Invariance == Spec => []TypeAndTrigger
<1> QED
  BY TriggerInit, TriggerStep, PTL DEF Spec

\* The variables of DagSyncTrigger keep to their types, whatever its constants are.
THEOREM TypeCorrect == Spec => []TypeOK
<1>1. TypeAndTrigger => TypeOK
  BY DEF TypeAndTrigger
<1> QED
  BY <1>1, Invariance, PTL

\* What holds between any two requests of a call: where the loop is, which list a run is
\* in, what has ended, how often a run has failed and what may be replaced.
THEOREM TriggerInvariantHolds == Spec => []TriggerInvariant
<1>1. TypeAndTrigger => TriggerInvariant
  BY DEF TypeAndTrigger
<1> QED
  BY <1>1, Invariance, PTL

\* In serial mode no DAG is looked at before those in front of it have succeeded, whatever
\* fails and whoever is in between: in this call in SDK mode, in ORM mode also before it.
THEOREM SerialOrderHolds == Spec => []SerialOrderKept
<1>1. ASSUME TypeOK, TriggerInvariant, ~config.parallel, config.wait, pc \notin {"idle", "next"},
             NEW i \in 1 .. next - 1
      PROVE  Run(config.dags[i]) \in synced
  <2> USE DEF TriggerInvariant
  <2>1. /\ next \in Nat /\ i \in Nat /\ i >= 1 /\ i < next /\ next <= Len(config.dags)
        /\ next \in 1 .. Len(config.dags) /\ i \in 1 .. Len(config.dags)
    BY <1>1, DagList DEF TypeOK
  <2>2. config.dags[i] \in Reached(next) /\ config.dags[i] # config.dags[next]
    BY <1>1, <2>1, DagList DEF Reached, TypeOK
  <2>3. Asking \/ Waiting
    BY <1>1 DEF TypeOK, Asking, Waiting, InRequest
  <2>4. config.dags[i] \in Begun
    BY <1>1, <2>2, <2>3 DEF PositionInvariant
  <2>5. config.dags[i] \in succeeded_runs
    BY <1>1, <2>2, <2>4 DEF ModeInvariant, Waited
  <2> QED
    BY <1>1, <2>5 DEF SyncInvariant
<1>2. ASSUME TypeAndTrigger PROVE SerialOrderKept
  <2>1. TypeOK /\ TriggerInvariant
    BY <1>2 DEF TypeAndTrigger
  <2> QED
    BY <1>1, <2>1, Zenon DEF SerialOrderKept
<1> QED
  BY <1>2, Invariance, PTL

-----------------------------------------------------------------------------
(* The results *)

LEMMA ResultsChange ==
  ASSUME TypeOK, PositionInvariant, WaitInvariant, Next
  PROVE  \/ results' = [s \in Stores |-> NoResult]
         \/ EndStore
         \/ /\ results' = results /\ synced \subseteq synced' /\ faults' >= faults
            /\ \A r \in Runs : failures'[r] >= failures[r]
<1>1. CASE TriggerStores \/ CallerDies
  BY <1>1 DEF TriggerStores, CallerDies, LoseCall
<1>2. CASE StillExists \/ TriggerFails
  BY <1>2, BoundsGrow DEF StillExists, TriggerFails, Raised, LoseCall, endVars, TypeOK
<1>3. CASE NextDag \/ LookUp \/ TriggerDag \/ AlreadyExists \/ ClearExisting \/ CreateAgain
           \/ WaitForAll \/ EndWait \/ \E d \in Dags : Poll(d) \/ RetryRun(d)
  BY <1>3, BoundsGrow DEF NextDag, LookUp, TriggerDag, AlreadyExists, ClearExisting, CreateAgain,
     WaitForAll, EndWait, Poll, RetryRun, endVars, TypeOK
<1>4. ASSUME NEW r \in Runs, StartRun(r) \/ EndRun(r) \/ DisturbRun(r)
      PROVE  /\ results' = results /\ synced \subseteq synced' /\ faults' >= faults
             /\ \A x \in Runs : failures'[x] >= failures[x]
  <2>1. /\ results' = results /\ synced \subseteq synced'
        /\ \/ failures' = failures
           \/ failures' = [failures EXCEPT ![r] = IF @ > Retries THEN @ ELSE @ + 1]
    BY <1>4 DEF StartRun, EndRun, DisturbRun, endVars
  <2>2. /\ faults' >= faults /\ failures \in [Runs -> 0 .. Retries + 1]
        /\ \A x \in Runs : failures[x] \in Nat
    BY CountTypes, BoundsGrow
  <2> QED
    BY <2>1, <2>2
<1> QED
  BY <1>1, <1>2, <1>3, <1>4 DEF Next, CallStep

\* A store that is left without a failure has all of its DAGs done.
LEMMA AllSucceeded ==
  ASSUME TypeOK, TriggerInvariant, EndStore, failed = {}, config.wait
  PROVE  Reached(Len(config.dags)) \subseteq succeeded_runs
<1> USE DEF TriggerInvariant
<1>1. next = Len(config.dags) /\ pc = "next"
  BY DagList DEF EndStore, HasNextDag, TypeOK
<1>2. Reached(next) \subseteq Begun
  BY <1>1 DEF PositionInvariant, Asking, InRequest
<1>3. pending = {} /\ toRetry = {} /\ failed_runs = {}
  BY <1>1 DEF WaitInvariant, Waiting, InRequest
<1>4. Begun \subseteq Waited
  BY <1>3, Modes DEF EndStore, MustWaitForAll, ModeInvariant, Waited, TypeOK
<1> QED
  BY <1>1, <1>2, <1>3, <1>4 DEF Waited

LEMMA StoreOfCall ==
  ASSUME TypeOK, TriggerInvariant, EndStore
  PROVE  /\ config.stores[store] \in Stores
         /\ \A s \in Stores : s # config.stores[store] => results'[s] = results[s]
         /\ results'[config.stores[store]] =
              [success |-> failed = {}, action |-> [d \in Dags |-> ActionOf(d)],
               status |-> [d \in Dags |-> StatusOf(d)]]
         /\ synced' = synced /\ failures' = failures /\ faults' = faults
<1>1. store \in 1 .. Len(config.stores)
  BY StoreList DEF EndStore, TypeOK, TriggerInvariant, PositionInvariant
<1> QED
  BY <1>1, StoreList DEF EndStore, TypeOK, endVars, boundVars

LEMMA SuccessStep ==
  ASSUME TypeOK, TriggerInvariant, SuccessMeansSynced, Next
  PROVE  SuccessMeansSynced'
<1>0. config' = config
  BY ConfigStays
<1>1. CASE results' = [s \in Stores |-> NoResult]
  BY <1>1 DEF SuccessMeansSynced, NoResult
<1>2. CASE EndStore
  <2> DEFINE s0 == config.stores[store]
  <2>1. ASSUME NEW d \in Dags, failed = {}, config.wait,
               \E i \in DOMAIN config.dags : config.dags[i] = d
        PROVE  StatusOf(d) = "success"
    <3>1. d \in Reached(Len(config.dags))
      BY <2>1, DagList DEF Reached, TypeOK
    <3> QED
      BY <1>2, <2>1, <3>1, AllSucceeded DEF StatusOf
  <2>2. ASSUME NEW d \in Dags, StatusOf(d) = "success" PROVE <<s0, d>> \in synced
    <3>1. d \in succeeded_runs
      BY <2>2 DEF StatusOf, ActionOf
    <3> QED
      BY <3>1 DEF TriggerInvariant, SyncInvariant, Run
  <2>3. ASSUME NEW s \in Stores, NEW d \in Dags
        PROVE  /\ results'[s].success /\ config.wait
                    /\ (\E i \in DOMAIN config.dags : config.dags[i] = d) =>
                  results'[s].status[d] = "success"
               /\ results'[s].status[d] = "success" => <<s, d>> \in synced'
    <3>1. CASE s = s0
      <4>1. results'[s].success = (failed = {}) /\ results'[s].status[d] = StatusOf(d)
        BY <1>2, <3>1, StoreOfCall
      <4> QED
        BY <1>2, <2>1, <2>2, <3>1, <4>1, StoreOfCall
    <3>2. CASE s # s0
      BY <1>2, <3>2, StoreOfCall DEF SuccessMeansSynced
    <3> QED
      BY <3>1, <3>2
  <2> QED
    BY <1>0, <2>3 DEF SuccessMeansSynced
<1>3. CASE results' = results /\ synced \subseteq synced'
  BY <1>0, <1>3 DEF SuccessMeansSynced
<1> QED
  BY <1>1, <1>2, <1>3, ResultsChange DEF TriggerInvariant

\* The results of a call tell the truth: a store that is a success has all of its DAGs
\* done, and a DAG whose status is a success has had a run that ended in success: since the
\* call began in SDK mode, in ORM mode also before it.
THEOREM SuccessIsTrue == Spec => []SuccessMeansSynced
<1>1. Init => SuccessMeansSynced
  BY DEF Init, SuccessMeansSynced, NoResult
<1>2. ASSUME TypeAndTrigger, SuccessMeansSynced, [Next]_vars PROVE SuccessMeansSynced'
  <2>1. CASE Next
    BY <1>2, <2>1, SuccessStep DEF TypeAndTrigger
  <2>2. CASE UNCHANGED vars
    BY <1>2, <2>2 DEF SuccessMeansSynced, vars, endVars
  <2> QED
    BY <1>2, <2>1, <2>2
<1> QED
  BY <1>1, <1>2, Invariance, PTL DEF Spec

LEMMA CountsType ==
  ASSUME TypeOK, NEW r \in Runs
  PROVE  failures[r] \in Nat /\ faults \in Nat
<1>1. failures[r] \in 0 .. Retries + 1 /\ faults \in 0 .. MaxFaults
  BY DEF TypeOK
<1> QED
  BY <1>1

LEMMA RetriedStep ==
  ASSUME TypeOK, TypeOK', TriggerInvariant, FailedRunWasRetried, Next
  PROVE  FailedRunWasRetried'
<1>0. config' = config
  BY ConfigStays
<1>1. CASE results' = [s \in Stores |-> NoResult]
  BY <1>1 DEF FailedRunWasRetried, NoResult
<1>2. CASE EndStore
  <2>1. ASSUME NEW d \in Dags, StatusOf(d) = "failed", ActionOf(d) # "failed"
        PROVE  failures[<<config.stores[store], d>>] + faults >=
                 IF config.sdk THEN Retries + 1 ELSE Retries
    <3>1. d \in failed /\ d \in Begun
      BY <2>1 DEF StatusOf, ActionOf, Begun
    <3>2. d \in failed_runs /\ attempt = Retries
      BY <1>2, <3>1 DEF EndStore, TriggerInvariant, WaitInvariant
    <3>3. Failures(d) >= Retries + 1
      BY <3>2 DEF TriggerInvariant, FailureInvariant
    <3>4. failures[Run(d)] \in Nat /\ faults \in Nat /\ Run(d) = <<config.stores[store], d>>
      <4>1. Run(d) \in Runs
        BY <3>1, BegunRun DEF TriggerInvariant
      <4> QED
        BY <4>1, CountsType DEF Run
    <3> QED
      BY <3>3, <3>4, ConfigIsSound DEF Failures
  <2>2. ASSUME NEW s \in Stores, NEW d \in Dags,
               results'[s].status[d] = "failed", results'[s].action[d] # "failed"
        PROVE  failures'[<<s, d>>] + faults' >= IF config.sdk THEN Retries + 1 ELSE Retries
    <3>1. CASE s = config.stores[store]
      BY <1>2, <2>1, <2>2, <3>1, StoreOfCall
    <3>2. CASE s # config.stores[store]
      BY <1>2, <2>2, <3>2, StoreOfCall DEF FailedRunWasRetried
    <3> QED
      BY <3>1, <3>2
  <2> QED
    BY <1>0, <2>2 DEF FailedRunWasRetried
<1>3. CASE /\ results' = results /\ faults' >= faults
           /\ \A r \in Runs : failures'[r] >= failures[r]
  <2>1. ASSUME NEW s \in Stores, NEW d \in Dags
        PROVE  failures'[<<s, d>>] + faults' >= failures[<<s, d>>] + faults
               /\ failures'[<<s, d>>] + faults' \in Nat /\ failures[<<s, d>>] + faults \in Nat
    <3>1. <<s, d>> \in Runs
      BY DEF Runs
    <3>2. failures'[<<s, d>>] \in 0 .. Retries + 1 /\ faults' \in 0 .. MaxFaults
      BY <3>1 DEF TypeOK
    <3> QED
      BY <1>3, <3>1, <3>2, CountsType
  <2> QED
    BY <1>0, <1>3, <2>1, ConfigIsSound DEF FailedRunWasRetried
<1> QED
  BY <1>1, <1>2, <1>3, ResultsChange DEF TriggerInvariant

\* A DAG whose run was waited for and is reported as failed has failed as often as there
\* are attempts, but for a failed request for each that is missing and, with access to the
\* database, one from before the call.
THEOREM FailuresWereRetried == Spec => []FailedRunWasRetried
<1>1. Init => FailedRunWasRetried
  BY DEF Init, FailedRunWasRetried, NoResult
<1>2. ASSUME TypeAndTrigger, TypeOK', FailedRunWasRetried, [Next]_vars PROVE FailedRunWasRetried'
  <2>1. CASE Next
    BY <1>2, <2>1, RetriedStep DEF TypeAndTrigger
  <2>2. CASE UNCHANGED vars
    BY <1>2, <2>2 DEF FailedRunWasRetried, vars, endVars, boundVars
  <2> QED
    BY <1>2, <2>1, <2>2
<1> QED
  BY <1>1, <1>2, Invariance, TypeCorrect, PTL DEF Spec

\* A run that is queued or running is not cleared, deleted or started anew by a call, nor
\* by the retries of one, as long as nobody else clears runs and no more than one request
\* has failed.
THEOREM ActiveRunsStay == Spec => ActiveRunNotReplaced
<1> DEFINE Stays ==
      others' = 0 /\ faults' <= 1 =>
        \A r \in Runs :
          /\ runs[r] = "queued" => runs'[r] \in {"queued", "running"}
          /\ runs[r] = "running" => runs'[r] \in {"running", "success", "failed"}
<1>1. ASSUME TypeAndTrigger, Next, others' = 0, faults' <= 1,
             NEW r \in Runs, runs[r] \in ActiveStates
      PROVE  /\ runs[r] = "queued" => runs'[r] \in {"queued", "running"}
             /\ runs[r] = "running" => runs'[r] \in {"running", "success", "failed"}
  <2> USE DEF TypeAndTrigger, TriggerInvariant
  <2>1. TypeOK /\ others = 0 /\ faults <= 1
    BY <1>1, BoundsGrow
  <2>2. CASE TriggerDag \/ TriggerFails \/ CreateAgain
    <3>1. \/ runs' = runs
          \/ /\ runs' = [runs EXCEPT ![Run(current)] = "queued"]
             /\ runs[Run(current)] \notin ActiveStates
      BY <1>1, <2>1, <2>2 DEF TriggerDag, TriggerFails, CreateAgain, SetRun, ResetInvariant,
                              ActiveStates
    <3> QED
      BY <1>1, <2>1, <3>1 DEF TypeOK, ActiveStates
  <2>3. CASE ClearExisting
    <3>1. \/ runs' = runs
          \/ /\ runs' = [runs EXCEPT ![Run(current)] = "none"]
             /\ runs[Run(current)] \notin ActiveStates
      BY <1>1, <2>1, <2>3 DEF ClearExisting, ClearDagRun, SetRun, ResetInvariant
    <3> QED
      BY <1>1, <2>1, <3>1 DEF TypeOK, ActiveStates
  <2>4. ASSUME NEW d \in Dags, RetryRun(d) PROVE runs'[r] = runs[r]
    <3>1. \/ runs' = runs
          \/ /\ runs' = [runs EXCEPT ![Run(d)] = "none"]
             /\ runs[Run(d)] \notin ActiveStates
      BY <1>1, <2>1, <2>4 DEF RetryRun, ClearDagRun, SetRun, ResetInvariant
    <3> QED
      BY <1>1, <2>1, <3>1 DEF TypeOK
  <2>5. CASE TriggerStores \/ NextDag \/ LookUp \/ AlreadyExists \/ StillExists \/ WaitForAll
             \/ EndWait \/ EndStore \/ CallerDies \/ \E d \in Dags : Poll(d)
    BY <1>1, <2>5 DEF TriggerStores, NextDag, LookUp, AlreadyExists, StillExists, WaitForAll,
                      EndWait, EndStore, CallerDies, Poll
  <2>6. ASSUME NEW s \in Runs, StartRun(s) \/ EndRun(s) \/ DisturbRun(s)
        PROVE  /\ runs[r] = "queued" => runs'[r] \in {"queued", "running"}
               /\ runs[r] = "running" => runs'[r] \in {"running", "success", "failed"}
    <3>1. ~DisturbRun(s)
      BY <1>1, <2>1 DEF DisturbRun
    <3> QED
      BY <2>1, <2>6, <3>1 DEF StartRun, EndRun, TypeOK
  <2> QED
    BY <1>1, <2>2, <2>3, <2>4, <2>5, <2>6 DEF Next, CallStep
<1>2. TypeAndTrigger /\ [Next]_vars => [Stays]_vars
  BY <1>1 DEF ActiveStates
<1> QED
  BY <1>2, Invariance, PTL DEF Spec, ActiveRunNotReplaced
=============================================================================
