--------------------------- MODULE DagSyncTrigger ---------------------------
(***************************************************************************)
(* DagSyncTrigger.trigger_stores: a task of a parent DAG starts a DAG run  *)
(* of every sync DAG for every store, under a run id made of the store,    *)
(* the DAG and the parent's run, and may wait for the runs to end.  The    *)
(* parent's task may be run again after it has failed or its worker died,  *)
(* and meets the runs of the earlier call.                                 *)
(*                                                                         *)
(* The scheduler, which runs them, and somebody who clears or deletes them *)
(* in the user interface, act between any two requests of the call.        *)
(***************************************************************************)
EXTENDS Integers, FiniteSets, Sequences

CONSTANTS Stores,         \* store numbers
          Dags,           \* ids of the sync DAGs
          Retries,        \* failed_dag_run_retries
          Configurations, \* how the call is made, see ConfigIsSound
          MaxCalls,       \* calls of trigger_stores
          MaxFaults,      \* requests that fail, and workers that die
          MaxOthers       \* runs cleared or deleted by somebody else

IsListOf(list, S) ==
  /\ list \in Seq(S) /\ list # <<>>
  /\ \A i, j \in DOMAIN list : list[i] = list[j] => i = j

ASSUME ConfigIsSound ==
  /\ Retries \in Nat
  /\ \A c \in Configurations :
       /\ DOMAIN c = {"sdk", "parallel", "wait", "stores", "dags"}
       /\ c.sdk \in BOOLEAN          \* _use_task_sdk: Airflow 3, no access to the database
       /\ c.parallel \in BOOLEAN     \* execution_mode
       /\ c.wait \in BOOLEAN         \* wait_for_completion
       /\ IsListOf(c.stores, Stores) \* store_numbers, sorted
       /\ IsListOf(c.dags, Dags)     \* orchestrator_dag_ids
  /\ MaxCalls \in Nat /\ MaxFaults \in Nat /\ MaxOthers \in Nat

Runs == Stores \X Dags

VARIABLES
  config,    \* one of Configurations, for good
  runs,      \* state of each DAG run, "none" if there is none
  pc,        \* next step of the call
  store,     \* the store the call is at
  next,      \* how many DAGs of it the loop has come to
  current,   \* the DAG whose run is being triggered
  reset,     \* reset_dag_run
  again,     \* whether it is triggered by the retry of failed runs
  triggered, skipped, failed, \* triggered_dags, skipped_dags and failed_dags
  pending,   \* runs that are waited for
  succeeded_runs, failed_runs, \* of the wait
  attempt,   \* retry_attempt
  toRetry,   \* failed runs that are not triggered again yet
  results,   \* of each store, in this call
  synced,    \* the runs that have ended in success since the call began; for a call with
             \* access to the database (ORM) also those that had before
  failures,  \* how often each run has failed since then, up to Retries + 1
  calls, faults, others

callVars  == <<pc, store, next, current, reset, again>>
dagVars   == <<triggered, skipped, failed>>
waitVars  == <<pending, succeeded_runs, failed_runs, attempt, toRetry>>
endVars   == <<synced, failures>>
boundVars == <<calls, faults, others>>
vars == <<config, runs, callVars, dagVars, waitVars, results, endVars, boundVars>>

States == {"none", "queued", "running", "success", "failed"}

\* Mutant: only a run whose tasks have begun is active.
BegunStates == {"running"}

\* _ACTIVE_DAG_RUN_STATES, those of them a DAG run can have.
ActiveStates == {"queued", "running"}

NoResult == [success |-> FALSE, action |-> [d \in Dags |-> "none"],
             status |-> [d \in Dags |-> "none"]]

Actions  == {"none", "triggered", "skipped", "failed"}

TypeOK ==
  /\ config \in Configurations
  /\ runs \in [Runs -> States]
  /\ pc \in {"idle", "next", "look", "trigger", "exists", "clear", "create", "poll", "retry"}
  /\ store \in 0 .. Len(config.stores) /\ next \in 0 .. Len(config.dags)
  /\ current \in Dags /\ reset \in BOOLEAN /\ again \in BOOLEAN
  /\ triggered \subseteq Dags /\ skipped \subseteq Dags /\ failed \subseteq Dags
  /\ pending \subseteq Dags /\ toRetry \subseteq Dags
  /\ succeeded_runs \subseteq Dags /\ failed_runs \subseteq Dags
  /\ succeeded_runs \cap (failed_runs \cup toRetry) = {}
  /\ attempt \in 0 .. Retries
  /\ results \in [Stores ->
                    [success : BOOLEAN, action : [Dags -> Actions],
                     status : [Dags -> Actions \cup {"success"}]]]
  /\ synced \subseteq Runs
  /\ failures \in [Runs -> 0 .. Retries + 1]
  /\ calls \in 0 .. MaxCalls /\ faults \in 0 .. MaxFaults /\ others \in 0 .. MaxOthers

Init ==
  /\ config \in Configurations
  /\ runs = [r \in Runs |-> "none"]
  /\ pc = "idle" /\ store = 0
  /\ next = 0 /\ current = config.dags[1] /\ reset = FALSE /\ again = FALSE
  /\ triggered = {} /\ skipped = {} /\ failed = {}
  /\ pending = {} /\ succeeded_runs = {} /\ failed_runs = {} /\ attempt = 0 /\ toRetry = {}
  /\ results = [s \in Stores |-> NoResult]
  /\ synced = {} /\ failures = [r \in Runs |-> 0]
  /\ calls = 0 /\ faults = 0 /\ others = 0

Run(d) == <<config.stores[store], d>>

SetRun(d, state) == runs' = [runs EXCEPT ![Run(d)] = state]

Fault == faults < MaxFaults /\ faults' = faults + 1

NoFault == UNCHANGED faults

-----------------------------------------------------------------------------
(* The call *)

\* Nothing of the store before is left when the call comes to the next one.
BeginStore ==
  /\ next' = 0 /\ current' = config.dags[1] /\ reset' = FALSE /\ again' = FALSE
  /\ triggered' = {} /\ skipped' = {} /\ failed' = {}
  /\ pending' = {} /\ succeeded_runs' = {} /\ failed_runs' = {} /\ attempt' = 0 /\ toRetry' = {}

\* _get_existing_run_state: None for a run that does not exist, and for any error.
Lookup(d, state) ==
  \/ state = runs[Run(d)] /\ NoFault
  \/ state = "none" /\ runs[Run(d)] # "none" /\ Fault

\* Nothing is left of a call that does not return but the runs it has started.
LoseCall ==
  /\ pc' = "idle" /\ store' = 0 /\ BeginStore
  /\ results' = [s \in Stores |-> NoResult]
  /\ synced' = {} /\ failures' = [r \in Runs |-> 0]

\* trigger_stores, for the first time or by a task that is run again.  A run that
\* had succeeded before counts for a call with access to the database: it asks for
\* its reset, and trigger_dag has no such parameter.
TriggerStores ==
  /\ pc = "idle" /\ calls < MaxCalls
  /\ pc' = "next" /\ store' = 1 /\ BeginStore
  /\ results' = [s \in Stores |-> NoResult]
  /\ synced' = IF config.sdk THEN {} ELSE {r \in Runs : runs[r] = "success"}
  /\ failures' = [r \in Runs |-> 0]
  /\ calls' = calls + 1
  /\ UNCHANGED <<config, runs, faults, others>>

\* Mutant: the loop goes on after a DAG that failed.
GoesOn == next < Len(config.dags)

\* The next DAG, unless one of them failed in serial mode.
HasNextDag == next < Len(config.dags) /\ (failed = {} \/ config.parallel)

NextDag ==
  /\ pc = "next" /\ HasNextDag
  /\ pc' = "look"
  /\ next' = next + 1 /\ current' = config.dags[next + 1] /\ again' = FALSE
  /\ UNCHANGED <<config, runs, store, reset, dagVars, waitVars, results, endVars, boundVars>>

\* The run of this DAG is there, whoever started it: in serial mode it is waited for.
Proceed(d) ==
  IF ~config.parallel /\ config.wait
  THEN /\ pc' = "poll"
       /\ pending' = {d} /\ attempt' = 0
       /\ UNCHANGED <<succeeded_runs, failed_runs, toRetry>>
  ELSE pc' = "next" /\ UNCHANGED waitVars

\* _trigger_store_dag looks for a run with the same id.
LookUp ==
  /\ pc = "look"
  /\ \E state \in States :
       /\ Lookup(current, state)
       /\ \/ /\ state \in ActiveStates
             /\ skipped' = skipped \cup {current}
             /\ Proceed(current)
             /\ UNCHANGED reset
          \/ /\ state \notin ActiveStates
             /\ reset' = (state \in {"failed", "success"})
             /\ pc' = "trigger"
             /\ UNCHANGED <<skipped, waitVars>>
  /\ UNCHANGED <<config, runs, store, next, current, again, triggered, failed, results,
                 endVars, calls, others>>

\* _trigger_dag has returned.  A run that is retried is waited for with the others.
Returned ==
  IF again
  THEN /\ pending' = pending \cup {current}
       /\ toRetry' = toRetry \ {current}
       /\ pc' = IF toRetry' = {} THEN "poll" ELSE "retry"
       /\ UNCHANGED <<triggered, succeeded_runs, failed_runs, attempt>>
  ELSE triggered' = triggered \cup {current} /\ Proceed(current)

\* _trigger_dag has raised an error.  The first time it is caught, for a retry it
\* ends the call.
Raised ==
  IF again THEN LoseCall
  ELSE /\ pc' = "next"
       /\ failed' = failed \cup {current}
       /\ UNCHANGED <<store, next, current, reset, again, triggered, skipped, waitVars, results,
                      endVars>>

\* The run is started; with the SDK the server clears one that exists, if asked to.
TriggerDag ==
  /\ pc = "trigger"
  /\ \/ /\ runs[Run(current)] = "none" \/ (config.sdk /\ reset)
        /\ SetRun(current, "queued")
        /\ Returned
     \/ /\ runs[Run(current)] # "none" /\ ~(config.sdk /\ reset)
        /\ pc' = "exists"
        /\ UNCHANGED <<runs, triggered, waitVars>>
  /\ UNCHANGED <<config, store, next, current, reset, again, skipped, failed, results,
                 endVars, boundVars>>

\* The request fails, or only its answer is lost.
TriggerFails ==
  /\ pc \in {"trigger", "create"}
  /\ Fault
  /\ \/ UNCHANGED runs
     \/ /\ runs[Run(current)] = "none" \/ (config.sdk /\ reset)
        /\ SetRun(current, "queued")
  /\ Raised
  /\ UNCHANGED <<config, calls, others>>

\* DAGRUN_ALREADY_EXISTS, DagRunAlreadyExists: nothing is done about an active run;
\* another is reset, unless that was asked for already.
AlreadyExists ==
  /\ pc = "exists"
  /\ \E state \in States :
       /\ Lookup(current, state)
       /\ \/ /\ state \in ActiveStates \/ reset
             /\ Returned
             /\ UNCHANGED reset
          \/ /\ state \notin ActiveStates /\ ~reset
             /\ pc' = IF config.sdk THEN "trigger" ELSE "clear"
             /\ reset' = config.sdk
             /\ UNCHANGED <<triggered, waitVars>>
  /\ UNCHANGED <<config, runs, store, next, current, again, skipped, failed, results,
                 endVars, calls, others>>

\* _clear_dag_run_orm: the run is deleted, or an error only logged.
ClearDagRun(d) == \/ SetRun(d, "none") /\ NoFault
                  \/ UNCHANGED runs /\ Fault

\* _trigger_dag_orm clears the run it has found ...
ClearExisting ==
  /\ pc = "clear"
  /\ ClearDagRun(current)
  /\ pc' = "create"
  /\ UNCHANGED <<config, store, next, current, reset, again, dagVars, waitVars, results,
                 endVars, calls, others>>

\* ... and triggers it again; one that exists even so is an error.
CreateAgain ==
  /\ pc = "create"
  /\ runs[Run(current)] = "none"
  /\ SetRun(current, "queued")
  /\ Returned
  /\ UNCHANGED <<config, store, next, current, reset, again, skipped, failed, results,
                 endVars, boundVars>>

StillExists ==
  /\ pc = "create"
  /\ runs[Run(current)] # "none"
  /\ Raised
  /\ UNCHANGED <<config, runs, boundVars>>

-----------------------------------------------------------------------------
(* Waiting *)

\* Mutant: the end of the wait is not noticed.
WaitsAgain == config.parallel /\ config.wait /\ failed = {}

\* In parallel mode the runs are waited for together, when all could be triggered;
\* a wait that has ended leaves a run that succeeded or one that failed.
MustWaitForAll ==
  config.parallel /\ config.wait /\ failed = {} /\ succeeded_runs = {}

WaitForAll ==
  /\ pc = "next" /\ ~HasNextDag /\ MustWaitForAll
  /\ pending' = triggered \cup skipped /\ attempt' = 0
  /\ pc' = "poll"
  /\ UNCHANGED <<config, runs, store, next, current, reset, again, dagVars, succeeded_runs,
                 failed_runs, toRetry, results, endVars, boundVars>>

\* Mutant: a run that is not there has been done.
GoneIsDone(state) == state \in {"success", "none"}

IsSuccess(state) == state = "success"

\* Mutant: a run that has failed is waited for, too.
OnlySkipped(state) == state = "upstream_failed"

IsFailure(state) == state = "failed"

\* _wait_for_dag_runs: a run that is active, or not found, stays pending.
Poll(d) ==
  /\ pc = "poll" /\ d \in pending
  /\ \E state \in States :
       /\ Lookup(d, state)
       /\ IsSuccess(state) \/ IsFailure(state)
       /\ succeeded_runs' = IF IsSuccess(state) THEN succeeded_runs \cup {d}
                            ELSE succeeded_runs
       /\ failed_runs' = IF IsSuccess(state) THEN failed_runs ELSE failed_runs \cup {d}
  /\ pending' = pending \ {d}
  /\ UNCHANGED <<config, runs, callVars, dagVars, attempt, toRetry, results, endVars, calls,
                 others>>

\* Mutants: the last retry is left out; retries have no end.
MayRetryButLast == attempt + 1 < Retries
MayAlwaysRetry == TRUE

MayRetry == attempt < Retries

\* All have ended: those that failed are triggered again, or are failed_dags.
EndWait ==
  /\ pc = "poll" /\ pending = {}
  /\ IF failed_runs # {} /\ MayRetry
     THEN /\ pc' = "retry"
          /\ attempt' = attempt + 1
          /\ toRetry' = failed_runs /\ failed_runs' = {}
          /\ UNCHANGED failed
     ELSE /\ pc' = "next"
          /\ failed' = failed \cup failed_runs
          /\ UNCHANGED <<attempt, toRetry, failed_runs>>
  /\ UNCHANGED <<config, runs, store, next, current, reset, again, triggered, skipped, pending,
                 succeeded_runs, results, endVars, boundVars>>

\* _wait_for_dag_runs_with_retry: with access to the database the run is cleared first,
\* in whatever state it is by now.
RetryRun(d) ==
  /\ pc = "retry" /\ d \in toRetry
  /\ IF config.sdk THEN UNCHANGED <<runs, faults>> ELSE ClearDagRun(d)
  /\ current' = d /\ reset' = TRUE /\ again' = TRUE
  /\ pc' = "trigger"
  /\ UNCHANGED <<config, store, next, dagVars, waitVars, results, endVars, calls, others>>

-----------------------------------------------------------------------------
(* The end of the call *)

ActionOf(d) ==
  IF d \in skipped THEN "skipped"
  ELSE IF d \in triggered THEN "triggered"
  ELSE IF d \in failed THEN "failed" ELSE "none"

\* Mutant: a DAG that was triggered has succeeded unless it failed.
OptimisticStatus(d) ==
  IF d \in failed THEN "failed" ELSE IF d \in triggered \cup skipped THEN "success" ELSE "none"

\* _build_dag_statuses; "none" for the DAGs a serial call did not come to.
StatusOf(d) ==
  IF d \in failed THEN "failed"
  ELSE IF d \in succeeded_runs THEN "success" ELSE ActionOf(d)

\* trigger_store returns, and the next store is next.
EndStore ==
  /\ pc = "next" /\ ~HasNextDag /\ ~MustWaitForAll
  /\ results' = [results EXCEPT ![config.stores[store]] =
       [success |-> failed = {}, action |-> [d \in Dags |-> ActionOf(d)],
        status |-> [d \in Dags |-> StatusOf(d)]]]
  /\ IF store < Len(config.stores) THEN pc' = "next" /\ store' = store + 1
                            ELSE pc' = "idle" /\ UNCHANGED store
  /\ BeginStore
  /\ UNCHANGED <<config, runs, endVars, boundVars>>

\* The worker dies; its task is run again, or not.
CallerDies ==
  /\ pc # "idle"
  /\ Fault
  /\ LoseCall
  /\ UNCHANGED <<config, runs, calls, others>>

-----------------------------------------------------------------------------
(* The others *)

\* The scheduler runs the tasks of a DAG run, and they end one way or the other.
StartRun(r) ==
  /\ runs[r] = "queued"
  /\ runs' = [runs EXCEPT ![r] = "running"]
  /\ UNCHANGED <<config, callVars, dagVars, waitVars, results, endVars, boundVars>>

EndRun(r) ==
  /\ runs[r] = "running"
  /\ \/ /\ runs' = [runs EXCEPT ![r] = "success"]
        /\ synced' = synced \cup {r}
        /\ UNCHANGED failures
     \/ /\ runs' = [runs EXCEPT ![r] = "failed"]
        /\ failures' = [failures EXCEPT ![r] = IF @ > Retries THEN @ ELSE @ + 1]
        /\ UNCHANGED synced
  /\ UNCHANGED <<config, callVars, dagVars, waitVars, results, boundVars>>

\* Somebody clears a run that has ended, so that it is run again, or deletes one.
DisturbRun(r) ==
  /\ others < MaxOthers
  /\ others' = others + 1
  /\ \/ runs[r] \in {"success", "failed"} /\ runs' = [runs EXCEPT ![r] = "queued"]
     \/ runs[r] # "none" /\ runs' = [runs EXCEPT ![r] = "none"]
  /\ UNCHANGED <<config, callVars, dagVars, waitVars, results, endVars, calls, faults>>

\* What the call does.
CallStep ==
  \/ NextDag \/ LookUp \/ TriggerDag \/ AlreadyExists \/ ClearExisting \/ CreateAgain
  \/ StillExists \/ WaitForAll \/ EndWait \/ EndStore
  \/ \E d \in Dags : Poll(d) \/ RetryRun(d)

Next ==
  \/ TriggerStores \/ CallStep \/ TriggerFails \/ CallerDies
  \/ \E r \in Runs : StartRun(r) \/ EndRun(r) \/ DisturbRun(r)

\* The call goes on, and every DAG run is run by the scheduler; that a task is run
\* again is not promised.
Fairness == WF_vars(CallStep) /\ \A r \in Runs : WF_vars(StartRun(r) \/ EndRun(r))

Spec == Init /\ [][Next]_vars /\ Fairness

-----------------------------------------------------------------------------
(* Properties *)

\* A store that is a success has all of its DAGs done, and a DAG whose status is a
\* success has had a run that ended in success since the call began, whichever call
\* started it, whoever was in between, and whatever failed.  In ORM mode a run that had
\* ended in success before the call is as good: there the promise is no more than that.
SuccessMeansSynced ==
  \A s \in Stores : \A d \in Dags :
    /\ results[s].success /\ config.wait /\ (\E i \in DOMAIN config.dags : config.dags[i] = d) =>
         results[s].status[d] = "success"
    /\ results[s].status[d] = "success" => <<s, d>> \in synced

\* A DAG whose run was waited for and is reported as failed has failed as often as
\* there are attempts.  With access to the database a failure from before is one of
\* them, and a clear that fails leaves the old one to be counted again.
FailedRunWasRetried ==
  \A s \in Stores : \A d \in Dags :
    results[s].status[d] = "failed" /\ results[s].action[d] # "failed" =>
      failures[<<s, d>>] + faults >= IF config.sdk THEN Retries + 1 ELSE Retries

\* In serial mode no DAG is looked at before those in front of it have succeeded: in this
\* call in SDK mode, in this call or before it in ORM mode.
SerialOrderKept ==
  ~config.parallel /\ config.wait /\ pc \notin {"idle", "next"} =>
    \A i \in 1 .. next - 1 : Run(config.dags[i]) \in synced

\* A run that is queued or running is not cleared, deleted or started anew, as long as
\* nobody else clears runs and no more than one request has failed.
ActiveRunNotReplaced ==
  [][others' = 0 /\ faults' <= 1 =>
       \A r \in Runs :
         /\ runs[r] = "queued" => runs'[r] \in {"queued", "running"}
         /\ runs[r] = "running" => runs'[r] \in {"running", "success", "failed"}]_vars

\* A call ends, unless a run it waits for has gone.
CallEnds ==
  pc # "idle" ~> pc = "idle" \/ \E d \in pending : runs[Run(d)] = "none"

-----------------------------------------------------------------------------
(* What holds between any two requests of the call, which the properties rest on *)

\* The DAGs of the list the loop has come to when it is at its n-th.
Reached(n) == {config.dags[i] : i \in 1 .. n}

\* The DAGs whose run the call knows of.
Begun == triggered \cup skipped

\* Those it has waited for, or waits for.
Waited == pending \cup toRetry \cup succeeded_runs \cup failed_runs

\* The call is about to start the run of a DAG, for the first time or once more.
InRequest == pc \in {"look", "trigger", "exists", "clear", "create"}

Asking == InRequest /\ ~again

Waiting == pc \in {"poll", "retry"} \/ (InRequest /\ again)

\* Every DAG of the loop so far is in one of the lists, but the one in hand.
PositionInvariant ==
  /\ IF pc = "idle" THEN next = 0 ELSE store >= 1
  /\ Begun \cup failed \subseteq Reached(next)
  /\ Reached(next) \subseteq Begun \cup failed \cup (IF Asking THEN {current} ELSE {})
  /\ Asking =>
       /\ next >= 1 /\ current = config.dags[next]
       /\ current \notin Begun \cup failed
  /\ ~config.parallel /\ (Asking \/ Waiting) => failed = {}

\* A run is in one list of the wait at a time, runs are triggered again for the wait
\* alone, and what has failed in the end was tried Retries times.
WaitInvariant ==
  /\ Waited \subseteq Begun
  /\ pending \cap (toRetry \cup succeeded_runs \cup failed_runs) = {}
  /\ toRetry # {} <=> pc = "retry" \/ (InRequest /\ again)
  /\ InRequest /\ again => pc \in {"trigger", "exists"} /\ reset /\ current \in toRetry
  /\ Waiting => config.wait /\ failed = {}
  /\ ~Waiting => pending = {}
  /\ failed_runs # {} => pc \in {"poll", "next"}
  /\ pc = "next" => failed_runs \subseteq failed /\ (failed_runs # {} => attempt = Retries)
  /\ failed \cap Begun \subseteq failed_runs

\* Serial mode waits for the DAG it has come to, parallel mode for all when there are
\* no more.
ModeInvariant ==
  /\ ~config.parallel /\ config.wait =>
       /\ Begun \subseteq Waited
       /\ \A d \in pending \cup toRetry \cup failed_runs : next >= 1 /\ d = config.dags[next]
  /\ config.parallel /\ Waited # {} =>
       ~Asking /\ next = Len(config.dags) /\ Begun \subseteq Waited

\* A run that was found in success has ended so since the call began, in ORM mode or
\* before.
SyncInvariant ==
  /\ \A d \in succeeded_runs : Run(d) \in synced
  /\ ~config.sdk /\ pc # "idle" => \A r \in Runs : runs[r] = "success" => r \in synced
  /\ config.sdk => \A d \in Begun : runs[Run(d)] = "success" => Run(d) \in synced

\* How often a run has failed, with the failure before the call that a call with
\* access to the database may count, and a fault for each clear that left the run.
Failures(d) == failures[Run(d)] + faults + IF config.sdk THEN 0 ELSE 1

FailureInvariant ==
  /\ \A d \in Begun : runs[Run(d)] = "failed" => Failures(d) >= 1
  /\ \A d \in pending :
       Failures(d) >= attempt + IF runs[Run(d)] = "failed" THEN 1 ELSE 0
  /\ \A d \in toRetry : Failures(d) >= attempt
  /\ \A d \in failed_runs : Failures(d) >= attempt + 1
  /\ InRequest /\ again /\ ~config.sdk /\ runs[Run(current)] # "none" =>
       Failures(current) >= attempt + 1

\* What may be cleared, reset or triggered again is not active.
ResetInvariant ==
  /\ config.sdk /\ pc = "exists" => ~reset
  /\ pc \in {"clear", "create"} => ~config.sdk
  /\ others = 0 /\ faults <= 1 =>
       /\ (pc = "trigger" /\ reset) \/ pc = "clear" => runs[Run(current)] \notin ActiveStates
       /\ pc \in {"trigger", "exists"} /\ ~reset /\ runs[Run(current)] # "none" => faults >= 1
       /\ \A d \in toRetry \cup failed_runs : runs[Run(d)] \notin ActiveStates

\* All of it: the inductive invariant of the call.
TriggerInvariant ==
  /\ PositionInvariant /\ WaitInvariant /\ ModeInvariant
  /\ SyncInvariant /\ FailureInvariant /\ ResetInvariant

=============================================================================
