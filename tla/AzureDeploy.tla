------------------------------ MODULE AzureDeploy ------------------------------
(***************************************************************************)
(* The batch deployment of models: azure_deploy_service.py behind          *)
(* api/azure_deploy.py.  A task is one document in Redis with a time to    *)
(* live.  A request writes it and starts a background job, which loads its *)
(* own copy, deploys the pending items in coroutines under a semaphore and *)
(* writes the whole copy back after every change.  Jobs are coroutines of  *)
(* one process: a step is what happens between two awaits.                 *)
(***************************************************************************)
EXTENDS Integers, FiniteSets

CONSTANTS
    Items,        \* the items of the task
    Jobs,         \* the requests that start or retry it, each with its job
    Concurrency,  \* CONCURRENCY
    MaxRetries,   \* MAX_RETRIES
    NoDoc         \* no document under the task's key

ASSUME DeployOK ==
    /\ Items # {} /\ IsFiniteSet(Items)
    /\ Concurrency \in Nat \ {0} /\ MaxRetries \in Nat \ {0}

VARIABLES
    doc,     \* azure_deploy:{task_id}
    token,   \* whether azure_deploy_token:{task_id} is there
    jobs,    \* what each request and its job have in hand
    azure,   \* the items whose deployment exists at Azure
    orderly  \* no job was lost, and none was started beside another

deployVars == <<doc, token, jobs, azure, orderly>>

ItemStatus == {"pending", "deploying", "succeeded", "failed"}

Doc == [status: {"running", "completed"}, succeeded: Nat, failed: Nat,
        items: [Items -> ItemStatus]]

\* What a coroutine of deploy_one is about to do with its item.
Hands == {"none", "waiting", "begun", "creating", "ended", "dead"}

Job == [pc: {"free", "save_start", "save_retry", "save_token", "load", "run", "over"},
        copy: Doc \cup {NoDoc},
        hand: [Items -> Hands],
        throttled: [Items -> 0 .. MaxRetries]]

InState(d, s) == {i \in Items : d.items[i] = s}

\* The document start_deployment writes.
FreshDoc == [status |-> "running", succeeded |-> 0, failed |-> 0,
          items |-> [i \in Items |-> "pending"]]

IdleJob == [pc |-> "free", copy |-> NoDoc, hand |-> [i \in Items |-> "none"],
         throttled |-> [i \in Items |-> 0]]

Over == [IdleJob EXCEPT !.pc = "over"]

DeployInit ==
    /\ doc = NoDoc /\ token = FALSE
    /\ jobs = [j \in Jobs |-> IdleJob]
    /\ azure = {} /\ orderly = TRUE

\* get_progress does not read the counters, it counts the items.
Progress(d) == [s \in ItemStatus |-> Cardinality(InState(d, s))]

Active(j) == jobs[j].pc \notin {"free", "over"}

-----------------------------------------------------------------------------
(* The requests.                                                           *)

\* POST /execute draws a new task_id: the key is unused.
Execute(j) ==
    /\ \A k \in Jobs : jobs[k].pc = "free"
    /\ jobs' = [jobs EXCEPT ![j] = [@ EXCEPT !.pc = "save_start", !.copy = FreshDoc]]
    /\ UNCHANGED <<doc, token, azure, orderly>>

\* Mutant of Retried: the counter is not reset.
RetriedKeeping(d) ==
    [d EXCEPT !.status = "running",
              !.items = [i \in Items |-> IF @[i] = "failed" THEN "pending" ELSE @[i]]]

\* retry_failed on the document it loads; it raises without a failed item.
Retried(d) ==
    [d EXCEPT !.status = "running", !.failed = 0,
              !.items = [i \in Items |-> IF @[i] = "failed" THEN "pending" ELSE @[i]]]

Retry(j) ==
    /\ jobs[j].pc = "free"
    /\ doc # NoDoc
    /\ InState(doc, "failed") # {}
    /\ jobs' = [jobs EXCEPT ![j] = [@ EXCEPT !.pc = "save_retry", !.copy = Retried(doc)]]
    /\ orderly' = (orderly /\ \A k \in Jobs : ~Active(k))
    /\ UNCHANGED <<doc, token, azure>>

\* _save_task and _save_token of a request.  When one raises the request ends
\* with an error and no job is added, whether or not Redis took the write.
SaveRequest(j) ==
    /\ jobs[j].pc \in {"save_start", "save_retry"}
    /\ doc' = jobs[j].copy
    /\ jobs' = [jobs EXCEPT ![j] = [@ EXCEPT !.pc = "save_token", !.copy = NoDoc]]
    /\ UNCHANGED <<token, azure, orderly>>

SaveToken(j) ==
    /\ jobs[j].pc = "save_token"
    /\ token' = TRUE
    /\ jobs' = [jobs EXCEPT ![j] = [@ EXCEPT !.pc = "load"]]
    /\ UNCHANGED <<doc, azure, orderly>>

RequestFails(j) ==
    /\ jobs[j].pc \in {"save_start", "save_retry", "save_token"}
    /\ jobs' = [jobs EXCEPT ![j] = Over]
    /\ doc' \in {doc} \cup ({jobs[j].copy} \ {NoDoc})
    /\ orderly' = FALSE
    /\ UNCHANGED <<token, azure>>

-----------------------------------------------------------------------------
(* The job.                                                                *)

\* execute: the two loads, and the coroutines made for the pending items.
Load(j) ==
    /\ jobs[j].pc = "load"
    /\ doc # NoDoc /\ token
    /\ jobs' = [jobs EXCEPT ![j] = [@ EXCEPT
           !.pc = "run",
           !.copy = doc,
           !.hand = [i \in Items |-> IF doc.items[i] = "pending" THEN "waiting" ELSE "none"]]]
    /\ UNCHANGED <<doc, token, azure, orderly>>

\* Without the document or the token the job returns and leaves all as it is.
LoadMissing(j) ==
    /\ jobs[j].pc = "load"
    /\ doc = NoDoc \/ ~token
    /\ jobs' = [jobs EXCEPT ![j] = Over]
    /\ orderly' = FALSE
    /\ UNCHANGED <<doc, token, azure>>

\* Mutant of InSemaphore: a coroutine that failed keeps its place.
InSemaphoreKept(j) ==
    {i \in Items : jobs[j].hand[i] \in {"begun", "creating", "ended", "dead"}}

InSemaphore(j) == {i \in Items : jobs[j].hand[i] \in {"begun", "creating", "ended"}}

\* deploy_one marks its item in the copy of its job, and counts it at the end.
Marked(d, i, s) ==
    [d EXCEPT !.items[i] = s,
              !.succeeded = IF s = "succeeded" THEN @ + 1 ELSE @,
              !.failed = IF s = "failed" THEN @ + 1 ELSE @]

Begin(j, i) ==
    /\ jobs[j].hand[i] = "waiting"
    /\ Cardinality(InSemaphore(j)) < Concurrency
    /\ jobs' = [jobs EXCEPT ![j] = [@ EXCEPT
           !.copy = Marked(jobs[j].copy, i, "deploying"),
           !.hand[i] = "begun"]]
    /\ UNCHANGED <<doc, token, azure, orderly>>

\* _save_task writes the copy as it is by then, with the marks of every coroutine.
SaveItem(j, i) ==
    /\ jobs[j].hand[i] \in {"begun", "ended"}
    /\ doc' = jobs[j].copy
    /\ jobs' = [jobs EXCEPT ![j] = [@ EXCEPT
           !.hand[i] = IF jobs[j].hand[i] = "begun" THEN "creating" ELSE "none",
           !.throttled[i] = 0]]
    /\ UNCHANGED <<token, azure, orderly>>

\* _save_task stands outside the try of deploy_one: its exception ends the
\* coroutine, and gather hands it on while the other coroutines go on.
SaveItemFails(j, i) ==
    /\ jobs[j].hand[i] \in {"begun", "ended"}
    /\ doc' \in {doc, jobs[j].copy}
    /\ jobs' = [jobs EXCEPT ![j] = [@ EXCEPT !.hand[i] = "dead"]]
    /\ orderly' = FALSE
    /\ UNCHANGED <<token, azure>>

\* _create_deployment_with_retry waits for Azure without an await, so an attempt
\* is one step; only a throttled one sleeps and lets the others run.
CreateSucceeds(j, i) ==
    /\ jobs[j].hand[i] = "creating"
    /\ jobs[j].throttled[i] < MaxRetries
    /\ azure' = azure \cup {i}
    /\ jobs' = [jobs EXCEPT ![j] = [@ EXCEPT
           !.hand[i] = "ended",
           !.copy = Marked(jobs[j].copy, i, "succeeded")]]
    /\ UNCHANGED <<doc, token, orderly>>

\* An error of the poller does not tell whether the deployment was made.
CreateFails(j, i) ==
    /\ jobs[j].hand[i] = "creating"
    /\ azure' \in {azure, azure \cup {i}}
    /\ jobs[j].throttled[i] = MaxRetries => azure' = azure
    /\ jobs' = [jobs EXCEPT ![j] = [@ EXCEPT
           !.hand[i] = "ended",
           !.copy = Marked(jobs[j].copy, i, "failed")]]
    /\ UNCHANGED <<doc, token, orderly>>

\* Mutant of CreateThrottled: one attempt too many.
ThrottledOnceMore(j, i) ==
    /\ jobs[j].hand[i] = "creating"
    /\ jobs[j].throttled[i] <= MaxRetries
    /\ jobs' = [jobs EXCEPT ![j] = [@ EXCEPT !.throttled[i] = jobs[j].throttled[i] + 1]]
    /\ UNCHANGED <<doc, token, azure, orderly>>

CreateThrottled(j, i) ==
    /\ jobs[j].hand[i] = "creating"
    /\ jobs[j].throttled[i] < MaxRetries
    /\ jobs' = [jobs EXCEPT ![j] = [@ EXCEPT !.throttled[i] = jobs[j].throttled[i] + 1]]
    /\ UNCHANGED <<doc, token, azure, orderly>>

\* After gather: the task reads completed.
Complete(j) ==
    /\ jobs[j].pc = "run"
    /\ \A i \in Items : jobs[j].hand[i] = "none"
    /\ doc' = [jobs[j].copy EXCEPT !.status = "completed"]
    /\ jobs' = [jobs EXCEPT ![j] = Over]
    /\ UNCHANGED <<token, azure, orderly>>

\* gather raised once every coroutine is at its end.
GiveUp(j) ==
    /\ jobs[j].pc = "run"
    /\ \A i \in Items : jobs[j].hand[i] \in {"none", "dead"}
    /\ \E i \in Items : jobs[j].hand[i] = "dead"
    /\ jobs' = [jobs EXCEPT ![j] = Over]
    /\ UNCHANGED <<doc, token, azure, orderly>>

\* The last save raises: nothing says completed, unless Redis took it.
CompleteFails(j) ==
    /\ jobs[j].pc = "run"
    /\ \A i \in Items : jobs[j].hand[i] = "none"
    /\ doc' \in {doc, [jobs[j].copy EXCEPT !.status = "completed"]}
    /\ jobs' = [jobs EXCEPT ![j] = Over]
    /\ orderly' = FALSE
    /\ UNCHANGED <<token, azure>>

-----------------------------------------------------------------------------
(* The surroundings.                                                       *)

\* A restart of the container loses every request and every job.
Restart ==
    /\ \E j \in Jobs : Active(j)
    /\ jobs' = [j \in Jobs |-> IF Active(j) THEN Over ELSE jobs[j]]
    /\ orderly' = FALSE
    /\ UNCHANGED <<doc, token, azure>>

\* TASK_TTL runs from the last save, TOKEN_TTL from the request.
ExpireTask == doc # NoDoc /\ doc' = NoDoc /\ UNCHANGED <<token, jobs, azure, orderly>>
ExpireToken == token /\ token' = FALSE /\ UNCHANGED <<doc, jobs, azure, orderly>>

Request(j) == Execute(j) \/ Retry(j) \/ SaveRequest(j) \/ SaveToken(j) \/ RequestFails(j)

DeployOne(j, i) ==
    \/ Begin(j, i) \/ SaveItem(j, i) \/ SaveItemFails(j, i)
    \/ CreateSucceeds(j, i) \/ CreateFails(j, i) \/ CreateThrottled(j, i)

Run(j) ==
    \/ Load(j) \/ LoadMissing(j) \/ Complete(j) \/ GiveUp(j) \/ CompleteFails(j)
    \/ \E i \in Items : DeployOne(j, i)

DeployNext ==
    \/ \E j \in Jobs : Request(j) \/ Run(j)
    \/ Restart \/ ExpireTask \/ ExpireToken

DeploySpec == DeployInit /\ [][DeployNext]_deployVars

Work(j) == SaveRequest(j) \/ SaveToken(j) \/ RequestFails(j) \/ Run(j)

\* The event loop runs whoever is ready, and Azure's pollers come to an end.
DeployFairSpec == DeploySpec /\ \A j \in Jobs : WF_deployVars(Work(j))

-----------------------------------------------------------------------------
DeployTypeOK ==
    /\ doc \in Doc \cup {NoDoc} /\ token \in BOOLEAN
    /\ jobs \in [Jobs -> Job]
    /\ azure \subseteq Items /\ orderly \in BOOLEAN

\* As long as no job was lost and no retry came while another job was at work, a
\* completed task has no item left over, and a task that reads running has a
\* job or a request that will bring it to its end: execute takes every pending item.
CompletedIsFinal ==
    orderly /\ doc # NoDoc =>
        IF doc.status = "completed"
        THEN InState(doc, "pending") \cup InState(doc, "deploying") = {}
        ELSE \E j \in Jobs : Active(j)

\* What a document says of itself is true at every save, whatever overlaps, fails or
\* restarts: its counters agree with the progress shown, over any number of retries
\* (retry_failed resets one of the two), what reads succeeded exists at Azure, and nothing is
\* left over of a completed task.
ProgressIsTrue ==
    doc # NoDoc =>
        /\ doc.succeeded = Progress(doc)["succeeded"]
        /\ doc.failed = Progress(doc)["failed"]
        /\ InState(doc, "succeeded") \subseteq azure
        /\ CompletedIsFinal

\* Every request and every job comes to its end: throttling is retried a bounded
\* number of times and a coroutine that fails gives its place in the semaphore back.
JobsEnd == \A j \in Jobs : Active(j) ~> ~Active(j)
=============================================================================
