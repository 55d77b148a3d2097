------------------------------ MODULE Maintenance ------------------------------
(* Updating and restarting the service from its own console.  A page asks the  *)
(* service, which compares versions and passes the request on to an agent on    *)
(* the host; the agent works on the service's container, and thereby ends the   *)
(* process that handles the request.                                           *)
EXTENDS Integers, FiniteSets

CONSTANTS Requests,     \* request_ids; a page makes a fresh one for every click
          NoRequest,
          MaxVersion    \* bound on released versions; an image is its version

ASSUME MaintenanceAssumption == NoRequest \notin Requests /\ MaxVersion \in Nat \ {0}

VARIABLES container,    \* of the service: its image and health
          released,     \* VERSION on the main branch
          registry,     \* the image behind the tag the Compose file names
          seen,         \* updateChecker: the cached latest version, 0 if none
          page,         \* what the page was told of its request
          post,         \* the request on its way to the agent and back
          job,          \* the agent's job record
          run           \* request -> the agent's thread that executes it

console == <<seen, page>>
world == <<released, registry>>
vars == <<container, world, console, post, job, run>>

Versions == 1..MaxVersion
Actions == {"none", "update", "restart"}
Phases == {"none", "begin", "restart", "pull", "apply", "wait", "restore", "waitOld", "end"}
Outcomes == {"none", "done", "same", "failed", "restored", "broken"}

Post == [at : {"none", "sent", "accepted", "refused"}, action : Actions, expected : 0..MaxVersion]
NoPost == [at |-> "none", action |-> "none", expected |-> 0]
Job == [id : Requests \cup {NoRequest}, running : BOOLEAN]
NoJob == [id |-> NoRequest, running |-> FALSE]
Run == [phase : Phases, action : Actions, expected : 0..MaxVersion, old : 0..MaxVersion,
        image : 0..MaxVersion, touched : BOOLEAN, outcome : Outcomes]
NoRun == [phase |-> "none", action |-> "none", expected |-> 0, old |-> 0, image |-> 0,
          touched |-> FALSE, outcome |-> "none"]

\* A job that is marked running has its thread, and there is no other.
OneThread == /\ job.running = (\E r \in Requests : run[r].phase # "none")
             /\ \A r \in Requests : run[r].phase # "none" => job.id = r

TypeOK == /\ container \in [image : Versions, health : {"starting", "healthy", "unhealthy", "down"}]
          /\ released \in Versions /\ registry \in 1..released /\ seen \in 0..released
          /\ page \in [Requests -> {"idle", "sent", "accepted", "refused", "unknown"}]
          /\ post \in [Requests -> Post] /\ job \in Job /\ run \in [Requests -> Run]
          /\ OneThread

\* The service may run an image newer than the one behind the tag.
Init == /\ \E image \in Versions : container = [image |-> image, health |-> "healthy"]
        /\ released \in Versions /\ registry \in 1..released
        /\ seen = 0 /\ page = [r \in Requests |-> "idle"] /\ post = [r \in Requests |-> NoPost]
        /\ job = NoJob /\ run = [r \in Requests |-> NoRun]

--------------------------------------------------------------------------------
(* The world around                                                            *)

\* A version is released first, and its image built afterwards.
Release == /\ \/ released < MaxVersion /\ released' = released + 1 /\ UNCHANGED registry
              \/ registry' \in (registry + 1)..released /\ UNCHANGED released
           /\ UNCHANGED <<container, console, post, job, run>>

\* A container's service becomes healthy or not, and may change its mind.
Health == /\ container.health # "down"
          /\ \E health \in {"healthy", "unhealthy"} \ {container.health} :
                container' = [container EXCEPT !.health = health]
          /\ UNCHANGED <<world, console, post, job, run>>

\* The container is recreated, restarted or stopped: the process in it ends with
\* the version it has cached, and no page hears from it.
Replace(image, health) ==
    /\ container' = [image |-> image, health |-> health]
    /\ seen' = 0
    /\ page' = [r \in Requests |-> IF page[r] = "sent" THEN "unknown" ELSE page[r]]

--------------------------------------------------------------------------------
(* handleMaintenance, in the service                                           *)

\* updateChecker.check: the cached version, or what one of the version sources
\* says, of which some lag behind; an error ends the request.
Latest == 1..released

\* A click, or a request repeated by a client that got no answer.
Ask(r) ==
    /\ page[r] \in {"idle", "unknown"} /\ post[r].at # "sent" /\ container.health # "down"
    /\ \/ /\ post[r].action # "update"
          /\ page' = [page EXCEPT ![r] = "sent"]
          /\ post' = [post EXCEPT ![r] = [at |-> "sent", action |-> "restart", expected |-> 0]]
          /\ UNCHANGED seen
       \/ /\ post[r].action # "restart"
          /\ \E latest \in Latest :
                /\ seen' = latest
                /\ \/ /\ latest > container.image
                      /\ page' = [page EXCEPT ![r] = "sent"]
                      /\ post' = [post EXCEPT ![r] = [at |-> "sent", action |-> "update", expected |-> latest]]
                   \/ /\ latest <= container.image
                      /\ page' = [page EXCEPT ![r] = "refused"] /\ UNCHANGED post
       \/ /\ post[r].action # "restart"
          /\ page' = [page EXCEPT ![r] = "refused"] /\ UNCHANGED <<seen, post>>
    /\ UNCHANGED <<container, world, job, run>>

\* maintenanceRequest: the agent's answer, unless it takes more than 5 seconds.
Answer(r) ==
    /\ page[r] = "sent"
    /\ \/ post[r].at \in {"accepted", "refused"} /\ page' = [page EXCEPT ![r] = post[r].at]
       \/ page' = [page EXCEPT ![r] = "unknown"]
    /\ UNCHANGED <<container, world, seen, post, job, run>>

--------------------------------------------------------------------------------
(* The agent                                                                   *)

Start(r) == /\ job' = [id |-> r, running |-> TRUE]
            /\ run' = [run EXCEPT ![r] = [NoRun EXCEPT !.phase = "begin", !.action = post[r].action,
                                                       !.expected = post[r].expected]]
            /\ post' = [post EXCEPT ![r].at = "accepted"]

\* Fault: only a request that is repeated finds the job running.
SubmitBusy(r) ==
    /\ post[r].at = "sent"
    /\ \/ job.id = r /\ post' = [post EXCEPT ![r].at = "accepted"] /\ UNCHANGED <<job, run>>
       \/ job.id # r /\ Start(r)
    /\ UNCHANGED <<container, world, console>>

\* submit, under the agent's lock.
Submit(r) ==
    /\ post[r].at = "sent"
    /\ \/ job.id = r /\ post' = [post EXCEPT ![r].at = "accepted"] /\ UNCHANGED <<job, run>>
       \/ job.id # r /\ job.running /\ post' = [post EXCEPT ![r].at = "refused"] /\ UNCHANGED <<job, run>>
       \/ job.id # r /\ ~job.running /\ Start(r)
    /\ UNCHANGED <<container, world, console>>

Move(r, phase, outcome) == run' = [run EXCEPT ![r].phase = phase, ![r].outcome = outcome]
Touch(r, phase, outcome) ==
    run' = [run EXCEPT ![r].phase = phase, ![r].outcome = outcome, ![r].touched = TRUE]
Quiet == UNCHANGED <<container, world, console, post, job>>

\* Nothing is touched unless the service is healthy and there is one container.
Begin(r) ==
    /\ run[r].phase = "begin"
    /\ \/ /\ container.health = "healthy" /\ run[r].action = "restart"
          /\ run' = [run EXCEPT ![r].phase = "restart", ![r].old = container.image]
       \/ /\ container.health = "healthy" /\ run[r].action # "restart"
          /\ run' = [run EXCEPT ![r].phase = "pull", ![r].old = container.image]
       \/ Move(r, "end", "failed")
    /\ Quiet

Restart(r) ==
    /\ run[r].phase = "restart"
    /\ \/ Replace(container.image, "starting") /\ Touch(r, "wait", "none")
       \/ Replace(container.image, "down") /\ Touch(r, "end", "failed")
       \/ Move(r, "end", "failed") /\ UNCHANGED <<container, console>>
    /\ UNCHANGED <<world, post, job>>

\* Fault: whatever is behind the tag is installed.
MatchesAny(r) == registry \in Versions
\* The label of the image just pulled.
Matches(r) == registry = run[r].expected

Pull(r) ==
    /\ run[r].phase = "pull"
    /\ \/ /\ Matches(r) /\ registry # run[r].old
          /\ run' = [run EXCEPT ![r].phase = "apply", ![r].image = registry]
       \/ Matches(r) /\ registry = run[r].old /\ Move(r, "end", "same")
       \/ Move(r, "end", "failed")
    /\ Quiet

\* apply_image: docker compose up recreates the container; when it fails, the old
\* one is still there, or neither runs.
Apply(r, image, next, failed, outcome) ==
    /\ \/ Replace(image, "starting") /\ Touch(r, next, "none")
       \/ (\E i \in {image, container.image} : Replace(i, "down")) /\ Touch(r, failed, outcome)
       \/ Move(r, failed, outcome) /\ UNCHANGED <<container, console>>
    /\ UNCHANGED <<world, post, job>>

Switch(r) == run[r].phase = "apply" /\ Apply(r, run[r].image, "wait", "restore", "none")
Restore(r) == run[r].phase = "restore" /\ Apply(r, run[r].old, "waitOld", "end", "broken")

Target(r) == IF run[r].action = "update" THEN run[r].image ELSE run[r].old

\* wait_healthy: a docker command may fail while it polls, and its 90 seconds may
\* pass although the service is healthy, when a command takes long.
Reached(image) == container = [image |-> image, health |-> "healthy"]

Wait(r) ==
    /\ run[r].phase = "wait"
    /\ \/ Reached(Target(r)) /\ Move(r, "end", "done")
       \/ run[r].action = "update" /\ Move(r, "restore", "none")
       \/ run[r].action # "update" /\ Move(r, "end", "failed")
    /\ Quiet

WaitOld(r) ==
    /\ run[r].phase = "waitOld"
    /\ \/ Reached(run[r].old) /\ Move(r, "end", "restored")
       \/ Move(r, "end", "broken")
    /\ Quiet

\* Fault: the job stays marked running when it failed.
FinishOnSuccess(r) ==
    /\ run[r].phase = "end"
    /\ job' = [job EXCEPT !.running = run[r].outcome \notin {"done", "same"}]
    /\ run' = [run EXCEPT ![r] = NoRun]
    /\ UNCHANGED <<container, world, console, post>>

Finish(r) ==
    /\ run[r].phase = "end"
    /\ job' = [job EXCEPT !.running = FALSE]
    /\ run' = [run EXCEPT ![r] = NoRun]
    /\ UNCHANGED <<container, world, console, post>>

\* The agent ends, and with it its threads and its record of the last job; what
\* it had not read from its socket is lost.
Crash == /\ job # NoJob \/ \E r \in Requests : post[r].at = "sent"
         /\ job' = NoJob /\ run' = [r \in Requests |-> NoRun]
         /\ post' = [r \in Requests |-> IF post[r].at = "sent" THEN [post[r] EXCEPT !.at = "none"] ELSE post[r]]
         /\ UNCHANGED <<container, world, console>>

Execute(r) == Begin(r) \/ Restart(r) \/ Pull(r) \/ Switch(r) \/ Restore(r) \/ Wait(r) \/ WaitOld(r) \/ Finish(r)

Next == \/ Release \/ Health \/ Crash
        \/ \E r \in Requests : Ask(r) \/ Answer(r) \/ Submit(r) \/ Execute(r)

\* Every command and wait of a thread has a timeout, and a job that is accepted
\* gets its thread.
Fairness == \A r \in Requests : WF_vars(Execute(r))

Spec == Init /\ [][Next]_vars
FairSpec == Spec /\ Fairness

--------------------------------------------------------------------------------
\* What the agent reports of a job is so when it ends: done, the service has the
\* image the job was to install or to restart; failed before the switch, or the
\* same image, an update has not even stopped it; restored, it has the image the
\* job found (agent.py:95-143).  Two jobs at once would each undo the other's.
OutcomeIsTrue ==
    \A r \in Requests : run[r].phase = "end" =>
        /\ run[r].outcome = "done" => container.image = Target(r)
        /\ run[r].outcome = "same" => container.image = run[r].expected
        /\ run[r].outcome = "restored" => container.image = run[r].old
        /\ (run[r].outcome \in {"failed", "same"} /\ run[r].action = "update") => ~run[r].touched

\* The service never gets an older version than it has, but for the one a failed
\* update found: however long the request was under way since the versions were
\* compared, and whatever was released and installed meanwhile
\* (maintenance.go:502, "不会重建或降级当前服务").
NeverOlder ==
    [][container'.image < container.image =>
          \E r \in Requests : /\ run[r].phase = "restore" /\ run[r].image = container.image
                              /\ run[r].old = container'.image]_vars

\* A job whose thread has started ends, whatever command fails and however the
\* service fares, and the next one is accepted again (agent.py:140-143).
JobEnds == job.running ~> ~job.running
================================================================================
