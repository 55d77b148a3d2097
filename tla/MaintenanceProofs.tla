--------------------------- MODULE MaintenanceProofs ---------------------------
(* Proofs about Maintenance, for any requests and versions.                    *)
EXTENDS Maintenance, TLAPS

\* One thread at a time, and what each of its phases knows of the container.
Knows(r) ==
    LET old == run[r].old
        image == run[r].image
        p == run[r].phase
    IN  /\ (run[r].action = "update" /\ p \in {"apply", "wait", "restore", "waitOld"})
              => old < image /\ image <= registry /\ image \in Versions
        /\ p \in {"restart", "pull", "apply", "wait", "restore", "waitOld"} => old \in Versions
        /\ p \in {"none", "begin", "restart", "pull", "apply"} => ~run[r].touched
        /\ p \in {"restart", "pull", "apply", "waitOld"} => container.image = old
        /\ p \in {"restart", "wait"} /\ run[r].action # "update" => container.image = old
        /\ p = "wait" /\ run[r].action = "update" => container.image = image
        /\ p \in {"pull", "apply", "restore", "waitOld"} => run[r].action = "update"
        /\ p = "restart" => run[r].action = "restart"
        /\ p = "restore" => container.image \in {old, image}
        /\ p = "apply" => image = run[r].expected


\* A version the container has, or will be given back, is older than any that was
\* asked for, or not newer than the registry, which only moves forward.
Before(v, e) == v < e \/ v <= registry
Switching == {"apply", "wait", "restore", "waitOld"}
Ordered == \A r \in Requests :
             /\ post[r].action = "update" => Before(container.image, post[r].expected)
             /\ run[r].action = "update" => Before(container.image, run[r].expected)
             /\ \A q \in Requests : run[q].phase \in Switching =>
                   /\ post[r].action = "update" => Before(run[q].old, post[r].expected)
                   /\ run[r].action = "update" => Before(run[q].old, run[r].expected)

\* Every request under way is for something.
Asked == \A r \in Requests : /\ post[r].at = "sent" => post[r].action # "none"
                             /\ run[r].phase # "none" => run[r].action # "none"

IInv == TypeOK /\ Asked /\ (\A r \in Requests : Knows(r)) /\ Ordered /\ OutcomeIsTrue

--------------------------------------------------------------------------------
(* Steps of a thread                                                           *)

\* Only the thread of r moves, and it stays a thread.
Moves(r) == /\ run' \in [Requests -> Run] /\ run'[r].phase # "none"
            /\ \A q \in Requests \ {r} : run'[q] = run[q]

\* What a thread knows of its job is kept by a step that only ends a phase.
Keeps(r) == /\ run'[r].action = run[r].action /\ run'[r].expected = run[r].expected
            /\ run'[r].old = run[r].old /\ run'[r].image = run[r].image

LEMMA MoveStep ==
    ASSUME run \in [Requests -> Run], NEW r \in Requests,
           NEW phase \in Phases \ {"none"}, NEW outcome \in Outcomes, Move(r, phase, outcome)
    PROVE  /\ Moves(r) /\ Keeps(r)
           /\ run'[r].phase = phase /\ run'[r].outcome = outcome /\ run'[r].touched = run[r].touched
  BY DEF Move, Moves, Keeps, Run

LEMMA TouchStep ==
    ASSUME run \in [Requests -> Run], NEW r \in Requests,
           NEW phase \in Phases \ {"none"}, NEW outcome \in Outcomes, Touch(r, phase, outcome)
    PROVE  /\ Moves(r) /\ Keeps(r)
           /\ run'[r].phase = phase /\ run'[r].outcome = outcome /\ run'[r].touched
  BY DEF Touch, Moves, Keeps, Run

LEMMA BeginStep ==
    ASSUME TypeOK, NEW r \in Requests, NEW phase \in Phases \ {"none"},
           run' = [run EXCEPT ![r].phase = phase, ![r].old = container.image]
    PROVE  /\ Moves(r) /\ run'[r].phase = phase /\ run'[r].old = container.image
           /\ run'[r].action = run[r].action /\ run'[r].expected = run[r].expected
           /\ run'[r].touched = run[r].touched /\ run'[r].image = run[r].image
  <1>1. container.image \in 0..MaxVersion /\ run \in [Requests -> Run]
    BY MaintenanceAssumption DEF TypeOK, Versions
  <1> QED
    BY <1>1 DEF Moves, Run

LEMMA PullStep ==
    ASSUME TypeOK, NEW r \in Requests,
           run' = [run EXCEPT ![r].phase = "apply", ![r].image = registry]
    PROVE  /\ Moves(r) /\ run'[r].phase = "apply" /\ run'[r].image = registry
           /\ run'[r].action = run[r].action /\ run'[r].expected = run[r].expected
           /\ run'[r].touched = run[r].touched /\ run'[r].old = run[r].old
  <1>1. registry \in 0..MaxVersion /\ run \in [Requests -> Run]
    BY MaintenanceAssumption DEF TypeOK, Versions
  <1> QED
    BY <1>1 DEF Moves, Run, Phases

\* A running thread that moves is still the only one.
LEMMA OneThreadMoves ==
    ASSUME OneThread, NEW r \in Requests, run[r].phase # "none", Moves(r), job' = job
    PROVE  OneThread'
  BY DEF OneThread, Moves

\* A step of an active thread that leaves the rest well-typed.
LEMMA TypeMoves ==
    ASSUME TypeOK, NEW r \in Requests, run[r].phase # "none", Moves(r), UNCHANGED <<world, post, job>>,
           (container \in [image : Versions, health : {"starting", "healthy", "unhealthy", "down"}])',
           (seen \in 0..released /\ page \in [Requests -> {"idle", "sent", "accepted", "refused", "unknown"}])'
    PROVE  TypeOK'
  BY OneThreadMoves DEF TypeOK, Moves, world

LEMMA TypeQuiet ==
    ASSUME TypeOK, NEW r \in Requests, run[r].phase # "none", Moves(r), Quiet
    PROVE  TypeOK'
  BY TypeMoves DEF TypeOK, Quiet, world, console

LEMMA TypeReplace ==
    ASSUME TypeOK, NEW r \in Requests, run[r].phase # "none", Moves(r), UNCHANGED <<world, post, job>>,
           \/ \E image \in Versions, health \in {"starting", "down"} : Replace(image, health)
           \/ UNCHANGED <<container, console>>
    PROVE  TypeOK'
  <1>1. (container \in [image : Versions, health : {"starting", "healthy", "unhealthy", "down"}])'
    BY DEF TypeOK, Replace
  <1>2. (seen \in 0..released /\ page \in [Requests -> {"idle", "sent", "accepted", "refused", "unknown"}])'
    BY DEF TypeOK, Replace, world, console, Versions
  <1> QED
    BY <1>1, <1>2, TypeMoves

--------------------------------------------------------------------------------
(* Types                                                                       *)

LEMMA TypeInit == Init => TypeOK
  <1> SUFFICES ASSUME Init PROVE TypeOK
    OBVIOUS
  <1> USE MaintenanceAssumption
  <1> QED
    BY DEF Init, TypeOK, OneThread, Versions, Actions, Phases, Outcomes, Post, Job, Run, NoRun, NoPost, NoJob

LEMMA TypeAround == ASSUME TypeOK, Release \/ Health \/ Crash PROVE TypeOK'
  <1> USE MaintenanceAssumption
  <1>1. CASE Release
    <2>1. (/\ container \in [image : Versions, health : {"starting", "healthy", "unhealthy", "down"}]
            /\ released \in Versions /\ registry \in 1..released /\ seen \in 0..released
            /\ page \in [Requests -> {"idle", "sent", "accepted", "refused", "unknown"}])'
      BY <1>1 DEF Release, world, console, TypeOK, Versions
    <2>2. (post \in [Requests -> Post])'
      BY <1>1 DEF Release, world, console, TypeOK, Versions
    <2>3. (run \in [Requests -> Run])'
      BY <1>1 DEF Release, world, console, TypeOK, Versions
    <2>4. (job \in Job /\ OneThread)'
      BY <1>1, <2>3 DEF Release, world, console, TypeOK, OneThread
    <2> QED
      BY <2>1, <2>2, <2>3, <2>4 DEF TypeOK
  <1>2. CASE Health
    <2>1. (/\ container \in [image : Versions, health : {"starting", "healthy", "unhealthy", "down"}]
            /\ released \in Versions /\ registry \in 1..released /\ seen \in 0..released
            /\ page \in [Requests -> {"idle", "sent", "accepted", "refused", "unknown"}])'
      BY <1>2 DEF Health, world, console, TypeOK, Versions
    <2>2. (post \in [Requests -> Post])'
      BY <1>2 DEF Health, world, console, TypeOK, Versions
    <2>3. (run \in [Requests -> Run])'
      BY <1>2 DEF Health, world, console, TypeOK, Versions
    <2>4. (job \in Job /\ OneThread)'
      BY <1>2, <2>3 DEF Health, world, console, TypeOK, OneThread
    <2> QED
      BY <2>1, <2>2, <2>3, <2>4 DEF TypeOK
  <1>3. CASE Crash
    <2>1. (/\ container \in [image : Versions, health : {"starting", "healthy", "unhealthy", "down"}]
            /\ released \in Versions /\ registry \in 1..released /\ seen \in 0..released
            /\ page \in [Requests -> {"idle", "sent", "accepted", "refused", "unknown"}])'
      BY <1>3 DEF Crash, NoRun, NoJob, Post, Run, Phases, Actions, Outcomes, Job, world, console, TypeOK, Versions
    <2>2. (post \in [Requests -> Post])'
      BY <1>3 DEF Crash, NoRun, NoJob, Post, Run, Phases, Actions, Outcomes, Job, world, console, TypeOK, Versions
    <2>3. (run \in [Requests -> Run])'
      BY <1>3 DEF Crash, NoRun, NoJob, Post, Run, Phases, Actions, Outcomes, Job, world, console, TypeOK, Versions
    <2>4. (job \in Job /\ OneThread)'
      BY <1>3, <2>3 DEF Crash, NoRun, NoJob, Post, Run, Phases, Actions, Outcomes, Job, world, console, TypeOK, OneThread
    <2> QED
      BY <2>1, <2>2, <2>3, <2>4 DEF TypeOK
  <1> QED
    BY <1>1, <1>2, <1>3

LEMMA TypeRequest == ASSUME TypeOK, NEW r \in Requests, Ask(r) \/ Answer(r) \/ Submit(r) \/ Finish(r) PROVE TypeOK'
  <1> USE MaintenanceAssumption
  <1>1. CASE Ask(r)
    <2>1. (/\ container \in [image : Versions, health : {"starting", "healthy", "unhealthy", "down"}]
            /\ released \in Versions /\ registry \in 1..released /\ seen \in 0..released
            /\ page \in [Requests -> {"idle", "sent", "accepted", "refused", "unknown"}])'
      BY <1>1 DEF Ask, Latest, Post, Actions, world, console, TypeOK, Versions
    <2>2. (post \in [Requests -> Post])'
      BY <1>1 DEF Ask, Latest, Post, Actions, world, console, TypeOK, Versions
    <2>3. (run \in [Requests -> Run])'
      BY <1>1 DEF Ask, Latest, Post, Actions, world, console, TypeOK, Versions
    <2>4. (job \in Job /\ OneThread)'
      BY <1>1, <2>3 DEF Ask, Latest, Post, Actions, world, console, TypeOK, OneThread
    <2> QED
      BY <2>1, <2>2, <2>3, <2>4 DEF TypeOK
  <1>2. CASE Answer(r)
    <2>1. (/\ container \in [image : Versions, health : {"starting", "healthy", "unhealthy", "down"}]
            /\ released \in Versions /\ registry \in 1..released /\ seen \in 0..released
            /\ page \in [Requests -> {"idle", "sent", "accepted", "refused", "unknown"}])'
      BY <1>2 DEF Answer, world, console, TypeOK, Versions
    <2>2. (post \in [Requests -> Post])'
      BY <1>2 DEF Answer, world, console, TypeOK, Versions
    <2>3. (run \in [Requests -> Run])'
      BY <1>2 DEF Answer, world, console, TypeOK, Versions
    <2>4. (job \in Job /\ OneThread)'
      BY <1>2, <2>3 DEF Answer, world, console, TypeOK, OneThread
    <2> QED
      BY <2>1, <2>2, <2>3, <2>4 DEF TypeOK
  <1>3. CASE Submit(r)
    <2>1. (/\ container \in [image : Versions, health : {"starting", "healthy", "unhealthy", "down"}]
            /\ released \in Versions /\ registry \in 1..released /\ seen \in 0..released
            /\ page \in [Requests -> {"idle", "sent", "accepted", "refused", "unknown"}])'
      BY <1>3 DEF Submit, Start, NoRun, Post, Run, Job, Actions, Phases, Outcomes, world, console, TypeOK, Versions
    <2>2. (post \in [Requests -> Post])'
      BY <1>3 DEF Submit, Start, NoRun, Post, Run, Job, Actions, Phases, Outcomes, world, console, TypeOK, Versions
    <2>3. CASE UNCHANGED <<job, run>>
      BY <1>3, <2>1, <2>2, <2>3 DEF Submit, TypeOK, OneThread
    <2>4. CASE ~job.running /\ Start(r)
      <3>1. run' = [run EXCEPT ![r] = [NoRun EXCEPT !.phase = "begin", !.action = post[r].action,
                                                    !.expected = post[r].expected]]
            /\ job' = [id |-> r, running |-> TRUE]
        BY <2>4 DEF Start
      <3>2. [NoRun EXCEPT !.phase = "begin", !.action = post[r].action, !.expected = post[r].expected] \in Run
        <4>1. post[r].action \in Actions /\ post[r].expected \in 0..MaxVersion /\ 0 \in 0..MaxVersion
          BY DEF TypeOK, Post
        <4> QED
          BY <4>1 DEF NoRun, Run, Phases, Outcomes
      <3>3. (run \in [Requests -> Run])' /\ run'[r].phase = "begin" /\ job' \in Job
        BY <3>1, <3>2 DEF TypeOK, NoRun, Job
      <3>4. \A q \in Requests \ {r} : run'[q].phase = "none"
        BY <2>4, <3>1 DEF TypeOK, OneThread
      <3>5. OneThread'
        BY <3>1, <3>3, <3>4 DEF OneThread
      <3> QED
        BY <2>1, <2>2, <3>3, <3>5 DEF TypeOK
    <2> QED
      BY <1>3, <2>3, <2>4 DEF Submit
  <1>4. CASE Finish(r)
    <2>1. (/\ container \in [image : Versions, health : {"starting", "healthy", "unhealthy", "down"}]
            /\ released \in Versions /\ registry \in 1..released /\ seen \in 0..released
            /\ page \in [Requests -> {"idle", "sent", "accepted", "refused", "unknown"}])'
      BY <1>4 DEF Finish, NoRun, Run, Phases, Actions, Outcomes, Job, world, console, TypeOK, Versions
    <2>2. (post \in [Requests -> Post])'
      BY <1>4 DEF Finish, NoRun, Run, Phases, Actions, Outcomes, Job, world, console, TypeOK, Versions
    <2>3. (run \in [Requests -> Run])'
      BY <1>4 DEF Finish, NoRun, Run, Phases, Actions, Outcomes, Job, world, console, TypeOK, Versions
    <2>4. job' \in Job /\ job'.running = FALSE
      BY <1>4 DEF Finish, TypeOK, Job
    <2>5. \A q \in Requests : run'[q].phase = "none"
      BY <1>4 DEF Finish, TypeOK, OneThread, NoRun
    <2>6. OneThread'
      BY <2>4, <2>5 DEF OneThread
    <2> QED
      BY <2>1, <2>2, <2>3, <2>4, <2>6 DEF TypeOK
  <1> QED
    BY <1>1, <1>2, <1>3, <1>4

LEMMA TypeThread ==
    ASSUME TypeOK, NEW r \in Requests, Knows(r),
           Begin(r) \/ Restart(r) \/ Pull(r) \/ Switch(r) \/ Restore(r) \/ Wait(r) \/ WaitOld(r)
    PROVE  TypeOK'
  <1> USE MaintenanceAssumption DEF Phases, Outcomes
  <1>0. run \in [Requests -> Run] /\ container.image \in Versions
    BY DEF TypeOK
  <1>1. CASE Begin(r)
    <2>1. run[r].phase # "none" /\ Quiet
      BY <1>1 DEF Begin
    <2>2. Moves(r)
      BY <1>0, <1>1, MoveStep, BeginStep DEF Begin
    <2> QED
      BY <2>1, <2>2, TypeQuiet
  <1>2. CASE Restart(r)
    <2>1. run[r].phase # "none" /\ UNCHANGED <<world, post, job>>
      BY <1>2 DEF Restart
    <2>2. Moves(r)
      BY <1>0, <1>2, MoveStep, TouchStep DEF Restart
    <2> QED
      BY <1>0, <1>2, <2>1, <2>2, TypeReplace DEF Restart
  <1>3. CASE Pull(r)
    <2>1. run[r].phase # "none" /\ Quiet
      BY <1>3 DEF Pull
    <2>2. Moves(r)
      BY <1>0, <1>3, MoveStep, PullStep DEF Pull
    <2> QED
      BY <2>1, <2>2, TypeQuiet
  <1>4. CASE Switch(r)
    <2>1. run[r].phase # "none" /\ UNCHANGED <<world, post, job>>
      BY <1>4 DEF Switch, Apply
    <2>2. Moves(r)
      BY <1>0, <1>4, MoveStep, TouchStep DEF Switch, Apply
    <2>3. run[r].image \in Versions
      BY <1>4, MaintenanceAssumption DEF Switch, Knows
    <2>4. \/ \E image \in Versions, health \in {"starting", "down"} : Replace(image, health)
          \/ UNCHANGED <<container, console>>
      BY <1>0, <1>4, <2>3 DEF Switch, Apply
    <2> QED
      BY <2>1, <2>2, <2>4, TypeReplace
  <1>5. CASE Restore(r)
    <2>1. run[r].phase # "none" /\ UNCHANGED <<world, post, job>>
      BY <1>5 DEF Restore, Apply
    <2>2. Moves(r)
      BY <1>0, <1>5, MoveStep, TouchStep DEF Restore, Apply
    <2>3. run[r].old \in Versions
      BY <1>5, MaintenanceAssumption DEF Restore, Knows
    <2>4. \/ \E image \in Versions, health \in {"starting", "down"} : Replace(image, health)
          \/ UNCHANGED <<container, console>>
      BY <1>0, <1>5, <2>3 DEF Restore, Apply
    <2> QED
      BY <2>1, <2>2, <2>4, TypeReplace
  <1>6. CASE Wait(r)
    <2>1. run[r].phase # "none" /\ Quiet
      BY <1>6 DEF Wait
    <2>2. Moves(r)
      BY <1>0, <1>6, MoveStep DEF Wait
    <2> QED
      BY <2>1, <2>2, TypeQuiet
  <1>7. CASE WaitOld(r)
    <2>1. run[r].phase # "none" /\ Quiet
      BY <1>7 DEF WaitOld
    <2>2. Moves(r)
      BY <1>0, <1>7, MoveStep DEF WaitOld
    <2> QED
      BY <2>1, <2>2, TypeQuiet
  <1> QED
    BY <1>1, <1>2, <1>3, <1>4, <1>5, <1>6, <1>7

--------------------------------------------------------------------------------
(* What the thread knows, and the order of versions                            *)

LEMMA KnowsFrame ==
    ASSUME TypeOK, TypeOK', NEW r \in Requests, Knows(r), run'[r] = run[r],
           run[r].phase = "none" \/ (container'.image = container.image /\ registry' >= registry)
    PROVE  Knows(r)'
  <1>1. run[r].image \in Int /\ registry \in Int /\ registry' \in Int
    BY MaintenanceAssumption DEF TypeOK, Run, Versions
  <1> QED
    BY <1>1 DEF Knows

LEMMA OutcomeFrame ==
    ASSUME OutcomeIsTrue, NEW r \in Requests, run'[r] = run[r],
           run[r].phase = "none" \/ container'.image = container.image
    PROVE  /\ run'[r].phase = "end" =>
                /\ run'[r].outcome = "done" => container'.image = Target(r)'
                /\ run'[r].outcome = "same" => container'.image = run'[r].expected
                /\ run'[r].outcome = "restored" => container'.image = run'[r].old
                /\ (run'[r].outcome \in {"failed", "same"} /\ run'[r].action = "update") => ~run'[r].touched
  BY DEF OutcomeIsTrue, Target

LEMMA OrderedThread ==
    ASSUME TypeOK, TypeOK', Ordered, NEW r \in Requests, Moves(r), OneThread, run[r].phase # "none",
           post' = post, registry' = registry,
           run'[r].action = run[r].action, run'[r].expected = run[r].expected,
           \/ container'.image = container.image
           \/ container'.image <= registry
           \/ run[r].phase \in Switching /\ container'.image = run[r].old,
           run'[r].phase \in Switching =>
              \/ run'[r].old = container.image
              \/ run[r].phase \in Switching /\ run'[r].old = run[r].old
    PROVE  Ordered'
  <1>1. \A q \in Requests : run'[q].action = run[q].action /\ run'[q].expected = run[q].expected
    BY DEF Moves
  <1>2. \A q \in Requests \ {r} : run'[q].phase = "none"
    BY DEF Moves, OneThread
  <1>3. ASSUME NEW e, Before(container.image, e),
               run[r].phase \in Switching => Before(run[r].old, e)
        PROVE  /\ Before(container.image, e)'
               /\ run'[r].phase \in Switching => Before(run[r].old, e)'
    BY <1>3 DEF Before
  <1>4. ASSUME NEW q \in Requests PROVE
             /\ post'[q].action = "update" => Before(container.image, post[q].expected)'
             /\ run'[q].action = "update" => Before(container.image, run[q].expected)'
    BY <1>1, <1>3 DEF Ordered, Before
  <1> QED
    BY <1>1, <1>2, <1>3, <1>4 DEF Ordered, Before, Switching

LEMMA InvAround ==
    ASSUME IInv, NEW r \in Requests,
           Release \/ Health \/ Crash \/ Ask(r) \/ Answer(r) \/ Submit(r) \/ Finish(r)
    PROVE  IInv'
  <1> USE MaintenanceAssumption
  <1>1. TypeOK /\ TypeOK'
    BY TypeAround, TypeRequest DEF IInv
  <1>2. /\ container'.image = container.image /\ registry' >= registry
        /\ \A q \in Requests : \/ run'[q] = run[q]
                               \/ run'[q] = NoRun
                               \/ run'[q].phase = "begin" /\ ~run'[q].touched /\ run'[q].action = post[q].action
                                     /\ run'[q].expected = post[q].expected
    <2>1. container'.image = container.image /\ registry' >= registry
      BY <1>1 DEF Release, Health, Crash, Ask, Answer, Submit, Start, Finish, world, console, TypeOK, Versions
    <2>2. CASE Release \/ Health \/ Ask(r) \/ Answer(r) \/ Finish(r) \/ Crash
      BY <1>1, <2>2, <2>1 DEF Release, Health, Crash, Ask, Answer, Finish, TypeOK
    <2>3. CASE Submit(r)
      <3>1. CASE run' = run
        BY <3>1, <2>1
      <3>2. CASE Start(r)
        <4>1. /\ run' = [run EXCEPT ![r] = [NoRun EXCEPT !.phase = "begin", !.action = post[r].action,
                                                         !.expected = post[r].expected]]
              /\ r \in DOMAIN run
          BY <3>2, <1>1 DEF Start, TypeOK
        <4>2. /\ run'[r].phase = "begin" /\ ~run'[r].touched
              /\ run'[r].action = post[r].action /\ run'[r].expected = post[r].expected
          BY <4>1 DEF NoRun
        <4>3. \A q \in Requests \ {r} : run'[q] = run[q]
          BY <4>1, <1>1 DEF TypeOK
        <4> QED
          BY <4>2, <4>3, <2>1
      <3> QED
        BY <2>3, <3>1, <3>2 DEF Submit
    <2> QED
      BY <2>1, <2>2, <2>3
  <1>3. \A q \in Requests : Knows(q)'
    BY <1>1, <1>2, KnowsFrame DEF IInv, Knows, NoRun
  <1>12. Asked'
    <2>1. CASE Ask(r)
      BY <1>1, <2>1 DEF Ask, TypeOK, IInv, Asked
    <2>2. CASE UNCHANGED run /\ \E at \in {"accepted", "refused"} : post' = [post EXCEPT ![r].at = at]
      <3>1. \A q \in Requests : post'[q].at = "sent" => post'[q] = post[q]
        BY <1>1, <2>2 DEF TypeOK, Post
      <3> QED
        BY <2>2, <3>1 DEF IInv, Asked
    <2>3. CASE post[r].at = "sent" /\ Start(r)
      <3>1. run'[r].action = post[r].action
        BY <1>1, <2>3 DEF Start, TypeOK, NoRun
      <3>2. \A q \in Requests \ {r} : run'[q] = run[q]
        BY <1>1, <2>3 DEF Start, TypeOK
      <3>3. \A q \in Requests : post'[q].at = "sent" => post'[q] = post[q]
        BY <1>1, <2>3 DEF Start, TypeOK, Post
      <3> QED
        BY <2>3, <3>1, <3>2, <3>3 DEF IInv, Asked
    <2>4. CASE Crash
      BY <1>1, <2>4 DEF Crash, TypeOK, Post, IInv, Asked, NoRun
    <2>5. CASE Finish(r)
      BY <1>1, <2>5 DEF Finish, TypeOK, IInv, Asked, NoRun
    <2>6. CASE Release \/ Health \/ Answer(r)
      BY <2>6 DEF Release, Health, Answer, console, IInv, Asked
    <2> QED
      BY <2>1, <2>2, <2>3, <2>4, <2>5, <2>6 DEF Submit
  <1>4. OutcomeIsTrue'
    BY <1>2, OutcomeFrame DEF IInv, OutcomeIsTrue, NoRun
  <1>5. \A p \in Requests : run[p].phase \in Switching => run[p].old <= container.image
    BY <1>1 DEF IInv, Knows, Switching, TypeOK, Versions, Run
  <1>6. \A q \in Requests :
           \/ post'[q].action = post[q].action /\ post'[q].expected = post[q].expected
           \/ post'[q].action # "update"
           \/ post'[q].expected \in Int /\ container.image < post'[q].expected
    <2>1. CASE Ask(r)
      <3>1. \A q \in Requests \ {r} : post'[q] = post[q]
        BY <1>1, <2>1 DEF Ask, TypeOK
      <3>2. CASE UNCHANGED post
        BY <3>2
      <3>3. CASE \E latest \in Latest : /\ latest > container.image
                                        /\ post' = [post EXCEPT ![r] = [at |-> "sent", action |-> "update", expected |-> latest]]
        BY <1>1, <3>1, <3>3 DEF TypeOK, Latest, Versions
      <3>4. CASE post' = [post EXCEPT ![r] = [at |-> "sent", action |-> "restart", expected |-> 0]]
        BY <1>1, <3>1, <3>4 DEF TypeOK
      <3> QED
        BY <2>1, <3>2, <3>3, <3>4 DEF Ask
    <2>2. CASE Submit(r)
      BY <1>1, <2>2 DEF Submit, Start, TypeOK, Post
    <2>3. CASE Crash
      BY <1>1, <2>3 DEF Crash, TypeOK, Post
    <2>4. CASE Release \/ Health \/ Answer(r) \/ Finish(r)
      BY <2>4 DEF Release, Health, Answer, Finish, console
    <2> QED
      BY <2>1, <2>2, <2>3, <2>4
  <1>7. /\ container.image \in Int /\ registry \in Int /\ registry' \in Int
        /\ \A q \in Requests : run[q].old \in Int /\ run[q].expected \in Int /\ post[q].expected \in Int
    BY <1>1 DEF TypeOK, Versions, Run, Post
  <1>8. ASSUME NEW q \in Requests, post'[q].action = "update"
        PROVE  /\ Before(container.image, post[q].expected)'
               /\ \A p \in Requests : run[p].phase \in Switching => run[p].old < post'[q].expected \/ run[p].old <= registry'
    BY <1>2, <1>5, <1>6, <1>7, <1>8 DEF IInv, Ordered, Before
  <1>9. ASSUME NEW q \in Requests, run'[q].action = "update"
        PROVE  /\ Before(container.image, run[q].expected)'
               /\ \A p \in Requests : run[p].phase \in Switching => run[p].old < run'[q].expected \/ run[p].old <= registry'
    <2>1. CASE run'[q] = run[q]
      BY <1>2, <1>7, <1>9, <2>1 DEF IInv, Ordered, Before
    <2>2. CASE run'[q].phase = "begin" /\ run'[q].action = post[q].action /\ run'[q].expected = post[q].expected
      BY <1>2, <1>7, <1>9, <2>2 DEF IInv, Ordered, Before
    <2> QED
      BY <1>2, <1>9, <2>1, <2>2 DEF NoRun
  <1>10. \A p \in Requests : run'[p].phase \in Switching => run'[p] = run[p]
    BY <1>2 DEF Switching, NoRun
  <1>11. Ordered'
    BY <1>8, <1>9, <1>10 DEF Ordered, Before
  <1> QED
    BY <1>1, <1>3, <1>4, <1>11, <1>12 DEF IInv

\* A step of the active thread keeps what the others know, which is nothing, and
\* what was reported, by nobody else.
LEMMA ThreadRest ==
    ASSUME IInv, TypeOK', NEW r \in Requests, run[r].phase # "none", Moves(r), Knows(r)',
           post' = post, registry' = registry,
           run'[r].action = run[r].action, run'[r].expected = run[r].expected,
           \/ container'.image = container.image
           \/ container'.image <= registry
           \/ run[r].phase \in Switching /\ container'.image = run[r].old,
           run'[r].phase \in Switching =>
              \/ run'[r].old = container.image
              \/ run[r].phase \in Switching /\ run'[r].old = run[r].old,
           run'[r].phase = "end" =>
                /\ run'[r].outcome = "done" => container'.image = Target(r)'
                /\ run'[r].outcome = "same" => container'.image = run'[r].expected
                /\ run'[r].outcome = "restored" => container'.image = run'[r].old
                /\ (run'[r].outcome \in {"failed", "same"} /\ run'[r].action = "update") => ~run'[r].touched
    PROVE  IInv'
  <1>1. \A q \in Requests \ {r} : run[q].phase = "none" /\ run'[q] = run[q]
    BY DEF IInv, TypeOK, OneThread, Moves
  <1>2. \A q \in Requests : Knows(q)'
    BY <1>1, KnowsFrame DEF IInv
  <1>3. Ordered'
    BY OrderedThread DEF IInv, TypeOK
  <1>4. OutcomeIsTrue'
    BY <1>1, OutcomeFrame DEF IInv, OutcomeIsTrue
  <1>5. Asked'
    BY <1>1 DEF IInv, Asked
  <1> QED
    BY <1>2, <1>3, <1>4, <1>5 DEF IInv

LEMMA InvThread ==
    ASSUME IInv, NEW r \in Requests,
           Begin(r) \/ Restart(r) \/ Pull(r) \/ Switch(r) \/ Restore(r) \/ Wait(r) \/ WaitOld(r)
    PROVE  IInv'
  <1> USE MaintenanceAssumption DEF Phases, Outcomes
  <1>1. TypeOK /\ TypeOK' /\ Knows(r)
    BY TypeThread DEF IInv
  <1>2. /\ run \in [Requests -> Run] /\ container.image \in Versions
        /\ run[r].old \in Int /\ run[r].image \in Int /\ registry \in Int /\ run[r].expected \in Int
        /\ run[r].action \in Actions /\ (run[r].phase # "none" => run[r].action # "none")
    BY <1>1 DEF TypeOK, Run, Versions, IInv, Asked
  <1>3. CASE Begin(r)
    <2>1. run[r].phase = "begin" /\ Quiet
      BY <1>3 DEF Begin
    <2>2. CASE Move(r, "end", "failed")
      <3>1. Moves(r) /\ Keeps(r) /\ run'[r].phase = "end" /\ run'[r].outcome = "failed" /\ ~run'[r].touched
        BY <1>1, <1>2, <2>1, <2>2, MoveStep DEF Knows
      <3> QED
        BY <1>1, <2>1, <3>1, ThreadRest DEF Knows, Keeps, Quiet, world, Switching
    <2>3. CASE \E phase \in {"restart", "pull"} :
                  /\ run' = [run EXCEPT ![r].phase = phase, ![r].old = container.image]
                  /\ run[r].action = "restart" <=> phase = "restart"
      <3>1. PICK phase \in {"restart", "pull"} :
                  /\ run' = [run EXCEPT ![r].phase = phase, ![r].old = container.image]
                  /\ run[r].action = "restart" <=> phase = "restart"
        BY <2>3
      <3>2. /\ Moves(r) /\ run'[r].phase = phase /\ run'[r].old = container.image
            /\ run'[r].action = run[r].action /\ run'[r].expected = run[r].expected
            /\ ~run'[r].touched
        BY <1>1, <2>1, <3>1, BeginStep DEF Knows
      <3> QED
        BY <1>1, <1>2, <2>1, <3>1, <3>2, ThreadRest DEF Knows, Quiet, world, Switching, Actions
    <2> QED
      BY <1>3, <2>2, <2>3 DEF Begin
  <1>4. CASE Restart(r)
    <2>1. run[r].phase = "restart" /\ UNCHANGED <<world, post, job>>
      BY <1>4 DEF Restart
    <2>2. container'.image = container.image
      BY <1>4 DEF Restart, Replace
    <2>3. /\ Moves(r) /\ Keeps(r) /\ run'[r].phase \in {"wait", "end"}
          /\ run'[r].phase = "end" => run'[r].outcome = "failed"
      BY <1>2, <1>4, MoveStep, TouchStep DEF Restart
    <2> QED
      BY <1>1, <2>1, <2>2, <2>3, ThreadRest DEF Knows, Keeps, world, Switching
  <1>5. CASE Pull(r)
    <2>1. run[r].phase = "pull" /\ Quiet
      BY <1>5 DEF Pull
    <2>2. CASE /\ Matches(r) /\ registry # run[r].old
               /\ run' = [run EXCEPT ![r].phase = "apply", ![r].image = registry]
      <3>1. /\ Moves(r) /\ run'[r].phase = "apply" /\ run'[r].image = registry /\ run'[r].old = run[r].old
            /\ run'[r].action = run[r].action /\ run'[r].expected = run[r].expected /\ ~run'[r].touched
        BY <1>1, <2>1, <2>2, PullStep DEF Knows
      <3>2. run[r].old < registry /\ registry = run[r].expected /\ registry \in Versions
        <4>1. run[r].action = "update" /\ container.image = run[r].old
          BY <1>1, <2>1 DEF Knows
        <4>2. Before(run[r].old, run[r].expected) /\ registry = run[r].expected /\ registry \in Versions
          BY <1>1, <2>2, <4>1 DEF IInv, Ordered, Matches, TypeOK, Versions
        <4> QED
          BY <1>2, <2>2, <4>2 DEF Before
      <3> QED
        <4>1. Knows(r)'
          BY <1>1, <1>2, <2>1, <3>1, <3>2 DEF Knows, Quiet, world
        <4>2. container.image = run[r].old
          BY <1>1, <2>1 DEF Knows
        <4> QED
          BY <1>1, <2>1, <3>1, <4>1, <4>2, ThreadRest DEF Quiet, world, Switching
    <2>3. CASE Matches(r) /\ registry = run[r].old /\ Move(r, "end", "same")
      <3>1. Moves(r) /\ Keeps(r) /\ run'[r].phase = "end" /\ run'[r].outcome = "same" /\ ~run'[r].touched
        BY <1>1, <1>2, <2>1, <2>3, MoveStep DEF Knows
      <3> QED
        BY <1>1, <2>1, <2>3, <3>1, ThreadRest DEF Knows, Keeps, Quiet, world, Switching, Matches
    <2>4. CASE Move(r, "end", "failed")
      <3>1. Moves(r) /\ Keeps(r) /\ run'[r].phase = "end" /\ run'[r].outcome = "failed" /\ ~run'[r].touched
        BY <1>1, <1>2, <2>1, <2>4, MoveStep DEF Knows
      <3> QED
        BY <1>1, <2>1, <3>1, ThreadRest DEF Knows, Keeps, Quiet, world, Switching
    <2> QED
      BY <1>5, <2>2, <2>3, <2>4 DEF Pull
  <1>6. CASE Switch(r)
    <2>1. run[r].phase = "apply" /\ UNCHANGED <<world, post, job>>
      BY <1>6 DEF Switch, Apply
    <2>2. /\ Moves(r) /\ Keeps(r)
          /\ \/ run'[r].phase = "wait" /\ container'.image = run[r].image
             \/ run'[r].phase = "restore" /\ container'.image \in {run[r].image, container.image}
      BY <1>2, <1>6, MoveStep, TouchStep DEF Switch, Apply, Replace
    <2> QED
      BY <1>1, <1>2, <2>1, <2>2, ThreadRest DEF Knows, Keeps, world, Switching
  <1>7. CASE Restore(r)
    <2>1. run[r].phase = "restore" /\ UNCHANGED <<world, post, job>>
      BY <1>7 DEF Restore, Apply
    <2>2. /\ Moves(r) /\ Keeps(r)
          /\ \/ run'[r].phase = "waitOld" /\ container'.image = run[r].old
             \/ /\ run'[r].phase = "end" /\ run'[r].outcome = "broken"
                /\ container'.image \in {run[r].old, container.image}
      BY <1>2, <1>7, MoveStep, TouchStep DEF Restore, Apply, Replace
    <2> QED
      BY <1>1, <1>2, <2>1, <2>2, ThreadRest DEF Knows, Keeps, world, Switching
  <1>8. CASE Wait(r)
    <2>1. run[r].phase = "wait" /\ Quiet
      BY <1>8 DEF Wait
    <2>2. /\ Moves(r) /\ Keeps(r)
          /\ \/ run'[r].phase = "end" /\ run'[r].outcome = "done" /\ container.image = Target(r)
             \/ run'[r].phase = "restore" /\ run[r].action = "update"
             \/ run'[r].phase = "end" /\ run'[r].outcome = "failed" /\ run[r].action # "update"
      BY <1>2, <1>8, MoveStep DEF Wait, Reached
    <2> QED
      BY <1>1, <1>2, <2>1, <2>2, ThreadRest DEF Knows, Keeps, Quiet, world, Switching, Target
  <1>9. CASE WaitOld(r)
    <2>1. run[r].phase = "waitOld" /\ Quiet
      BY <1>9 DEF WaitOld
    <2>2. /\ Moves(r) /\ Keeps(r) /\ run'[r].phase = "end"
          /\ run'[r].outcome \in {"restored", "broken"}
      BY <1>2, <1>9, MoveStep DEF WaitOld
    <2> QED
      BY <1>1, <1>2, <2>1, <2>2, ThreadRest DEF Knows, Keeps, Quiet, world, Switching
  <1> QED
    BY <1>3, <1>4, <1>5, <1>6, <1>7, <1>8, <1>9

--------------------------------------------------------------------------------
(* Theorems                                                                    *)

LEMMA InvInit == Init => IInv
  BY TypeInit, MaintenanceAssumption
  DEF Init, IInv, TypeOK, Asked, Knows, Ordered, OutcomeIsTrue, NoRun, NoPost

LEMMA InvNext == ASSUME IInv, [Next]_vars PROVE IInv'
  <1>1. CASE Next
    <2>1. CASE Release \/ Health \/ Crash
      <3>1. CASE Requests = {}
        BY <2>1, <3>1, TypeAround DEF IInv, Asked, Ordered, OutcomeIsTrue
      <3> QED
        BY <2>1, <3>1, InvAround
    <2> QED
      BY <1>1, <2>1, InvAround, InvThread DEF Next, Execute
  <1>2. CASE UNCHANGED vars
    BY <1>2 DEF vars, world, console, IInv, TypeOK, OneThread, Asked, Knows, Ordered, Before, OutcomeIsTrue, Target
  <1> QED
    BY <1>1, <1>2

LEMMA Invariance == Spec => []IInv
  BY InvInit, InvNext, PTL DEF Spec

\* The state is well-typed, and the job record says running just while one thread
\* executes the request it names (agent.py:64-71, 140-142).
THEOREM TypeCorrect == Spec => []TypeOK
  BY Invariance, PTL DEF IInv

\* What the agent reports of a job is so, for any number of requests.
THEOREM OutcomeTrue == Spec => []OutcomeIsTrue
  BY Invariance, PTL DEF IInv

\* However old a request is when it is executed, the service is never given an
\* older version, but for the one a failed update found.
THEOREM VersionNeverOlder == Spec => NeverOlder
  <1> DEFINE Restored == \E r \in Requests : /\ run[r].phase = "restore" /\ run[r].image = container.image
                                             /\ run[r].old = container'.image
  <1>1. ASSUME IInv, [Next]_vars PROVE container'.image < container.image => Restored
    <2> SUFFICES ASSUME container'.image < container.image PROVE Restored
      OBVIOUS
    <2>1. container.image \in Int /\ container'.image # container.image
      <3>1. container.image \in Int
        BY <1>1, MaintenanceAssumption DEF IInv, TypeOK, Versions
      <3> QED
        BY <3>1
    <2>2. PICK r \in Requests : Switch(r) \/ Restore(r)
      <3>1. ~(Release \/ Health \/ Crash \/ UNCHANGED vars)
        BY <1>1, <2>1 DEF vars, Release, Health, Crash, IInv, TypeOK, console, world
      <3>2. ASSUME NEW r \in Requests PROVE ~(Ask(r) \/ Answer(r) \/ Submit(r) \/ Begin(r) \/ Restart(r)
                                               \/ Pull(r) \/ Wait(r) \/ WaitOld(r) \/ Finish(r))
        BY <2>1 DEF Ask, Answer, Submit, Begin, Restart, Replace, Pull, Wait, WaitOld, Finish, Quiet
      <3> QED
        BY <1>1, <3>1, <3>2 DEF Next, Execute
    <2>3. CASE Switch(r)
      <3>1. run[r].image \in Int /\ run[r].old < run[r].image /\ container.image = run[r].old
        BY <1>1, <2>3, MaintenanceAssumption DEF IInv, Knows, Switch, TypeOK, Run, Versions
      <3> QED
        BY <2>1, <2>3, <3>1 DEF Switch, Apply, Replace
    <2>4. CASE Restore(r)
      <3>1. container.image \in {run[r].old, run[r].image}
        BY <1>1, <2>4 DEF IInv, Knows, Restore
      <3> QED
        BY <2>1, <2>4, <3>1 DEF Restore, Apply, Replace
    <2> QED
      BY <2>2, <2>3, <2>4
  <1>2. IInv /\ [Next]_vars => [container'.image < container.image => Restored]_vars
    BY <1>1
  <1> QED
    BY <1>2, Invariance, PTL DEF Spec, NeverOlder

--------------------------------------------------------------------------------
(* How far a job is from its end: the part of JobEnds that a step can be held   *)
(* to.  What is left to fairness is that the thread goes on.                   *)

\* How many phases may still follow, the longest way.
Distance(phase) == IF phase = "begin" THEN 7 ELSE IF phase \in {"restart", "pull"} THEN 6
                   ELSE IF phase = "apply" THEN 5 ELSE IF phase = "wait" THEN 4
                   ELSE IF phase = "restore" THEN 3 ELSE IF phase = "waitOld" THEN 2
                   ELSE IF phase = "end" THEN 1 ELSE 0

\* No step takes a job back, neither a repeated submission nor a second restore,
\* and every step of its thread takes it on.
JobAdvances ==
    [][\A r \in Requests : run[r].phase # "none" =>
          /\ Distance(run'[r].phase) <= Distance(run[r].phase)
          /\ Execute(r) => Distance(run'[r].phase) < Distance(run[r].phase)]_vars

\* A step of its thread leads from a phase to a later one.
LEMMA ThreadAdvances ==
    ASSUME TypeOK, NEW r \in Requests, Execute(r)
    PROVE  /\ run[r].phase # "none" /\ Distance(run'[r].phase) < Distance(run[r].phase)
           /\ \A q \in Requests \ {r} : run'[q] = run[q]
  <1> USE DEF Phases, Outcomes
  <1>0. run \in [Requests -> Run]
    BY DEF TypeOK
  <1>1. CASE Begin(r)
    <2>1. run[r].phase = "begin" /\ run'[r].phase \in {"restart", "pull", "end"} /\ Moves(r)
      BY <1>0, <1>1, MoveStep, BeginStep DEF Begin
    <2> QED
      BY <2>1 DEF Distance, Moves
  <1>2. CASE Restart(r)
    <2>1. run[r].phase = "restart" /\ run'[r].phase \in {"wait", "end"} /\ Moves(r)
      BY <1>0, <1>2, MoveStep, TouchStep DEF Restart
    <2> QED
      BY <2>1 DEF Distance, Moves
  <1>3. CASE Pull(r)
    <2>1. run[r].phase = "pull" /\ run'[r].phase \in {"apply", "end"} /\ Moves(r)
      BY <1>0, <1>3, MoveStep, PullStep DEF Pull
    <2> QED
      BY <2>1 DEF Distance, Moves
  <1>4. CASE Switch(r)
    <2>1. run[r].phase = "apply" /\ run'[r].phase \in {"wait", "restore"} /\ Moves(r)
      BY <1>0, <1>4, MoveStep, TouchStep DEF Switch, Apply
    <2> QED
      BY <2>1 DEF Distance, Moves
  <1>5. CASE Restore(r)
    <2>1. run[r].phase = "restore" /\ run'[r].phase \in {"waitOld", "end"} /\ Moves(r)
      BY <1>0, <1>5, MoveStep, TouchStep DEF Restore, Apply
    <2> QED
      BY <2>1 DEF Distance, Moves
  <1>6. CASE Wait(r)
    <2>1. run[r].phase = "wait" /\ run'[r].phase \in {"restore", "end"} /\ Moves(r)
      BY <1>0, <1>6, MoveStep DEF Wait
    <2> QED
      BY <2>1 DEF Distance, Moves
  <1>7. CASE WaitOld(r)
    <2>1. run[r].phase = "waitOld" /\ run'[r].phase = "end" /\ Moves(r)
      BY <1>0, <1>7, MoveStep DEF WaitOld
    <2> QED
      BY <2>1 DEF Distance, Moves
  <1>8. CASE Finish(r)
    <2>1. /\ run[r].phase = "end" /\ run'[r].phase = "none"
          /\ \A q \in Requests \ {r} : run'[q] = run[q]
      BY <1>0, <1>8 DEF Finish, NoRun
    <2> QED
      BY <2>1 DEF Distance
  <1> QED
    BY <1>1, <1>2, <1>3, <1>4, <1>5, <1>6, <1>7, <1>8 DEF Execute

\* Whatever fails, a job is at most seven steps of its thread from its end, and
\* nothing the pages, the registry, the container or a crash do adds one: a
\* request that is submitted again while its thread runs is not begun again.
THEOREM JobsAdvance == Spec => JobAdvances
  <1>1. ASSUME IInv, [Next]_vars, NEW r \in Requests, run[r].phase # "none"
        PROVE  /\ Distance(run'[r].phase) <= Distance(run[r].phase)
               /\ Execute(r) => Distance(run'[r].phase) < Distance(run[r].phase)
    <2>0. TypeOK
      BY <1>1 DEF IInv
    <2>1. Execute(r) => Distance(run'[r].phase) < Distance(run[r].phase)
      BY <2>0, ThreadAdvances
    <2>2. ASSUME NEW q \in Requests, Execute(q)
          PROVE  Distance(run'[r].phase) <= Distance(run[r].phase)
      <3>1. q = r
        BY <1>1, <2>0, <2>2, ThreadAdvances DEF TypeOK, OneThread
      <3> QED
        BY <2>2, <2>0, <3>1, ThreadAdvances DEF Distance
    <2>3. ASSUME NEW q \in Requests, Submit(q)
          PROVE  run' = run
      BY <1>1, <2>0, <2>3 DEF Submit, TypeOK, OneThread
    <2>4. CASE Crash
      <3>1. run'[r].phase = "none"
        BY <2>4 DEF Crash, NoRun
      <3>2. Distance(run'[r].phase) = 0 /\ Distance(run[r].phase) \in 0..7
        BY <3>1 DEF Distance
      <3> QED
        BY <2>1, <3>2
    <2>5. CASE run' = run
      <3>1. Distance(run[r].phase) \in 0..7
        BY DEF Distance
      <3> QED
        BY <2>1, <2>5, <3>1
    <2>6. ASSUME NEW q \in Requests, Ask(q) \/ Answer(q)
          PROVE  run' = run
      BY <2>6 DEF Ask, Answer
    <2>7. CASE Release \/ Health \/ UNCHANGED vars
      BY <2>5, <2>7 DEF Release, Health, vars
    <2> QED
      BY <1>1, <2>1, <2>2, <2>3, <2>4, <2>5, <2>6, <2>7 DEF Next
  <1> DEFINE Advance == \A r \in Requests : run[r].phase # "none" =>
                            /\ Distance(run'[r].phase) <= Distance(run[r].phase)
                            /\ Execute(r) => Distance(run'[r].phase) < Distance(run[r].phase)
  <1>2. IInv /\ [Next]_vars => [Advance]_vars
    BY <1>1
  <1> QED
    BY <1>2, Invariance, PTL DEF Spec, JobAdvances
================================================================================
