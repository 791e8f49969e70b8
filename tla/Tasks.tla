-------------------------------- MODULE Tasks --------------------------------
(***************************************************************************)
(* The background tasks of src/src/runtime/tasks.rs: TaskManager spawns    *)
(* tasks that repeat or restart a function, with a back-off after errors,  *)
(* broadcasts the shutdown and waits for completions.                      *)
(*                                                                         *)
(* Each task has a receiver of the broadcast that its function shares      *)
(* through a clone of the ShutdownHandle.  The functions return, and do    *)
(* not panic.                                                              *)
(***************************************************************************)
EXTENDS Naturals, FiniteSets

CONSTANTS
    Periodic, Background,  \* the tasks, by the way they are spawned
    Backoff,               \* BackoffStrategy of each task
    Initial, MaxDelay,     \* of the exponential strategy, whose multiplier is 2
    MaxExponent            \* attempt.min(30)

Task == Periodic \cup Background

ASSUME TaskAssumption ==
    /\ IsFiniteSet(Task) /\ Periodic \cap Background = {}
    /\ Backoff \in [Task -> {"none", "exponential"}]

ASSUME DelayAssumption ==
    {Initial, MaxDelay, MaxExponent} \subseteq Nat /\ 0 < Initial /\ Initial <= MaxDelay

VARIABLES
    pc,          \* "new", "work", "backoff", "sleep", "done"
    attempt,     \* the retry counter of each task
    delay,       \* how long each task sleeps after an error
    message,     \* tasks whose receiver has an unread shutdown
    eaten,       \* tasks whose function took it
    registered,  \* tasks in TaskManager::tasks
    streak,      \* errors since the last success, up to MaxExponent + 1, of tasks
                 \* with a back-off
    closer,      \* the caller of shutdown and wait_for_completion
    counted,     \* the tasks wait_for_completion saw registered
    heard        \* completions it has received

loops == <<pc, attempt, delay, streak>>
closing == <<closer, counted, heard>>
tasks == <<loops, message, eaten, registered, closing>>

TasksInit ==
    /\ pc = [t \in Task |-> "new"]
    /\ attempt = [t \in Task |-> 0] /\ delay = [t \in Task |-> 0] /\ streak = [t \in Task |-> 0]
    /\ message = {} /\ eaten = {} /\ registered = {}
    /\ closer = "open" /\ counted = {} /\ heard = 0

Done == {t \in Task : pc[t] = "done"}

-----------------------------------------------------------------------------
(* BackoffStrategy *)

AtMost(a, b) == IF a <= b THEN a ELSE b

next_delay(t) ==
    IF Backoff[t] = "none" THEN 0
    ELSE AtMost(Initial * 2^AtMost(attempt[t], MaxExponent), MaxDelay)

-----------------------------------------------------------------------------
(* The loops of spawn_periodic_task and spawn_background_task *)

\* The task subscribes at once; another task registers it.
Spawn(t) ==
    /\ pc[t] = "new"
    /\ pc' = [pc EXCEPT ![t] = "work"]
    /\ UNCHANGED <<attempt, delay, streak, message, eaten, registered, closing>>

\* Once wait_for_completion has counted, nobody looks at the list again.
Register(t) ==
    /\ pc[t] # "new" /\ t \notin registered /\ closer \in {"open", "sent"}
    /\ registered' = registered \cup {t}
    /\ UNCHANGED <<loops, message, eaten, closing>>

GoTo(t, place) == pc' = [pc EXCEPT ![t] = place]

Check_OnlyLogs(t, place) == GoTo(t, place) /\ message' = message \ {t}

\* is_shutdown takes the message it finds.
Check(t, place) ==
    /\ GoTo(t, IF t \in message THEN "done" ELSE place)
    /\ message' = message \ {t}

\* BackoffStrategy::None does not look at the counter.
Bump(t) ==
    attempt' = [attempt EXCEPT ![t] = IF Backoff[t] = "none" THEN 0 ELSE AtMost(@ + 1, MaxExponent)]

Reset_Never(t) == UNCHANGED attempt

Reset(t) == attempt' = [attempt EXCEPT ![t] = 0]

\* The function returns Ok: a periodic task goes on, another one is over.
WorkOk(t) ==
    /\ pc[t] = "work"
    /\ IF t \in Periodic THEN Reset(t) /\ Check(t, "sleep")
       ELSE GoTo(t, "done") /\ UNCHANGED <<attempt, message>>
    /\ streak' = [streak EXCEPT ![t] = 0]
    /\ UNCHANGED <<delay, eaten, registered, closing>>

\* The function returns an error.  A background task looks for the shutdown before
\* the delay, a periodic one after it.
WorkErr(t) ==
    /\ pc[t] = "work"
    /\ delay' = [delay EXCEPT ![t] = next_delay(t)]
    /\ \/ /\ next_delay(t) > 0 /\ t \in Periodic
          /\ GoTo(t, "backoff") /\ UNCHANGED <<attempt, message>>
       \/ /\ next_delay(t) > 0 /\ t \in Background
          /\ Check(t, "backoff") /\ UNCHANGED attempt
       \/ /\ next_delay(t) = 0
          /\ Check(t, IF t \in Periodic THEN "sleep" ELSE "work") /\ Bump(t)
    /\ streak' = [streak EXCEPT ![t] = IF Backoff[t] = "none" THEN 0
                                       ELSE AtMost(@ + 1, MaxExponent + 1)]
    /\ UNCHANGED <<eaten, registered, closing>>

BackoffOver(t) ==
    /\ pc[t] = "backoff"
    /\ Bump(t)
    /\ IF t \in Periodic THEN Check(t, "sleep") ELSE GoTo(t, "work") /\ UNCHANGED message
    /\ delay' = [delay EXCEPT ![t] = 0]
    /\ UNCHANGED <<streak, eaten, registered, closing>>

SleepOver(t) ==
    /\ pc[t] = "sleep"
    /\ GoTo(t, "work")
    /\ UNCHANGED <<attempt, delay, streak, message, eaten, registered, closing>>

\* select! notices the shutdown during a delay or an interval.
Woken(t) ==
    /\ pc[t] \in {"backoff", "sleep"} /\ t \in message
    /\ GoTo(t, "done")
    /\ message' = message \ {t}
    /\ delay' = [delay EXCEPT ![t] = 0]
    /\ UNCHANGED <<attempt, streak, eaten, registered, closing>>

\* The function itself waits for the shutdown, through its clone of the handle:
\* the loop's receiver is the same one.
Eat(t) ==
    /\ pc[t] = "work" /\ t \in message
    /\ message' = message \ {t} /\ eaten' = eaten \cup {t}
    /\ UNCHANGED <<loops, registered, closing>>

-----------------------------------------------------------------------------
(* shutdown and wait_for_completion *)

Shutdown ==
    /\ closer = "open"
    /\ closer' = "sent"
    /\ message' = {t \in Task : pc[t] \notin {"new", "done"}}
    /\ UNCHANGED <<loops, eaten, registered, counted, heard>>

Count ==
    /\ closer = "sent"
    /\ closer' = "waiting"
    /\ counted' = registered
    /\ UNCHANGED <<loops, message, eaten, registered, heard>>

Hear ==
    /\ closer = "waiting"
    /\ heard < Cardinality(counted) /\ heard < Cardinality(Done)
    /\ heard' = heard + 1
    /\ UNCHANGED <<loops, message, eaten, registered, closer, counted>>

Enough_ButOne == heard + 1 >= Cardinality(counted)

Enough == heard = Cardinality(counted)

Return ==
    /\ closer = "waiting" /\ Enough
    /\ closer' = "returned"
    /\ UNCHANGED <<loops, message, eaten, registered, counted, heard>>

Run(t) == WorkOk(t) \/ WorkErr(t) \/ BackoffOver(t) \/ SleepOver(t) \/ Woken(t)

TasksNext ==
    \/ \E t \in Task : Spawn(t) \/ Register(t) \/ Run(t) \/ Eat(t)
    \/ Shutdown \/ Count \/ Hear \/ Return

\* The runtime polls ready tasks, functions return and timers fire.
TasksFairness ==
    /\ \A t \in Task : WF_tasks(Run(t)) /\ WF_tasks(Register(t))
    /\ WF_tasks(Count) /\ WF_tasks(Hear) /\ WF_tasks(Return)

TasksSpec == TasksInit /\ [][TasksNext]_tasks /\ TasksFairness

-----------------------------------------------------------------------------
(* Properties *)

\* Every variable keeps its type, and the completions heard are completions.
TasksTypeOK ==
    /\ pc \in [Task -> {"new", "work", "backoff", "sleep", "done"}]
    /\ attempt \in [Task -> 0..MaxExponent]
    /\ delay \in [Task -> 0..MaxDelay]
    /\ message \subseteq Task /\ eaten \subseteq Task /\ registered \subseteq Task
    /\ closer \in {"open", "sent", "waiting", "returned"}
    /\ counted \subseteq registered
    /\ heard <= Cardinality(Done)

\* After the n-th error in a row a task waits 2^(n-1) times the initial delay, up
\* to the limit, and after a success it starts again with the initial delay.
BackoffFollowsErrors ==
    \A t \in Task : pc[t] = "backoff" =>
        delay[t] = AtMost(Initial * 2^(streak[t] - 1), MaxDelay)

\* The loops of the tasks are well formed and back off as they should.
LoopsAreSound == TasksTypeOK /\ BackoffFollowsErrors

\* wait_for_completion returns only when every task it counted is done, provided
\* the manager had all running tasks on its list when it counted.
WaitCoversTasks ==
    closer = "returned" /\ (\A t \in Task \ counted : pc[t] = "new") => counted \subseteq Done

\* A task that was running at the shutdown ends, whatever it was doing, unless its
\* own function took the message.
TasksEnd ==
    \A t \in Task : closer # "open" /\ t \in message ~> pc[t] = "done" \/ t \in eaten

=============================================================================
