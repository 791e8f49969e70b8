---------------------------- MODULE DaemonProofs ----------------------------
(***************************************************************************)
(* Proofs about the daemon and the tasks it runs.  Of Daemon: the          *)
(* configuration in use has always passed validation, and outside a        *)
(* container a daemon that serves is not root.  Of Tasks: the back-off of  *)
(* the loops follows their errors, and wait_for_completion waits, for any  *)
(* number of tasks.  Of Radv: hosts keep an advertised router until three  *)
(* advertisements in a row have failed, for any interfaces, intervals,     *)
(* contexts and changes of addresses; the invariant bounds the time since  *)
(* the last advertisement by the misses, period by period.                 *)
(***************************************************************************)
EXTENDS Daemon, Tasks, Radv, FiniteSetTheorems, TLAPS

Child == [state : {"new", "alive", "zombie", "reaped"},
          wait : {"none", "waiting", "status", "failed"}]

\* ServesUnprivileged is decided one step earlier, when the user is changed.
Unprivileged == stage \in {"ready", "run"} /\ ~container => uid = "user"

IInv == TypeOK /\ ConfigIsValid /\ Unprivileged

-----------------------------------------------------------------------------
LEMMA InitEstablishes == Init => IInv
<1> SUFFICES ASSUME Init PROVE IInv
  OBVIOUS
<1> USE BoundAssumption, SignalAssumption
<1>1. TypeOK
  <2>1. edits \in 0..MaxEdits /\ sent \in 0..MaxSignals
    BY DEF Init
  <2>2. stage \in Stage /\ caps \subseteq Cap /\ uid \in {"root", "user"}
    BY DEF Init, Stage
  <2>3. /\ container \in BOOLEAN /\ editing \in BOOLEAN
        /\ pending \subseteq Signal /\ ended \subseteq {"TERM", "INT"}
        /\ config \in Config \cup {None} /\ snapshot \in Config \cup {None}
        /\ reload \in Config \cup {None} /\ file \in Config
    BY Zenon DEF Init
  <2>4. child \in [Script -> Child]
    BY DEF Init, Child
  <2> QED
    BY <2>1, <2>2, <2>3, <2>4, Zenon DEF TypeOK, Child
<1>2. ConfigIsValid /\ Unprivileged
  BY DEF Init, ConfigIsValid, Unprivileged
<1> QED
  BY <1>1, <1>2 DEF IInv

\* Exit keeps the types; nothing is claimed of a process that is gone.
LEMMA ExitKeeps ==
    ASSUME IInv, Exit, config' \in Config \cup {None}, snapshot' \in Config \cup {None},
           UNCHANGED <<container, uid, edit, ended>>, caps' \subseteq Cap, sent' \in 0..MaxSignals
    PROVE  IInv'
<1>1. child' \in [Script -> Child]
  <2>1. ASSUME NEW s \in Script PROVE [child[s] EXCEPT !.wait = "none"] \in Child
    BY DEF IInv, TypeOK, Child
  <2> QED
    BY <2>1 DEF Exit
<1>2. stage' \in Stage /\ pending' \subseteq Signal /\ reload' \in Config \cup {None}
  BY DEF Exit, Stage
<1>3. TypeOK'
  BY <1>1, <1>2 DEF IInv, TypeOK, Child, edit
<1>4. ConfigIsValid' /\ Unprivileged'
  BY DEF Exit, ConfigIsValid, Unprivileged
<1> QED
  BY <1>3, <1>4 DEF IInv

\* A step that leaves the process and the configuration alone, and keeps types.
LEMMA QuietKeeps ==
    ASSUME IInv, UNCHANGED <<process, config>>,
           file' \in Config, editing' \in BOOLEAN, edits' \in 0..MaxEdits,
           pending' \subseteq Signal, ended' \subseteq {"TERM", "INT"}, sent' \in 0..MaxSignals,
           reload' \in Config \cup {None}, child' \in [Script -> Child]
    PROVE  IInv'
<1>1. TypeOK'
  BY DEF IInv, TypeOK, process, Child
<1>2. ConfigIsValid' /\ Unprivileged'
  BY DEF IInv, ConfigIsValid, Unprivileged, process
<1> QED
  BY <1>1, <1>2 DEF IInv

\* Every step of start-up keeps the invariant.
LEMMA StartKeeps == ASSUME IInv, Start PROVE IInv'
<1> USE ConfigAssumption
<1>1. CASE Load
  <2>1. CASE Exit /\ UNCHANGED config
    BY <1>1, <2>1, ExitKeeps DEF Load, IInv, TypeOK
  <2>2. CASE config' \in Valid /\ stage' = "services" /\ UNCHANGED <<pending, reload, child>>
    BY <1>1, <2>2 DEF Load, IInv, TypeOK, ConfigIsValid, Unprivileged, Stage, edit
  <2> QED
    BY <1>1, <2>1, <2>2 DEF Load
<1>2. CASE BuildServices
  <2>1. CASE Exit
    BY <1>2, <2>1, ExitKeeps DEF BuildServices, IInv, TypeOK
  <2>2. CASE stage' = "sockets" /\ UNCHANGED <<pending, reload, child>>
    BY <1>2, <2>2 DEF BuildServices, IInv, TypeOK, ConfigIsValid, Unprivileged, Stage, edit
  <2> QED
    BY <1>2, <2>1, <2>2 DEF BuildServices
<1>3. CASE BindSockets
  <2>1. CASE Exit
    BY <1>3, <2>1, ExitKeeps DEF BindSockets, IInv, TypeOK
  <2>2. CASE stage' = "signals" /\ UNCHANGED <<pending, reload, child>>
    BY <1>3, <2>2 DEF BindSockets, IInv, TypeOK, ConfigIsValid, Unprivileged, Stage, edit
  <2> QED
    BY <1>3, <2>1, <2>2 DEF BindSockets
<1>4. CASE SetupSignalHandlers
  BY <1>4 DEF SetupSignalHandlers, IInv, TypeOK, ConfigIsValid, Unprivileged, Stage, edit, signals
<1>5. CASE DropPrivileges
  <2>1. CASE Exit
    BY <1>5, <2>1, ExitKeeps DEF DropPrivileges, Retained, Exit, IInv, TypeOK
  <2>2. CASE stage' = "ready" /\ UNCHANGED <<pending, reload, child>>
    <3>1. uid' \in {"root", "user"} /\ caps' \subseteq Cap
      BY <1>5, <2>2 DEF DropPrivileges, Retained, Exit, IInv, TypeOK
    <3>2. ~container => uid' = "user"
      BY <1>5, <2>2 DEF DropPrivileges, Retained, Exit, IInv, TypeOK
    <3> QED
      BY <1>5, <2>2, <3>1, <3>2
         DEF DropPrivileges, IInv, TypeOK, ConfigIsValid, Unprivileged, Stage, edit
  <2> QED
    BY <1>5, <2>1, <2>2 DEF DropPrivileges
<1>6. CASE Ready
  BY <1>6 DEF Ready, IInv, TypeOK, ConfigIsValid, Unprivileged, Stage, edit, signals
<1> QED
  BY <1>1, <1>2, <1>3, <1>4, <1>5, <1>6 DEF Start

\* Every signal that is taken, and every reload, keeps the invariant.
LEMMA ServeKeeps == ASSUME IInv, Serve PROVE IInv'
<1>0. TypeOK /\ child \in [Script -> Child]
  BY DEF IInv, TypeOK, Child
<1>1. CASE TakeHup
  BY <1>0, <1>1, QuietKeeps DEF TakeHup, TypeOK, edit
<1>2. CASE ReloadFails
  BY <1>0, <1>2, QuietKeeps DEF ReloadFails, TypeOK, edit, signals
<1>3. CASE Apply
  <2>1. config' \in Valid
    BY <1>3 DEF Apply, Accepts
  <2>2. ConfigIsValid' /\ Unprivileged'
    BY <1>3, <2>1 DEF Apply, IInv, ConfigIsValid, Unprivileged, process
  <2>3. TypeOK'
    BY <1>0, <1>3, <2>1, ConfigAssumption DEF Apply, TypeOK, process, edit, signals
  <2> QED
    BY <2>2, <2>3 DEF IInv
<1>4. CASE TakeChld
  <2>1. child' \in [Script -> Child]
    <3>1. ASSUME NEW s \in Script PROVE [child[s] EXCEPT !.state = "reaped"] \in Child
      BY <1>0 DEF Child
    <3> QED
      BY <1>0, <1>4, <3>1 DEF TakeChld
  <2> QED
    BY <1>0, <1>4, <2>1, QuietKeeps DEF TakeChld, TypeOK, edit
<1>5. ASSUME NEW sig \in Signal, TakeSignal(sig) PROVE IInv'
  BY <1>0, <1>5, QuietKeeps DEF TakeSignal, TypeOK, edit
<1> QED
  BY <1>1, <1>2, <1>3, <1>4, <1>5 DEF Serve

LEMMA RaiseKeeps == ASSUME IInv, NEW sig \in Signal, Raise(sig) PROVE IInv'
<1>0. TypeOK /\ child \in [Script -> Child]
  BY DEF IInv, TypeOK, Child
<1>1. sent' \in 0..MaxSignals
  BY <1>0, BoundAssumption DEF Raise, TypeOK
<1>2. CASE Exit
  BY <1>0, <1>1, <1>2, ExitKeeps DEF Raise, TypeOK
<1>3. CASE pending' = pending \cup {sig} /\ UNCHANGED <<stage, reload, child>>
  BY <1>0, <1>1, <1>3, QuietKeeps DEF Raise, TypeOK, process, edit
<1> QED
  BY <1>2, <1>3 DEF Raise

LEMMA EditKeeps == ASSUME IInv, EditStart \/ EditEnd PROVE IInv'
<1>0. TypeOK /\ child \in [Script -> Child]
  BY DEF IInv, TypeOK, Child
<1>1. CASE EditStart
  BY <1>0, <1>1, BoundAssumption, QuietKeeps DEF EditStart, TypeOK
<1>2. CASE EditEnd
  BY <1>0, <1>2, QuietKeeps DEF EditEnd, TypeOK, signals
<1> QED
  BY <1>1, <1>2

LEMMA ScriptKeeps ==
    ASSUME IInv, NEW s \in Script,
           SpawnScript(s) \/ ChildExits(s) \/ WaitOver(s) \/ WaitTimesOut(s)
    PROVE  IInv'
<1>0. TypeOK /\ child \in [Script -> Child]
  BY DEF IInv, TypeOK, Child
<1>1. \/ \E c \in Child : child' = [child EXCEPT ![s] = c]
      \/ child' = [child EXCEPT ![s].state = "zombie"]
      \/ child' = [child EXCEPT ![s].wait = "failed"]
  BY DEF SpawnScript, ChildExits, WaitOver, WaitTimesOut, Child
<1>2. /\ [child[s] EXCEPT !.state = "zombie"] \in Child
      /\ [child[s] EXCEPT !.wait = "failed"] \in Child
  BY <1>0 DEF Child
<1>3. child' \in [Script -> Child]
  BY <1>0, <1>1, <1>2
<1>4. pending' \subseteq Signal
  BY <1>0, SignalAssumption
     DEF SpawnScript, ChildExits, WaitOver, WaitTimesOut, TypeOK, signals
<1>5. UNCHANGED <<process, config, edit, ended, sent, reload>>
  BY DEF SpawnScript, ChildExits, WaitOver, WaitTimesOut, signals
<1> QED
  BY <1>0, <1>3, <1>4, <1>5, QuietKeeps DEF TypeOK, edit

LEMMA NextKeeps == IInv /\ [Next]_vars => IInv'
<1> SUFFICES ASSUME IInv, [Next]_vars PROVE IInv'
  OBVIOUS
<1>1. CASE UNCHANGED vars
  BY <1>1, QuietKeeps DEF vars, IInv, TypeOK, Child, edit, signals
<1> QED
  BY <1>1, StartKeeps, ServeKeeps, EditKeeps, RaiseKeeps, ScriptKeeps DEF Next

-----------------------------------------------------------------------------
\* For any files, edits, signals and scripts: the configuration the process uses
\* passed validate_config, whatever was in the file at a SIGHUP, and outside a
\* container run() is reached only by a process that is not root.
THEOREM DaemonStaysSound == Spec => []DaemonIsSound
<1>1. IInv => DaemonIsSound
  BY DEF IInv, DaemonIsSound, ServesUnprivileged, Unprivileged
<1>2. Spec => []IInv
  BY InitEstablishes, NextKeeps, PTL DEF Spec
<1> QED
  BY <1>1, <1>2, PTL

-----------------------------------------------------------------------------
(* The list of tasks *)

Places == {"new", "work", "backoff", "sleep", "done"}

\* A completion is sent once by each task that is done, so what the waiter has
\* heard never exceeds their number, and it returns with what it counted.
WaitInv ==
    /\ pc \in [Task -> Places]
    /\ registered \subseteq Task /\ counted \subseteq Task
    /\ heard \in Nat /\ heard <= Cardinality(Done)
    /\ closer = "returned" => heard = Cardinality(counted)

-----------------------------------------------------------------------------
LEMMA DoneIsFinite ==
    ASSUME NEW S \in SUBSET Task
    PROVE  IsFiniteSet(S) /\ Cardinality(S) \in Nat
  BY TaskAssumption, FS_Subset, FS_CardinalityType

LEMMA DoneIsTasks == Done \in SUBSET Task /\ Done' \in SUBSET Task
  BY DEF Done

LEMMA WaitInvStarts == TasksInit => WaitInv
<1> SUFFICES ASSUME TasksInit PROVE WaitInv
  OBVIOUS
<1>1. Cardinality(Done) \in Nat
  BY DoneIsFinite, DoneIsTasks
<1> QED
  BY <1>1 DEF TasksInit, WaitInv, Places

\* A task that goes on, or comes to its end, leaves the completions that were
\* heard within those that were sent.
LEMMA MoveKeeps ==
    ASSUME WaitInv, NEW t \in Task, pc[t] # "done", NEW place \in Places,
           pc' = [pc EXCEPT ![t] = place], UNCHANGED <<registered, closing>>
    PROVE  WaitInv'
<1>1. Done \subseteq Done'
  BY DEF Done, WaitInv
<1>2. Cardinality(Done) <= Cardinality(Done')
  BY <1>1, DoneIsFinite, DoneIsTasks, FS_Subset
<1>3. Cardinality(Done) \in Nat /\ Cardinality(Done') \in Nat
  BY DoneIsFinite, DoneIsTasks
<1>4. heard' <= Cardinality(Done')
  BY <1>2, <1>3 DEF WaitInv, closing
<1> QED
  BY <1>4 DEF WaitInv, closing

\* Neither the waiter's state nor where the tasks are changes.
LEMMA StillKeeps ==
    ASSUME WaitInv, UNCHANGED <<pc, closing>>, registered' \subseteq Task
    PROVE  WaitInv'
<1>1. Done' = Done
  BY DEF Done
<1> QED
  BY <1>1 DEF WaitInv, closing

LEMMA CheckIs ==
    ASSUME NEW t \in Task, NEW place \in Places, Check(t, place)
    PROVE  \E p \in Places : pc' = [pc EXCEPT ![t] = p]
  BY DEF Check, GoTo, Places

LEMMA TaskKeeps ==
    ASSUME WaitInv, NEW t \in Task, Spawn(t) \/ Register(t) \/ Run(t) \/ Eat(t)
    PROVE  WaitInv'
<1>0. "work" \in Places /\ "sleep" \in Places /\ "backoff" \in Places /\ "done" \in Places
  BY DEF Places
<1>1. CASE Spawn(t)
  BY <1>0, <1>1, MoveKeeps DEF Spawn
<1>2. CASE Register(t)
  BY <1>2, StillKeeps DEF Register, WaitInv, loops
<1>3. CASE Run(t)
  <2>1. pc[t] # "done" /\ UNCHANGED <<registered, closing>>
    BY <1>3 DEF Run, WorkOk, WorkErr, BackoffOver, SleepOver, Woken
  <2>2. \E p \in Places : pc' = [pc EXCEPT ![t] = p]
    <3>1. CASE WorkOk(t)
      BY <1>0, <3>1, CheckIs DEF WorkOk, GoTo
    <3>2. CASE WorkErr(t)
      BY <1>0, <3>2, CheckIs DEF WorkErr, GoTo
    <3>3. CASE BackoffOver(t)
      BY <1>0, <3>3, CheckIs DEF BackoffOver, GoTo
    <3>4. CASE SleepOver(t) \/ Woken(t)
      BY <1>0, <3>4 DEF SleepOver, Woken, GoTo
    <3> QED
      BY <1>3, <3>1, <3>2, <3>3, <3>4 DEF Run
  <2> QED
    BY <2>1, <2>2, MoveKeeps
<1>4. CASE Eat(t)
  BY <1>4, StillKeeps DEF Eat, WaitInv, loops
<1> QED
  BY <1>1, <1>2, <1>3, <1>4

LEMMA CloserKeeps == ASSUME WaitInv, Shutdown \/ Count \/ Hear \/ Return PROVE WaitInv'
<1>1. Done' = Done /\ pc' = pc /\ registered' = registered
  BY DEF Shutdown, Count, Hear, Return, Done, loops
<1>2. Cardinality(Done) \in Nat
  BY DoneIsFinite, DoneIsTasks
<1>3. CASE Shutdown
  BY <1>1, <1>3 DEF Shutdown, WaitInv
<1>4. CASE Count
  BY <1>1, <1>4 DEF Count, WaitInv
<1>5. CASE Hear
  BY <1>1, <1>2, <1>5 DEF Hear, WaitInv
<1>6. CASE Return
  BY <1>1, <1>6 DEF Return, Enough, WaitInv
<1> QED
  BY <1>3, <1>4, <1>5, <1>6

LEMMA WaitInvKeeps == WaitInv /\ [TasksNext]_tasks => WaitInv'
<1> SUFFICES ASSUME WaitInv, [TasksNext]_tasks PROVE WaitInv'
  OBVIOUS
<1>1. CASE UNCHANGED tasks
  BY <1>1, StillKeeps DEF tasks, loops, WaitInv
<1> QED
  BY <1>1, TaskKeeps, CloserKeeps DEF TasksNext

\* The waiter heard as many completions as it counted tasks.  If no other task
\* ever started they came from these, so all of them are done.
LEMMA CountIsEnough == WaitInv => WaitCoversTasks
<1> SUFFICES ASSUME WaitInv, closer = "returned", \A t \in Task \ counted : pc[t] = "new"
             PROVE  counted \subseteq Done
  BY DEF WaitCoversTasks
<1>1. Done \in SUBSET counted
  BY DEF Done
<1>2. IsFiniteSet(counted) /\ Cardinality(counted) \in Nat /\ Cardinality(Done) \in Nat
  BY DoneIsFinite, DoneIsTasks DEF WaitInv
<1>3. /\ Cardinality(Done) <= Cardinality(counted)
      /\ Cardinality(counted) = Cardinality(Done) => counted = Done
  BY <1>1, <1>2, FS_Subset
<1>4. Cardinality(counted) <= Cardinality(Done)
  BY DEF WaitInv
<1>5. counted = Done
  BY <1>2, <1>3, <1>4
<1> QED
  BY <1>5

-----------------------------------------------------------------------------
\* For any set of tasks: when wait_for_completion returns, every task it counted
\* has ended, as long as no task was running that it did not count.
THEOREM WaitIsComplete == TasksSpec => []WaitCoversTasks
<1>1. TasksSpec => []WaitInv
  BY WaitInvStarts, WaitInvKeeps, PTL DEF TasksSpec
<1> QED
  BY <1>1, CountIsEnough, PTL

-----------------------------------------------------------------------------
(* Back-off *)

\* The counter of a task with a back-off follows its errors, and is one behind
\* while the task waits for the delay it was read for.
Retries(strategy, place, count, pause, errors) ==
    /\ strategy = "none" => place # "backoff"
    /\ strategy = "exponential" /\ place \in {"new", "work", "sleep"} =>
          count = AtMost(errors, MaxExponent)
    /\ place = "backoff" =>
          /\ 0 < errors /\ count = errors - 1
          /\ pause = AtMost(Initial * 2^(errors - 1), MaxDelay)

LoopsInv ==
    /\ pc \in [Task -> Places]
    /\ attempt \in [Task -> 0..MaxExponent]
    /\ delay \in [Task -> 0..MaxDelay]
    /\ streak \in [Task -> 0..(MaxExponent + 1)]
    /\ \A t \in Task : Retries(Backoff[t], pc[t], attempt[t], delay[t], streak[t])

MessagesInv ==
    /\ message \subseteq Task /\ eaten \subseteq Task
    /\ closer \in {"open", "sent", "waiting", "returned"}
    /\ counted \subseteq registered

\* A power of two is the number of the subsets of a set.
LEMMA PowerIs == ASSUME NEW k \in Nat PROVE 2^k \in Nat
<1>1. IsFiniteSet(1..k) /\ Cardinality(1..k) = k
  BY FS_Interval
<1>2. IsFiniteSet(SUBSET (1..k)) /\ Cardinality(SUBSET (1..k)) = 2^k
  BY <1>1, FS_SUBSET
<1> QED
  BY <1>2, FS_CardinalityType

LEMMA DelayIs ==
    ASSUME NEW k \in Nat
    PROVE  AtMost(Initial * 2^k, MaxDelay) \in 0..MaxDelay
<1> DEFINE power == 2^k
<1>1. power \in Nat /\ Initial \in Nat /\ MaxDelay \in Nat
  BY PowerIs, DelayAssumption
<1> HIDE DEF power
<1>2. Initial * power \in Nat
  BY <1>1
<1>3. \A n \in Nat : AtMost(n, MaxDelay) \in 0..MaxDelay
  BY <1>1 DEF AtMost
<1> QED
  BY <1>2, <1>3 DEF power

LEMMA StrategyIs == \A t \in Task : Backoff[t] \in {"none", "exponential"}
  BY TaskAssumption

LEMMA NextDelayIs ==
    ASSUME LoopsInv, NEW t \in Task
    PROVE  /\ next_delay(t) \in 0..MaxDelay
           /\ Backoff[t] = "none" => next_delay(t) = 0
           /\ Backoff[t] = "exponential" => next_delay(t) = AtMost(Initial * 2^attempt[t], MaxDelay)
<1>1. attempt[t] \in Nat /\ AtMost(attempt[t], MaxExponent) = attempt[t] /\ MaxDelay \in Nat
  BY DelayAssumption DEF LoopsInv, AtMost
<1>2. AtMost(Initial * 2^attempt[t], MaxDelay) \in 0..MaxDelay
  BY <1>1, DelayIs
<1>3. CASE Backoff[t] = "none"
  BY <1>1, <1>3 DEF next_delay
<1>4. CASE Backoff[t] = "exponential"
  BY <1>1, <1>2, <1>4 DEF next_delay
<1> QED
  BY <1>3, <1>4, StrategyIs

\* A step of one task, of which only what it makes of that task matters.
LEMMA LoopKeeps ==
    ASSUME LoopsInv, NEW t \in Task,
           NEW place \in Places, NEW count \in 0..MaxExponent, NEW pause \in 0..MaxDelay,
           NEW errors \in 0..(MaxExponent + 1), Retries(Backoff[t], place, count, pause, errors),
           pc' = [pc EXCEPT ![t] = place], attempt' = [attempt EXCEPT ![t] = count],
           delay' = [delay EXCEPT ![t] = pause], streak' = [streak EXCEPT ![t] = errors]
    PROVE  LoopsInv'
<1>1. /\ pc' \in [Task -> Places] /\ attempt' \in [Task -> 0..MaxExponent]
      /\ delay' \in [Task -> 0..MaxDelay] /\ streak' \in [Task -> 0..(MaxExponent + 1)]
  BY DEF LoopsInv
<1>2. ASSUME NEW u \in Task
      PROVE  Retries(Backoff[u], pc'[u], attempt'[u], delay'[u], streak'[u])
  <2>1. CASE u = t
    BY <2>1 DEF LoopsInv
  <2>2. CASE u # t
    <3>1. pc'[u] = pc[u] /\ attempt'[u] = attempt[u] /\ delay'[u] = delay[u] /\ streak'[u] = streak[u]
      BY <2>2 DEF LoopsInv
    <3> QED
      BY <3>1 DEF LoopsInv
  <2> QED
    BY <2>1, <2>2
<1> QED
  BY <1>1, <1>2 DEF LoopsInv

\* What is not named in a step stays what it was.
LEMMA SameLoop ==
    ASSUME LoopsInv, NEW t \in Task
    PROVE  /\ UNCHANGED attempt => attempt' = [attempt EXCEPT ![t] = attempt[t]]
           /\ UNCHANGED delay => delay' = [delay EXCEPT ![t] = delay[t]]
           /\ UNCHANGED streak => streak' = [streak EXCEPT ![t] = streak[t]]
           /\ attempt[t] \in 0..MaxExponent /\ delay[t] \in 0..MaxDelay
           /\ streak[t] \in 0..(MaxExponent + 1)
           /\ Retries(Backoff[t], pc[t], attempt[t], delay[t], streak[t])
  BY DEF LoopsInv

LEMMA CheckGoes ==
    ASSUME NEW t \in Task, NEW place \in Places, Check(t, place)
    PROVE  \E p \in {place, "done"} : pc' = [pc EXCEPT ![t] = p]
  BY DEF Check, GoTo

LEMMA SuccessLoops ==
    ASSUME LoopsInv, NEW t \in Task, WorkOk(t)
    PROVE  LoopsInv'
<1>0. 0 \in 0..MaxExponent /\ 0 \in 0..(MaxExponent + 1) /\ AtMost(0, MaxExponent) = 0
  BY DelayAssumption DEF AtMost
<1>1. UNCHANGED delay /\ streak' = [streak EXCEPT ![t] = 0]
  BY DEF WorkOk
<1>2. CASE t \in Periodic
  <2>1. attempt' = [attempt EXCEPT ![t] = 0]
    BY <1>2 DEF WorkOk, Reset
  <2>2. PICK p \in {"sleep", "done"} : pc' = [pc EXCEPT ![t] = p]
    BY <1>2, CheckGoes DEF WorkOk, Places
  <2>3. Retries(Backoff[t], p, 0, delay[t], 0) /\ p \in Places
    BY <1>0 DEF Retries, Places
  <2>4. delay' = [delay EXCEPT ![t] = delay[t]] /\ delay[t] \in 0..MaxDelay
    BY <1>1, SameLoop
  <2> QED
    BY <1>0, <1>1, <2>1, <2>2, <2>3, <2>4, LoopKeeps
<1>3. CASE t \notin Periodic
  <2>1. UNCHANGED attempt /\ pc' = [pc EXCEPT ![t] = "done"]
    BY <1>3 DEF WorkOk, GoTo
  <2>2. Retries(Backoff[t], "done", attempt[t], delay[t], 0) /\ "done" \in Places
    BY DEF Retries, Places
  <2>3. /\ delay' = [delay EXCEPT ![t] = delay[t]] /\ delay[t] \in 0..MaxDelay
        /\ attempt' = [attempt EXCEPT ![t] = attempt[t]] /\ attempt[t] \in 0..MaxExponent
    BY <1>1, <2>1, SameLoop
  <2> QED
    BY <1>0, <1>1, <2>1, <2>2, <2>3, LoopKeeps
<1> QED
  BY <1>2, <1>3

\* Where a task may go after an error, and what its counter is then.
LEMMA ErrorGoes ==
    ASSUME LoopsInv, NEW t \in Task, WorkErr(t)
    PROVE  \/ \E p \in {"backoff", "done"} :
                 pc' = [pc EXCEPT ![t] = p] /\ UNCHANGED attempt /\ 0 < next_delay(t)
           \/ \E p \in {"sleep", "work", "done"} : pc' = [pc EXCEPT ![t] = p] /\ Bump(t)
<1>0. next_delay(t) \in Nat /\ (next_delay(t) > 0 <=> 0 < next_delay(t))
  <2>1. next_delay(t) \in 0..MaxDelay
    BY NextDelayIs
  <2> QED
    BY <2>1
<1>1. CASE next_delay(t) > 0 /\ t \in Periodic /\ GoTo(t, "backoff") /\ UNCHANGED attempt
  BY <1>0, <1>1 DEF GoTo
<1>2. CASE next_delay(t) > 0 /\ t \in Background /\ Check(t, "backoff") /\ UNCHANGED attempt
  BY <1>0, <1>2, CheckGoes DEF Places
<1>3. CASE next_delay(t) = 0
  BY <1>3, CheckGoes DEF WorkErr, Places
<1> QED
  BY <1>1, <1>2, <1>3 DEF WorkErr

\* The counter after an error, and the errors it stands for.
LEMMA BumpIs ==
    ASSUME LoopsInv, NEW t \in Task, Bump(t)
    PROVE  \E count \in 0..MaxExponent :
              /\ attempt' = [attempt EXCEPT ![t] = count]
              /\ Backoff[t] = "exponential" => count = AtMost(attempt[t] + 1, MaxExponent)
<1>1. attempt[t] \in Nat /\ MaxExponent \in Nat
  BY DelayAssumption DEF LoopsInv
<1>2. AtMost(attempt[t] + 1, MaxExponent) \in 0..MaxExponent /\ 0 \in 0..MaxExponent
  BY <1>1 DEF AtMost
<1>3. CASE Backoff[t] = "none"
  BY <1>2, <1>3 DEF Bump, LoopsInv
<1>4. CASE Backoff[t] = "exponential"
  BY <1>2, <1>4 DEF Bump, LoopsInv
<1> QED
  BY <1>3, <1>4, StrategyIs

LEMMA ErrorLoops ==
    ASSUME LoopsInv, NEW t \in Task, WorkErr(t)
    PROVE  LoopsInv'
<1> DEFINE pause == next_delay(t)
           errors == IF Backoff[t] = "none" THEN 0 ELSE AtMost(streak[t] + 1, MaxExponent + 1)
<1>1. /\ MaxExponent \in Nat /\ streak[t] \in 0..(MaxExponent + 1)
      /\ attempt[t] \in 0..MaxExponent /\ pc[t] = "work"
  BY DelayAssumption DEF LoopsInv, WorkErr
<1>2. pause \in 0..MaxDelay /\ delay' = [delay EXCEPT ![t] = pause]
  BY NextDelayIs DEF WorkErr
<1>3. errors \in 0..(MaxExponent + 1) /\ streak' = [streak EXCEPT ![t] = errors]
  BY <1>1 DEF WorkErr, AtMost, LoopsInv
<1>4. Backoff[t] = "exponential" =>
         /\ attempt[t] = AtMost(streak[t], MaxExponent) /\ 0 < errors
         /\ errors - 1 = attempt[t]
         /\ AtMost(attempt[t] + 1, MaxExponent) = AtMost(errors, MaxExponent)
  BY <1>1 DEF LoopsInv, Retries, AtMost
<1>5. /\ Backoff[t] = "exponential" => pause = AtMost(Initial * 2^attempt[t], MaxDelay)
      /\ Backoff[t] = "none" => pause = 0
  BY NextDelayIs
<1> HIDE DEF pause, errors
<1>6. CASE \E p \in {"backoff", "done"} :
              pc' = [pc EXCEPT ![t] = p] /\ UNCHANGED attempt /\ 0 < pause
  <2>1. PICK p \in {"backoff", "done"} : pc' = [pc EXCEPT ![t] = p]
    BY <1>6
  <2>2. UNCHANGED attempt /\ Backoff[t] = "exponential"
    BY <1>2, <1>5, <1>6, StrategyIs
  <2>3. Retries(Backoff[t], p, attempt[t], pause, errors) /\ p \in Places
    BY <1>4, <1>5, <2>2 DEF Retries, Places
  <2> QED
    BY <1>1, <1>2, <1>3, <2>1, <2>2, <2>3, SameLoop, LoopKeeps
<1>7. CASE \E p \in {"sleep", "work", "done"} : pc' = [pc EXCEPT ![t] = p] /\ Bump(t)
  <2>1. PICK p \in {"sleep", "work", "done"} : pc' = [pc EXCEPT ![t] = p]
    BY <1>7
  <2>2. PICK count \in 0..MaxExponent :
           /\ attempt' = [attempt EXCEPT ![t] = count]
           /\ Backoff[t] = "exponential" => count = AtMost(attempt[t] + 1, MaxExponent)
    BY <1>7, BumpIs
  <2>3. Retries(Backoff[t], p, count, pause, errors) /\ p \in Places
    BY <1>4, <2>2 DEF Retries, Places
  <2> QED
    BY <1>2, <1>3, <2>1, <2>2, <2>3, LoopKeeps
<1> QED
  BY <1>6, <1>7, ErrorGoes DEF pause

LEMMA BackoffLoops ==
    ASSUME LoopsInv, NEW t \in Task, BackoffOver(t)
    PROVE  LoopsInv'
<1>1. /\ MaxExponent \in Nat /\ 0 \in 0..MaxDelay /\ pc[t] = "backoff"
      /\ streak[t] \in 0..(MaxExponent + 1) /\ attempt[t] \in 0..MaxExponent
  BY DelayAssumption DEF LoopsInv, BackoffOver
<1>2. UNCHANGED streak /\ delay' = [delay EXCEPT ![t] = 0] /\ Bump(t)
  BY DEF BackoffOver
<1>3. PICK p \in {"sleep", "work", "done"} : pc' = [pc EXCEPT ![t] = p]
  BY CheckGoes DEF BackoffOver, GoTo, Places
<1>4. PICK count \in 0..MaxExponent :
         /\ attempt' = [attempt EXCEPT ![t] = count]
         /\ Backoff[t] = "exponential" => count = AtMost(attempt[t] + 1, MaxExponent)
  BY <1>2, BumpIs
<1>5. Backoff[t] = "exponential" /\ attempt[t] = streak[t] - 1
  BY <1>1, StrategyIs DEF LoopsInv, Retries
<1>6. AtMost(attempt[t] + 1, MaxExponent) = AtMost(streak[t], MaxExponent)
  BY <1>1, <1>5 DEF AtMost
<1>7. Retries(Backoff[t], p, count, 0, streak[t]) /\ p \in Places
  BY <1>4, <1>5, <1>6 DEF Retries, Places
<1> QED
  BY <1>1, <1>2, <1>3, <1>4, <1>7, SameLoop, LoopKeeps

LEMMA TaskLoops ==
    ASSUME LoopsInv, NEW t \in Task, Spawn(t) \/ Register(t) \/ Run(t) \/ Eat(t)
    PROVE  LoopsInv'
<1>0. /\ 0 \in 0..MaxDelay /\ attempt[t] \in 0..MaxExponent /\ delay[t] \in 0..MaxDelay
      /\ streak[t] \in 0..(MaxExponent + 1)
  BY DelayAssumption, SameLoop
<1>1. CASE UNCHANGED loops
  BY <1>1 DEF loops, LoopsInv
<1>2. CASE Spawn(t) \/ SleepOver(t)
  <2>1. pc' = [pc EXCEPT ![t] = "work"] /\ UNCHANGED <<attempt, delay, streak>>
    BY <1>2 DEF Spawn, SleepOver, GoTo
  <2>2. Retries(Backoff[t], "work", attempt[t], delay[t], streak[t]) /\ "work" \in Places
    BY <1>2 DEF Spawn, SleepOver, LoopsInv, Retries, Places
  <2>3. ASSUME NEW u \in Task
        PROVE  Retries(Backoff[u], pc'[u], attempt[u], delay[u], streak[u])
    BY <2>1, <2>2 DEF LoopsInv
  <2>4. pc' \in [Task -> Places]
    BY <2>1, <2>2 DEF LoopsInv
  <2> QED
    BY <2>1, <2>3, <2>4 DEF LoopsInv
<1>3. CASE Woken(t)
  <2>1. /\ pc' = [pc EXCEPT ![t] = "done"] /\ UNCHANGED <<attempt, streak>>
        /\ delay' = [delay EXCEPT ![t] = 0]
    BY <1>3 DEF Woken, GoTo
  <2>2. Retries(Backoff[t], "done", attempt[t], 0, streak[t]) /\ "done" \in Places
    BY DEF Retries, Places
  <2>3. attempt' = [attempt EXCEPT ![t] = attempt[t]] /\ streak' = [streak EXCEPT ![t] = streak[t]]
    BY <2>1, SameLoop
  <2> QED
    BY <1>0, <2>1, <2>2, <2>3, LoopKeeps
<1> QED
  BY <1>1, <1>2, <1>3, SuccessLoops, ErrorLoops, BackoffLoops DEF Register, Eat, Run

LEMMA LoopsStart == TasksInit => LoopsInv /\ MessagesInv
<1>1. MaxExponent \in Nat /\ MaxDelay \in Nat /\ AtMost(0, MaxExponent) = 0
  BY DelayAssumption DEF AtMost
<1> QED
  BY <1>1 DEF TasksInit, LoopsInv, MessagesInv, Retries, Places

LEMMA LoopsGoOn == LoopsInv /\ [TasksNext]_tasks => LoopsInv'
<1> SUFFICES ASSUME LoopsInv, [TasksNext]_tasks PROVE LoopsInv'
  OBVIOUS
<1>1. CASE UNCHANGED loops
  BY <1>1 DEF loops, LoopsInv
<1> QED
  BY <1>1, TaskLoops DEF TasksNext, Shutdown, Count, Hear, Return, tasks

LEMMA MessagesGoOn == MessagesInv /\ [TasksNext]_tasks => MessagesInv'
<1> SUFFICES ASSUME MessagesInv, [TasksNext]_tasks PROVE MessagesInv'
  OBVIOUS
<1>1. CASE UNCHANGED tasks
  BY <1>1 DEF tasks, closing, MessagesInv
<1>2. ASSUME NEW t \in Task, Spawn(t) \/ Register(t) \/ Run(t) \/ Eat(t)
      PROVE  MessagesInv'
  <2>1. /\ message' \subseteq message /\ eaten' \subseteq eaten \cup {t} /\ UNCHANGED closing
        /\ registered \subseteq registered'
    BY <1>2 DEF Spawn, Register, Run, WorkOk, WorkErr, BackoffOver, SleepOver, Woken, Eat, Check
  <2> QED
    BY <2>1 DEF MessagesInv, closing
<1>3. CASE Shutdown \/ Count \/ Hear \/ Return
  BY <1>3 DEF Shutdown, Count, Hear, Return, MessagesInv
<1> QED
  BY <1>1, <1>2, <1>3 DEF TasksNext

\* spawn_periodic_task and spawn_background_task wait 2^(n-1) times the initial
\* delay after the n-th error in a row, up to the limit, and start again after a
\* success; the counters, messages and lists stay what they are.  For any number
\* of tasks and any strategy, delays and exponent.
THEOREM LoopsStaySound == TasksSpec => []LoopsAreSound
<1>1. LoopsInv /\ MessagesInv /\ WaitInv => LoopsAreSound
  BY DEF LoopsInv, MessagesInv, WaitInv, LoopsAreSound, TasksTypeOK, BackoffFollowsErrors, Retries, Places
<1> QED
  BY <1>1, LoopsStart, LoopsGoOn, MessagesGoOn, WaitInvStarts, WaitInvKeeps, PTL DEF TasksSpec

-----------------------------------------------------------------------------
(* Router advertisements *)

RaTask == [at : {"none", "off", "short", "normal"}, sent : Nat, due : BOOLEAN]

RadvTypes ==
    /\ links \in [Iface -> SUBSET Kinds]
    /\ ra_task \in [Iface -> RaTask]
    /\ DOMAIN advert = Iface
    /\ since \in [Iface -> Nat]
    /\ misses \in [Iface -> Nat]

\* What was advertised is what the interface's configuration says.
Promised == \A i \in Iface : advert[i] # NoAdvert => advert[i].lifetime = RouterLifetime(i)

\* The first period has no misses: the task would have ended.
EarlySince ==
    \A i \in Iface : ra_task[i].at \in {"none", "short"} =>
       /\ misses[i] = 0
       /\ since[i] <= ShortPause
       /\ ~ra_task[i].due => since[i] = 0

\* After it a miss costs an interval, and so does a timer that has run out.
LateSince ==
    \A i \in Iface : ra_task[i].at = "normal" =>
       /\ misses[i] = 0 => since[i] <= IF ra_task[i].due THEN Interval[i] ELSE 0
       /\ misses[i] = 1 => since[i] <= IF ra_task[i].due THEN 2 * Interval[i] ELSE Interval[i]
       /\ misses[i] = 2 => since[i] <= IF ra_task[i].due THEN 3 * Interval[i] ELSE 2 * Interval[i]

RadvInv == RadvTypes /\ Promised /\ EarlySince /\ LateSince

-----------------------------------------------------------------------------
\* Three intervals that a lifetime can express are what is advertised.
LEMMA LifetimeIsThreeIntervals ==
    ASSUME NEW i \in Iface, IsRouter[i], 3 * Interval[i] <= MaxLifetime
    PROVE  RouterLifetime(i) = 3 * Interval[i]
<1>1. Interval[i] \in Nat /\ MaxLifetime \in Nat
  BY RadvAssumption
<1>2. Interval[i] * 3 = 3 * Interval[i] /\ 3 * Interval[i] \in Nat
  BY <1>1
<1> QED
  BY <1>1, <1>2 DEF RouterLifetime

\* Nothing has been advertised, nothing has been missed.
LEMMA RadvStart == RadvInit => RadvInv
  BY RadvAssumption DEF RadvInit, RadvInv, RadvTypes, Promised, EarlySince, LateSince, NoTask,
     RaTask, Kinds

\* A miss is counted.
LEMMA MissedTypes ==
    ASSUME NEW i \in Iface, RadvTypes, Missed(i)
    PROVE  /\ misses' \in [Iface -> Nat]
           /\ since' \in [Iface -> Nat]
           /\ DOMAIN advert' = Iface
<1>1. misses[i] + 1 \in Nat
  BY DEF RadvTypes
<1> QED
  BY <1>1 DEF RadvTypes, Missed

\* Starting the tasks.
LEMMA StartKeepsInv == RadvInv /\ ra_start_unsolicited => RadvInv'
<1> SUFFICES ASSUME RadvInv, ra_start_unsolicited
             PROVE  RadvInv'
  OBVIOUS
<1> USE RadvAssumption DEF RadvInv, ra_start_unsolicited
<1>1. RadvTypes'
  BY DEF RadvTypes, NoTask, RaTask
<1>2. Promised'
  BY DEF Promised, RouterLifetime
<1>3. EarlySince' /\ LateSince'
  BY DEF EarlySince, LateSince, NoTask, RadvTypes, RaTask
<1> QED
  BY <1>1, <1>2, <1>3

\* An advertisement of the first period.
LEMMA ShortKeepsInv ==
    ASSUME NEW i \in Iface, RadvInv, ShortAdvert(i)
    PROVE  RadvInv'
<1> USE RadvAssumption DEF RadvInv
<1>1. CASE /\ Sent(i)
           /\ ra_task' = [ra_task EXCEPT ![i] =
                            [at |-> IF @.sent + 1 = ShortCount THEN "normal" ELSE "short",
                             sent |-> @.sent + 1, due |-> FALSE]]
  <2>1. links' = links
    BY DEF ShortAdvert
  <2>2. RadvTypes'
    BY <1>1, <2>1 DEF RadvTypes, RaTask, Sent
  <2>3. Promised'
    BY <1>1 DEF Promised, Sent, Advert, RouterLifetime, RadvTypes
  <2>4. EarlySince' /\ LateSince'
    BY <1>1 DEF EarlySince, LateSince, Sent, RadvTypes, RaTask
  <2> QED
    BY <2>2, <2>3, <2>4
<1>2. CASE Missed(i) /\ ra_task' = [ra_task EXCEPT ![i] = [NoTask EXCEPT !.at = "off"]]
  <2>1. links' = links
    BY DEF ShortAdvert
  <2>2. RadvTypes'
    <3>1. [NoTask EXCEPT !.at = "off"] \in RaTask
      BY DEF NoTask, RaTask
    <3>2. ra_task' \in [Iface -> RaTask]
      BY <1>2, <3>1 DEF RadvTypes
    <3> QED
      BY <1>2, <2>1, <3>2, MissedTypes DEF RadvTypes
  <2>3. Promised'
    BY <1>2 DEF Promised, Missed, RouterLifetime
  <2>4. EarlySince' /\ LateSince'
    BY <1>2 DEF EarlySince, LateSince, Missed, RadvTypes, RaTask, NoTask
  <2> QED
    BY <2>2, <2>3, <2>4
<1> QED
  BY <1>1, <1>2 DEF ShortAdvert

\* An advertisement after it, sent or missed.
LEMMA NormalKeepsInv ==
    ASSUME NEW i \in Iface, RadvInv, NormalAdvert(i)
    PROVE  RadvInv'
<1> USE RadvAssumption DEF RadvInv
<1>1. /\ links' = links
      /\ ra_task' = [ra_task EXCEPT ![i].due = FALSE]
      /\ ra_task[i].at = "normal" /\ ra_task[i].due
  BY DEF NormalAdvert
<1>2. CASE Sent(i)
  <2>1. RadvTypes'
    BY <1>1, <1>2 DEF RadvTypes, RaTask, Sent
  <2>2. Promised'
    BY <1>2 DEF Promised, Sent, Advert, RouterLifetime, RadvTypes
  <2>3. EarlySince' /\ LateSince'
    BY <1>1, <1>2 DEF EarlySince, LateSince, Sent, RadvTypes, RaTask
  <2> QED
    BY <2>1, <2>2, <2>3
<1>3. CASE Missed(i)
  <2>1. RadvTypes'
    <3>1. ra_task' \in [Iface -> RaTask]
      BY <1>1 DEF RadvTypes, RaTask
    <3> QED
      BY <1>1, <1>3, <3>1, MissedTypes DEF RadvTypes
  <2>2. Promised'
    BY <1>3 DEF Promised, Missed, RouterLifetime
  <2>3. EarlySince'
    BY <1>1, <1>3 DEF EarlySince, Missed, RadvTypes, RaTask
  <2>4. LateSince'
    BY <1>1, <1>3 DEF LateSince, Missed, RadvTypes, RaTask
  <2> QED
    BY <2>1, <2>2, <2>3, <2>4
<1> QED
  BY <1>2, <1>3 DEF NormalAdvert

\* After an overflow nothing is kept.
LEMMA OverflowKeepsInv ==
    ASSUME NEW i \in Iface, RadvInv, Overflow(i)
    PROVE  RadvInv'
<1>1. /\ UNCHANGED <<links, advert, since, misses>>
      /\ ra_task' \in [Iface -> RaTask]
      /\ \A j \in Iface : ra_task'[j].at = "off"
  BY DEF Overflow, NoTask, RaTask
<1>2. RadvTypes' /\ Promised'
  BY <1>1 DEF RadvInv, RadvTypes, Promised, RouterLifetime
<1>3. EarlySince' /\ LateSince'
  BY <1>1 DEF EarlySince, LateSince
<1> QED
  BY <1>2, <1>3 DEF RadvInv

\* A timer that runs out costs a pause of the period the task is in.
LEMMA WakeKeepsInv ==
    ASSUME NEW i \in Iface, RadvInv, Wake(i)
    PROVE  RadvInv'
<1> USE RadvAssumption DEF RadvInv
<1>1. /\ UNCHANGED <<links, advert, misses>>
      /\ ra_task' = [ra_task EXCEPT ![i].due = TRUE]
      /\ ra_task[i].at \in {"short", "normal"} /\ ~ra_task[i].due
      /\ since' = [since EXCEPT ![i] = @ + Pause(i)]
  BY DEF Wake
<1>2. Pause(i) \in Nat /\ Interval[i] \in Nat
  BY DEF Pause
<1>3. RadvTypes'
  <2>1. ra_task' \in [Iface -> RaTask]
    BY <1>1 DEF RadvTypes, RaTask
  <2>2. since[i] + Pause(i) \in Nat
    BY <1>2 DEF RadvTypes
  <2>3. since' \in [Iface -> Nat]
    BY <1>1, <2>2 DEF RadvTypes
  <2> QED
    BY <1>1, <2>1, <2>3 DEF RadvTypes
<1>4. Promised'
  BY <1>1 DEF Promised, RouterLifetime
<1>5. EarlySince'
  BY <1>1, <1>2 DEF EarlySince, RadvTypes, RaTask, Pause
<1>6. LateSince'
  BY <1>1, <1>2 DEF LateSince, RadvTypes, RaTask, Pause
<1> QED
  BY <1>3, <1>4, <1>5, <1>6

\* The invariant holds in every reachable state: the addresses of an interface
\* matter to the next advertisement only.
THEOREM RadvInvariant == RadvSpec => []RadvInv
<1>1. RadvInv /\ [RadvNext]_radv => RadvInv'
  <2> SUFFICES ASSUME RadvInv, [RadvNext]_radv
               PROVE  RadvInv'
    OBVIOUS
  <2>1. ASSUME NEW i \in Iface, LinkChanges(i)
        PROVE  RadvInv'
    BY <2>1 DEF LinkChanges, RadvInv, RadvTypes, Promised, EarlySince, LateSince, RouterLifetime
  <2>2. CASE UNCHANGED radv
    BY <2>2 DEF radv, RadvInv, RadvTypes, Promised, EarlySince, LateSince, RouterLifetime
  <2> QED
    BY <2>1, <2>2, StartKeepsInv, ShortKeepsInv, NormalKeepsInv, OverflowKeepsInv, WakeKeepsInv DEF RadvNext
<1> QED
  BY <1>1, RadvStart, PTL DEF RadvSpec

\* RouterIsKept for every value of the constants: while the task of an interface
\* runs, two failures in a row of run_normal_ra_period do not cost the hosts the
\* router, for intervals between a third of a short pause and a third of what a
\* lifetime can express.
THEOREM RouterStaysKept == RadvSpec => []RouterIsKept
<1>1. RadvInv => RouterIsKept
  <2> SUFFICES ASSUME RadvInv, NEW i \in Iface,
                      advert[i] # NoAdvert, IsRouter[i], ra_task[i].at # "off", misses[i] <= 2,
                      3 * Interval[i] <= MaxLifetime, ShortPause <= 3 * Interval[i]
               PROVE  since[i] <= advert[i].lifetime
    BY DEF RouterIsKept
  <2>1. advert[i].lifetime = 3 * Interval[i]
    BY LifetimeIsThreeIntervals DEF RadvInv, Promised
  <2>2. /\ since[i] \in Nat /\ misses[i] \in {0, 1, 2} /\ Interval[i] \in Nat /\ ShortPause \in Nat
        /\ ra_task[i].at \in {"none", "short", "normal"}
    <3>1. since[i] \in Nat /\ misses[i] \in Nat /\ ra_task[i] \in RaTask
      BY DEF RadvInv, RadvTypes
    <3>2. Interval[i] \in Nat /\ ShortPause \in Nat
      BY RadvAssumption
    <3>3. misses[i] \in {0, 1, 2}
      BY <3>1
    <3> QED
      BY <3>1, <3>2, <3>3 DEF RaTask
  <2>3. CASE ra_task[i].at \in {"none", "short"}
    BY <2>1, <2>2, <2>3 DEF RadvInv, EarlySince
  <2>4. CASE ra_task[i].at = "normal"
    BY <2>1, <2>2, <2>4 DEF RadvInv, LateSince
  <2> QED
    BY <2>2, <2>3, <2>4
<1> QED
  BY <1>1, RadvInvariant, PTL

=============================================================================
