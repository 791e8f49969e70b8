------------------------------- MODULE Daemon -------------------------------
(***************************************************************************)
(* The process: start-up (src/src/main.rs, runtime/event_loop.rs),         *)
(* privileges (platform/privileges.rs, Linux), signals                     *)
(* (platform/signals.rs), reload of the configuration (config/reload.rs)   *)
(* and the children of script_hooks.rs, in a process that serves DHCP.     *)
(*                                                                         *)
(* A configuration is a model value; the ones of Valid parse and pass      *)
(* validate_config.  An editor changes /etc/dnsmasq.conf at any time and   *)
(* leaves parts of it there while it writes.                               *)
(***************************************************************************)
EXTENDS Naturals, FiniteSets

CONSTANTS
    Config, Valid, \* contents of a configuration file; the acceptable ones
    Signal,        \* the signals setup_signal_handlers installs
    Script,        \* lease scripts that run at one time or another
    None,
    MaxEdits,      \* bound: times the file is edited
    MaxSignals     \* bound: signals sent

ASSUME ConfigAssumption == Valid \subseteq Config
ASSUME SignalAssumption == "CHLD" \in Signal /\ Signal \subseteq {"HUP", "TERM", "INT", "USR1", "CHLD"}
ASSUME BoundAssumption == MaxEdits \in Nat /\ MaxSignals \in Nat
ASSUME NoneAssumption == None \notin Config

Stage == {"load", "services", "sockets", "signals", "privileges", "ready", "run", "exited"}

Cap == {"SETGID", "SETUID", "NET_ADMIN", "NET_RAW"}

VARIABLES
    stage,       \* where main is
    caps,        \* permitted capabilities; {} for a daemon started without root
    container,   \* the daemon runs in a container
    uid,         \* "root" or "user"
    config,      \* the shared Config
    snapshot,    \* the copy the services were built with
    file,        \* /etc/dnsmasq.conf
    editing,     \* an editor is in the middle of writing it
    edits,
    pending,     \* signals delivered and not yet taken: each counts once
    ended,       \* signal tasks that have ended: SIGTERM and SIGINT serve one
    reload,      \* what handle_reload has read, while it runs
    sent,        \* signals sent so far
    fresh,       \* a SIGHUP came after the last edit
    child        \* lease scripts: "new", "alive", "zombie", "reaped", and who waits

process == <<stage, caps, uid, container, snapshot>>
signals == <<pending, ended, sent, fresh>>
edit == <<file, editing, edits>>
vars == <<process, config, edit, signals, reload, child>>

-----------------------------------------------------------------------------
Init ==
    /\ stage = "load"
    /\ \/ caps = Cap /\ uid = "root"
       \/ caps = {} /\ uid = "user"
    /\ container \in BOOLEAN
    /\ config = None /\ snapshot = None
    /\ file \in Config /\ editing = FALSE /\ edits = 0
    /\ pending = {} /\ ended = {} /\ sent = 0 /\ fresh = FALSE
    /\ reload = None
    /\ child = [s \in Script |-> [state |-> "new", wait |-> "none"]]

Alive == stage # "exited"

Handling == stage \in {"privileges", "ready", "run"}

-----------------------------------------------------------------------------
(* main *)

Exit ==
    /\ stage' = "exited"
    /\ pending' = {} /\ reload' = None
    /\ child' = [s \in Script |-> [child[s] EXCEPT !.wait = "none"]]

\* load_configuration and validate_configuration: the file of --conf-file and
\* the command line.
Load ==
    /\ stage = "load"
    /\ \/ /\ \E c \in Valid : config' = c
          /\ stage' = "services"
          /\ UNCHANGED <<pending, reload, child>>
       \/ Exit /\ UNCHANGED config
    /\ UNCHANGED <<caps, uid, container, snapshot, edit, ended, sent, fresh>>

\* EventLoop::new builds the services from a clone of the configuration.
BuildServices ==
    /\ stage = "services"
    /\ snapshot' = config
    /\ \/ stage' = "sockets" /\ UNCHANGED <<pending, reload, child>>
       \/ Exit
    /\ UNCHANGED <<caps, uid, container, config, edit, ended, sent, fresh>>

\* Then it binds the sockets, one of which may be taken.
BindSockets ==
    /\ stage = "sockets"
    /\ \/ stage' = "signals" /\ UNCHANGED <<pending, reload, child>>
       \/ Exit
    /\ UNCHANGED <<caps, uid, container, snapshot, config, edit, ended, sent, fresh>>

\* Then setup_signal_handlers starts one task for each signal.
SetupSignalHandlers ==
    /\ stage = "signals"
    /\ stage' = "privileges"
    /\ UNCHANGED <<caps, uid, container, snapshot, config, edit, signals, reload, child>>

\* retain_capabilities clears the permitted set before it adds what is to stay,
\* and the kernel adds nothing to a permitted set: the error is a warning.
Retained == {}

\* drop_privileges_safely.  setgid, setgroups and setuid need a capability; in a
\* container they are left out and the daemon goes on as root.
DropPrivileges ==
    /\ stage = "privileges"
    /\ IF uid # "root" THEN stage' = "ready" /\ UNCHANGED <<caps, uid, pending, reload, child>>
       ELSE /\ caps' = Retained
            /\ IF container THEN stage' = "ready" /\ UNCHANGED <<uid, pending, reload, child>>
               ELSE IF {"SETGID", "SETUID"} \subseteq Retained
               THEN uid' = "user" /\ stage' = "ready" /\ UNCHANGED <<pending, reload, child>>
               ELSE Exit /\ UNCHANGED uid
    /\ UNCHANGED <<container, snapshot, config, edit, ended, sent, fresh>>

\* notify_systemd_ready, then EventLoop::run.
Ready ==
    /\ stage = "ready"
    /\ stage' = "run"
    /\ UNCHANGED <<caps, uid, container, snapshot, config, edit, signals, reload, child>>

-----------------------------------------------------------------------------
(* The file *)

EditStart ==
    /\ ~editing /\ edits < MaxEdits
    /\ \E c \in Config : file' = c
    /\ editing' = TRUE /\ edits' = edits + 1
    /\ fresh' = FALSE
    /\ UNCHANGED <<process, config, pending, ended, sent, reload, child>>

EditEnd ==
    /\ editing
    /\ \E c \in Config : file' = c
    /\ editing' = FALSE
    /\ UNCHANGED <<process, config, edits, signals, reload, child>>

-----------------------------------------------------------------------------
(* Signals *)

\* A signal that comes before the handlers ends the process (SIGCHLD does not);
\* later one that is pending already is not counted again.
Raise(sig) ==
    /\ Alive /\ sig # "CHLD" /\ sent < MaxSignals
    /\ sent' = sent + 1
    /\ \/ /\ ~Handling /\ Exit /\ UNCHANGED fresh
       \/ /\ Handling
          /\ pending' = pending \cup {sig}
          /\ fresh' = (fresh \/ (sig = "HUP" /\ ~editing))
          /\ UNCHANGED <<stage, reload, child>>
    /\ UNCHANGED <<caps, uid, container, snapshot, config, edit, ended>>

\* handle_sigterm and handle_sigint call ShutdownHandle::shutdown, which does
\* nothing, and their tasks end.  The others only report or do nothing.
TakeSignal(sig) ==
    /\ Handling /\ sig \in pending \ ended /\ sig \notin {"HUP", "CHLD"}
    /\ pending' = pending \ {sig}
    /\ ended' = ended \cup ({sig} \cap {"TERM", "INT"})
    /\ UNCHANGED <<process, config, edit, sent, fresh, reload, child>>

\* The task of SIGHUP calls handle_reload: the file is read.
TakeHup ==
    /\ Handling /\ "HUP" \in pending /\ reload = None
    /\ pending' = pending \ {"HUP"}
    /\ reload' = file
    /\ UNCHANGED <<process, config, edit, ended, sent, fresh, child>>

\* It cannot be read in time, or does not parse or validate: nothing changes.
\* It can always be read once nobody edits it.
ReloadFails ==
    /\ Alive /\ reload # None
    /\ reload \notin Valid \/ editing
    /\ reload' = None
    /\ UNCHANGED <<process, config, edit, signals, child>>

Accepts_Any == reload # None

Accepts == reload \in Valid

Apply_SkipsOthers ==
    /\ Alive
    /\ reload # None /\ Accepts
    /\ config' = reload
    /\ reload' = None
    /\ pending' = pending \ {"HUP"}
    /\ UNCHANGED <<process, edit, ended, sent, fresh, child>>

\* The shared configuration is replaced under its write lock.
Apply ==
    /\ Alive
    /\ reload # None /\ Accepts
    /\ config' = reload
    /\ reload' = None
    /\ UNCHANGED <<process, edit, signals, child>>

-----------------------------------------------------------------------------
(* Lease scripts *)

\* A DHCP task starts a script and waits for it.
SpawnScript(s) ==
    /\ stage = "run" /\ child[s].state = "new"
    /\ child' = [child EXCEPT ![s] = [state |-> "alive", wait |-> "waiting"]]
    /\ UNCHANGED <<process, config, edit, signals, reload>>

\* The script ends; SIGCHLD wakes its waiter and the task of handle_sigchld.
ChildExits(s) ==
    /\ child[s].state = "alive"
    /\ child' = [child EXCEPT ![s].state = "zombie"]
    /\ pending' = IF Handling THEN pending \cup {"CHLD"} ELSE pending
    /\ UNCHANGED <<process, config, edit, ended, sent, fresh, reload>>

\* The waiter takes the status of a zombie; if handle_sigchld was there first
\* there is no such child, and the script counts as failed.
WaitOver(s) ==
    /\ Alive /\ child[s].wait = "waiting"
    /\ \/ /\ child[s].state = "zombie"
          /\ child' = [child EXCEPT ![s] = [state |-> "reaped", wait |-> "status"]]
       \/ /\ child[s].state = "reaped"
          /\ child' = [child EXCEPT ![s].wait = "failed"]
    /\ UNCHANGED <<process, config, edit, signals, reload>>

\* After DEFAULT_SCRIPT_TIMEOUT_SECS nobody waits for the script any more.
WaitTimesOut(s) ==
    /\ Alive /\ child[s].wait = "waiting" /\ child[s].state = "alive"
    /\ child' = [child EXCEPT ![s].wait = "failed"]
    /\ UNCHANGED <<process, config, edit, signals, reload>>

Zombies == {s \in Script : child[s].state = "zombie"}

Reapable_One ==
    IF Zombies = {} THEN {} ELSE {CHOOSE s \in Zombies : TRUE}

\* handle_sigchld: waitpid(-1) until no child is left to reap.
Reapable == Zombies

TakeChld ==
    /\ Handling /\ "CHLD" \in pending
    /\ pending' = pending \ {"CHLD"}
    /\ child' = [s \in Script |-> IF s \in Reapable THEN [child[s] EXCEPT !.state = "reaped"]
                                  ELSE child[s]]
    /\ UNCHANGED <<process, config, edit, ended, sent, fresh, reload>>

-----------------------------------------------------------------------------
Start == Load \/ BuildServices \/ BindSockets \/ SetupSignalHandlers \/ DropPrivileges \/ Ready

Serve == TakeHup \/ ReloadFails \/ Apply \/ TakeChld \/ (\E sig \in Signal : TakeSignal(sig))

Next ==
    \/ Start \/ Serve
    \/ EditStart \/ EditEnd
    \/ \E sig \in Signal : Raise(sig)
    \/ \E s \in Script : SpawnScript(s) \/ ChildExits(s) \/ WaitOver(s) \/ WaitTimesOut(s)

\* The runtime polls every task that is ready, and an edit comes to its end.
Spec ==
    /\ Init /\ [][Next]_vars
    /\ WF_vars(Start) /\ WF_vars(TakeHup) /\ WF_vars(Apply \/ ReloadFails) /\ WF_vars(TakeChld)
    /\ WF_vars(EditEnd)
    /\ \A s \in Script : WF_vars(WaitOver(s))

-----------------------------------------------------------------------------
(* Properties *)

\* Every variable keeps its type.
TypeOK ==
    /\ stage \in Stage
    /\ container \in BOOLEAN /\ caps \subseteq Cap /\ uid \in {"root", "user"}
    /\ config \in Config \cup {None} /\ snapshot \in Config \cup {None}
    /\ file \in Config /\ editing \in BOOLEAN /\ edits \in 0..MaxEdits
    /\ pending \subseteq Signal /\ ended \subseteq {"TERM", "INT"} /\ sent \in 0..MaxSignals
    /\ reload \in Config \cup {None}
    /\ child \in [Script -> [state : {"new", "alive", "zombie", "reaped"},
                             wait : {"none", "waiting", "status", "failed"}]]

\* Whatever is in the file while somebody edits it, and however often it is
\* loaded, the shared configuration is one that passed validation.
ConfigIsValid == stage \notin {"load", "exited"} => config \in Valid

\* Outside a container a daemon that serves is not root, whichever step of the
\* change of user failed.
ServesUnprivileged == stage = "run" /\ ~container => uid = "user"

\* The daemon serves with a valid configuration and without root.
DaemonIsSound == TypeOK /\ ConfigIsValid /\ ServesUnprivileged

\* A SIGHUP sent after the last edit is not lost in a reload that is under way:
\* in the end the daemon has the configuration of the file, if it is acceptable.
LastReloadWins ==
    []<>(fresh /\ Alive /\ ~editing /\ file \in Valid => config = file)

\* No script stays a zombie, although SIGCHLD of several children may come as one
\* signal and although two tasks reap.
ZombiesAreReaped ==
    \A s \in Script :
        child[s].state = "zombie" /\ Alive ~> child[s].state # "zombie" \/ ~Alive

\* Everybody who waits for a script hears of its end once.
WaitersWake ==
    \A s \in Script : child[s].state \in {"zombie", "reaped"} ~> child[s].wait # "waiting"

\* Scripts that end, together or one by one, are reaped and reported, whichever of
\* the two tasks that reap is first.
ChildrenAreCleared == ZombiesAreReaped /\ WaitersWake

=============================================================================
