------------------------------- MODULE Daemon -------------------------------
(***************************************************************************)
(* Daemon mode: a parent that keeps a number of workers running, passes    *)
(* SIGTERM and SIGHUP on to them and goes when they are gone, and workers   *)
(* that serve one FastCGI request after the other.  A signal handler only   *)
(* sets a flag; it also makes a wait() or an accept() that is blocked       *)
(* return, but not one that is yet to be called.                            *)
(***************************************************************************)
EXTENDS Integers, FiniteSets

CONSTANTS
    Pids,       \* process ids, reused once their process has been waited for
    instances,  \* the option --instances
    MaxReloads, \* bound on the number of SIGHUPs sent to the parent
    MaxFailures \* bound on the number of workers that end with an exception

ASSUME InstancesAssumption == instances \in 1..100 /\ instances <= Cardinality(Pids)
ASSUME ReloadsAssumption == MaxReloads \in Nat /\ MaxFailures \in Nat

VARIABLES
    parent,               \* where the parent is in daemon_mode
    terminate_requested, reload_requested, \* the parent's flags
    children_terminated,  \* SIGTERM has been passed on
    children,             \* the set of pids the parent keeps
    pidfile,              \* the file exists
    worker,               \* where each process is in process_requests
    term, reload,         \* the flags of the workers
    reloads, failures     \* counted for the bounds

daemonVars == <<parent, terminate_requested, reload_requested, children_terminated, children,
                pidfile, worker, term, reload, reloads, failures>>

parentVars == <<parent, terminate_requested, reload_requested, children_terminated, children,
                pidfile>>
workerVars == <<worker, term, reload>>

\* "free": no process, "zombie": ended and not yet waited for.
WorkerStates == {"free", "starting", "check", "reloading", "accepting", "accept", "serving",
                 "failing", "zombie"}
Alive(p) == worker[p] \notin {"free", "zombie"}

DaemonInit ==
    /\ parent = "loop"
    /\ terminate_requested = FALSE
    /\ reload_requested = FALSE
    /\ children_terminated = FALSE
    /\ children = {}
    /\ pidfile = TRUE
    /\ worker = [p \in Pids |-> "free"]
    /\ term = [p \in Pids |-> FALSE]
    /\ reload = [p \in Pids |-> FALSE]
    /\ reloads = 0
    /\ failures = 0

-----------------------------------------------------------------------------
(* The parent. *)

At(pc) == parent = pc
Goto(pc) == parent' = pc

\* while (!terminate_requested || !children.empty())
LoopCondition_mutant == ~terminate_requested
LoopCondition == ~terminate_requested \/ children # {}

CheckLoop ==
    /\ At("loop")
    /\ Goto(IF LoopCondition THEN "spawn" ELSE "remove")
    /\ UNCHANGED <<terminate_requested, reload_requested, children_terminated, children, pidfile,
                   workerVars, reloads, failures>>

\* The condition of spawn_children's loop; a signal may come before fork().
MoreToSpawn_mutant == Cardinality(children) < instances
MoreToSpawn == ~terminate_requested /\ Cardinality(children) < instances

CheckSpawn ==
    /\ At("spawn")
    /\ Goto(IF MoreToSpawn THEN "fork" ELSE "before_wait")
    /\ UNCHANGED <<terminate_requested, reload_requested, children_terminated, children, pidfile,
                   workerVars, reloads, failures>>

\* fork(): the child has the parent's flags.
Fork(p) ==
    /\ At("fork")
    /\ worker[p] = "free"
    /\ worker' = [worker EXCEPT ![p] = "starting"]
    /\ term' = [term EXCEPT ![p] = terminate_requested]
    /\ reload' = [reload EXCEPT ![p] = reload_requested]
    /\ children' = children \cup {p}
    /\ Goto("spawn")
    /\ UNCHANGED <<terminate_requested, reload_requested, children_terminated, pidfile,
                   reloads, failures>>

\* fork() fails: the exception leaves daemon_mode and main returns 1.
ForkFails ==
    /\ At("fork")
    /\ failures < MaxFailures
    /\ failures' = failures + 1
    /\ Goto("failed")
    /\ UNCHANGED <<terminate_requested, reload_requested, children_terminated, children, pidfile,
                   workerVars, reloads>>

\* wait() is called: ECHILD, and an exception, when there is no child.
CallWait ==
    /\ At("before_wait")
    /\ Goto(IF \A p \in Pids : worker[p] = "free" THEN "failed" ELSE "wait")
    /\ UNCHANGED <<terminate_requested, reload_requested, children_terminated, children, pidfile,
                   workerVars, reloads, failures>>

\* wait() returns a child that has ended, and nothing is left of its process.
\* (It returns EINTR in Sigterm and Sighup.)
Reaped_mutant(p) == children
Reaped(p) == children \ {p}

\* Mutant: the loop goes on to its next round once a child has been waited for.
Wait_mutant(p) ==
    /\ At("wait")
    /\ worker[p] = "zombie"
    /\ worker' = [worker EXCEPT ![p] = "free"]
    /\ term' = [term EXCEPT ![p] = FALSE]
    /\ reload' = [reload EXCEPT ![p] = FALSE]
    /\ children' = Reaped(p)
    /\ Goto("loop")
    /\ UNCHANGED <<terminate_requested, reload_requested, children_terminated, pidfile,
                   reloads, failures>>

Wait(p) ==
    /\ At("wait")
    /\ worker[p] = "zombie"
    /\ worker' = [worker EXCEPT ![p] = "free"]
    /\ term' = [term EXCEPT ![p] = FALSE]
    /\ reload' = [reload EXCEPT ![p] = FALSE]
    /\ children' = Reaped(p)
    /\ Goto("terminate")
    /\ UNCHANGED <<terminate_requested, reload_requested, children_terminated, pidfile,
                   reloads, failures>>

\* A blocked accept() that a signal interrupts fails with EINTR
\* (FCGI_FAIL_ACCEPT_ON_INTR) and the worker is back at the head of its loop.
Interrupted(p) == IF worker[p] = "accept" THEN "check" ELSE worker[p]

\* signal_children(children, SIGTERM), once.
TerminateChildren ==
    /\ At("terminate")
    /\ IF terminate_requested /\ ~children_terminated
       THEN /\ term' = [p \in Pids |-> term[p] \/ (p \in children /\ Alive(p))]
            /\ worker' = [p \in Pids |-> IF p \in children THEN Interrupted(p) ELSE worker[p]]
            /\ children_terminated' = TRUE
       ELSE UNCHANGED <<term, worker, children_terminated>>
    /\ Goto("reload")
    /\ UNCHANGED <<terminate_requested, reload_requested, children, pidfile, reload, reloads,
                   failures>>

\* signal_children(children, SIGHUP); the flag is reset afterwards.
ReloadChildren ==
    /\ At("reload")
    /\ IF reload_requested
       THEN LET hit(p) == p \in children /\ Alive(p)
            IN /\ reload' = [p \in Pids |-> reload[p] \/ hit(p)]
               /\ worker' = [p \in Pids |-> IF hit(p) THEN Interrupted(p) ELSE worker[p]]
               /\ Goto("reset")
       ELSE /\ Goto("loop")
            /\ UNCHANGED <<reload, worker>>
    /\ UNCHANGED <<terminate_requested, reload_requested, children_terminated, children, pidfile,
                   term, reloads, failures>>

ResetReload ==
    /\ At("reset")
    /\ reload_requested' = FALSE
    /\ Goto("loop")
    /\ UNCHANGED <<terminate_requested, children_terminated, children, pidfile, workerVars,
                   reloads, failures>>

RemovePidfile ==
    /\ At("remove")
    /\ pidfile' = FALSE
    /\ Goto("exited")
    /\ UNCHANGED <<terminate_requested, reload_requested, children_terminated, children,
                   workerVars, reloads, failures>>

\* The handlers terminate and reload, in the parent.
Running == parent \notin {"failed", "exited"}
Woken == IF At("wait") THEN "terminate" ELSE parent

Sigterm ==
    /\ Running
    /\ ~terminate_requested
    /\ terminate_requested' = TRUE
    /\ Goto(Woken)
    /\ UNCHANGED <<reload_requested, children_terminated, children, pidfile, workerVars,
                   reloads, failures>>

Sighup ==
    /\ Running
    /\ reloads < MaxReloads
    /\ reloads' = reloads + 1
    /\ reload_requested' = TRUE
    /\ Goto(Woken)
    /\ UNCHANGED <<terminate_requested, children_terminated, children, pidfile, workerVars,
                   failures>>

-----------------------------------------------------------------------------
(* The workers. *)

Move(p, from, to) == worker[p] = from /\ worker' = [worker EXCEPT ![p] = to]

\* process_requests up to its loop: the log is opened and the connections
\* are made.
Initialised(p) ==
    /\ Move(p, "starting", "check")
    /\ UNCHANGED <<parentVars, term, reload, reloads, failures>>

\* The head of the loop: leave, process a reload request, or go on to accept.
\* exit(0) makes a zombie of the process, as there is a parent to wait for it.
Check(p) ==
    /\ \/ term[p] /\ Move(p, "check", "zombie")
       \/ ~term[p] /\ reload[p] /\ Move(p, "check", "reloading")
       \/ ~term[p] /\ ~reload[p] /\ Move(p, "check", "accepting")
    /\ UNCHANGED <<parentVars, term, reload, reloads, failures>>

\* The log has been opened again: the flag is reset, with a SIGHUP that came
\* in the meantime.
Reloaded(p) ==
    /\ Move(p, "reloading", "accepting")
    /\ reload' = [reload EXCEPT ![p] = FALSE]
    /\ UNCHANGED <<parentVars, term, reloads, failures>>

\* accept() is called, and blocks until there is a request.
CallAccept(p) ==
    /\ Move(p, "accepting", "accept")
    /\ UNCHANGED <<parentVars, term, reload, reloads, failures>>

Request(p) ==
    /\ Move(p, "accept", "serving")
    /\ UNCHANGED <<parentVars, term, reload, reloads, failures>>

\* Mutant: requests are taken in an inner loop that does not look at the flag.
Served_mutant(p) ==
    /\ Move(p, "serving", "accepting")
    /\ UNCHANGED <<parentVars, term, reload, reloads, failures>>

Served(p) ==
    /\ Move(p, "serving", "check")
    /\ UNCHANGED <<parentVars, term, reload, reloads, failures>>

\* An exception from create_backend, from process_request, or from accept_r for
\* an error other than EINTR.
Throw(p) ==
    /\ failures < MaxFailures
    /\ failures' = failures + 1
    /\ \E from \in {"starting", "accept", "serving"} : Move(p, from, "failing")
    /\ UNCHANGED <<parentVars, term, reload, reloads>>

\* handle_child_process sleeps for what is left of a second and exits.
Die(p) ==
    /\ Move(p, "failing", "zombie")
    /\ UNCHANGED <<parentVars, term, reload, reloads, failures>>

-----------------------------------------------------------------------------

Parent ==
    \/ CheckLoop \/ CheckSpawn \/ CallWait \/ TerminateChildren \/ ReloadChildren \/ ResetReload
    \/ RemovePidfile
    \/ \E p \in Pids : Fork(p) \/ Wait(p)

Worker(p) ==
    Initialised(p) \/ Check(p) \/ Reloaded(p) \/ CallAccept(p) \/ Served(p) \/ Die(p)

DaemonNext ==
    \/ Parent
    \/ ForkFails
    \/ Sigterm
    \/ Sighup
    \/ \E p \in Pids : Worker(p) \/ Request(p) \/ Throw(p)

\* The processes run; signals, requests and failures may come or not.
DaemonSpec ==
    /\ DaemonInit /\ [][DaemonNext]_daemonVars
    /\ WF_daemonVars(Parent)
    /\ \A p \in Pids : WF_daemonVars(Worker(p))

-----------------------------------------------------------------------------
(* Properties. *)

DaemonTypeOK ==
    /\ parent \in {"loop", "spawn", "fork", "before_wait", "wait", "terminate", "reload", "reset",
                   "remove", "exited", "failed"}
    /\ terminate_requested \in BOOLEAN
    /\ reload_requested \in BOOLEAN
    /\ children_terminated \in BOOLEAN
    /\ children \subseteq Pids
    /\ pidfile \in BOOLEAN
    /\ worker \in [Pids -> WorkerStates]
    /\ term \in [Pids -> BOOLEAN]
    /\ reload \in [Pids -> BOOLEAN]
    /\ reloads \in 0..MaxReloads
    /\ failures \in 0..MaxFailures

\* The parent never signals a process that is not its child (a pid it has
\* waited for may belong to someone else), it knows every child it has to
\* wait for, and there are never more than --instances.
ChildrenExact ==
    /\ children = {p \in Pids : worker[p] # "free"}
    /\ Cardinality(children) <= instances

\* When the daemon has left in the regular way, nothing is left of it:
\* neither a worker that still serves requests nor the pid file.
CleanShutdown ==
    parent = "exited" => /\ \A p \in Pids : worker[p] = "free"
                         /\ ~pidfile

\* No worker gets out of the parent's sight, neither while daemon_mode runs nor
\* when it returns.
WorkersInSight == ChildrenExact /\ CleanShutdown

\* Requests keep arriving at every worker that is ready to take one.
RequestsArrive == \A p \in Pids : WF_daemonVars(Request(p))

\* A worker that ended, for whatever reason, is waited for.  It is replaced, and
\* the daemon is back at --instances workers, unless a SIGTERM comes.  If one has
\* come, SIGTERM is passed on to the others, unless none is left: also one that
\* came when the parent had looked at its flag and not yet called wait(), which
\* it did not interrupt.
WorkersReplaced ==
    LET ended == \E p \in Pids : worker[p] = "zombie"
    IN  /\ ended ~> \/ Cardinality({p \in Pids : Alive(p)}) = instances
                    \/ terminate_requested
                    \/ ~Running
        /\ ended /\ terminate_requested ~> children_terminated \/ ~Running

\* A worker that was sent a SIGTERM leaves without taking a further request,
\* whatever it is doing; the one that has looked at the flag already and not
\* yet called accept() leaves after the one request it then takes.  No
\* request has to arrive for that.
WorkerLeaves ==
    \A p \in Pids :
        (term[p] /\ worker[p] \in {"starting", "check", "serving", "failing"}) ~> ~Alive(p)

\* Once SIGTERM has been passed on the daemon goes down, provided requests
\* keep arriving: a worker that was about to call accept() notices the
\* flag only after its next request, and is not signalled again.
GoesDown == RequestsArrive => (children_terminated ~> ~Running)

=============================================================================
