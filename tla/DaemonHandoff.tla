---------------------------- MODULE DaemonHandoff ----------------------------
(***************************************************************************)
(* How one cleanup daemon comes to serve, is replaced and ends             *)
(* (internal/cleanup/daemon/server.go and client.go, internal/cleanup/     *)
(* agent).  A daemon serves while it holds the serve lock; its socket is a *)
(* path that the next one removes and its own listener unlinks.  A client  *)
(* that connects replaces a daemon outdated for it: under the start lock   *)
(* it pins the process that greets it, asks it to stop, waits for it to    *)
(* be gone, and installs and applies the LaunchAgent under the serve lock. *)
(* A client that reaches only greets.                                      *)
(*                                                                         *)
(* Daemons are numbered as they are started: a number is what the kernel   *)
(* calls the unique id of a process, which is never used again, where a    *)
(* pid is.                                                                 *)
(***************************************************************************)
EXTENDS Integers, FiniteSets

CONSTANTS
    Client,
    Pid,
    Installs,     \* the version of each client
    Version,
    Release,      \* the versions that are clean releases, ordered as numbers
    Speaks,       \* the protocol of each version
    None, Free, Other,
    MaxDaemons,   \* bound on daemons started
    MaxMishaps    \* bound on crashes, signals, failed engines and clients that die

Daemon == 1 .. MaxDaemons

ASSUME VersionAssumption == /\ Release \subseteq Version /\ Version \subseteq Nat
                            /\ Speaks \in [Version -> Nat] /\ Installs \in [Client -> Version]
ASSUME SizeAssumption    == {MaxDaemons, MaxMishaps} \subseteq Nat
ASSUME NameAssumption    == /\ {None, Free, Other} \cap (Daemon \cup Client) = {}
                            /\ Cardinality({None, Free, Other}) = 3 /\ Client \cap Daemon = {}

VARIABLES
  \* The machine.
    serveLock,   \* who holds it
    startLock,
    path,        \* the daemon whose socket is at the socket's path
    program,     \* the version of the daemon's own copy of the program
    managed,     \* the daemon launchd started last
    occupant,    \* the process behind each pid
    mishaps,
  \* The daemons.
    born,        \* daemons started so far
    phase, pid, version,
    asked,       \* the daemons a client has asked to stop
    attached,    \* the daemons on which a client holds a connection open
  \* The clients.
    pc,
    conn,        \* the daemon it is connected to
    seen         \* the pid it greeted, and the process it found behind that pid

machine == <<serveLock, startLock, path, program, managed, occupant, mishaps>>
daemons == <<born, phase, pid, version, asked, attached>>
clients == <<pc, conn, seen>>
vars    == <<machine, daemons, clients>>

-----------------------------------------------------------------------------
Listens == {"serving", "closing", "closed"}             \* the socket accepts
Holds   == Listens \cup {"locked", "bare", "draining", "drained"}
Live    == Holds \cup {"starting", "exiting"}
Over    == {"ended", "failed"}

Claims  == {"install", "apply", "applied"}
Starts  == Claims \cup {"greet", "check", "pin", "hello", "stop", "verify", "send", "poll",
                        "exit", "launch", "ready"}
Active  == Starts \cup {"probe", "lock", "reach", "vacant"}
Answers == {"done", "none", "error"}

\* Each lock is held by a process that is using it.
TypeOK ==
    /\ serveLock \in {None} \cup {d \in Daemon : phase[d] \in Holds}
                            \cup {c \in Client : pc[c] \in Claims}
    /\ startLock \in {None} \cup {c \in Client : pc[c] \in Starts}
    /\ path \in Daemon \cup {None} /\ managed \in Daemon \cup {None}
    /\ program \in Version \cup {None}
    /\ occupant \in [Pid -> Daemon \cup {Free, Other}]
    /\ mishaps \in 0 .. MaxMishaps /\ born \in 0 .. MaxDaemons
    /\ phase \in [Daemon -> Live \cup Over \cup {"unborn"}]
    /\ pid \in [Daemon -> Pid \cup {None}] /\ version \in [Daemon -> Version \cup {None}]
    /\ asked \subseteq Daemon /\ attached \subseteq Daemon
    /\ pc \in [Client -> Active \cup Answers \cup {"dead"}]
    /\ conn \in [Client -> Daemon \cup {None}]
    /\ seen \in [Client -> [pid : Pid \cup {None}, unique : Daemon \cup {Free, Other, None}]]

Unseen == [pid |-> None, unique |-> None]

Init ==
    /\ serveLock = None /\ startLock = None /\ path = None /\ program = None /\ managed = None
    /\ occupant = [p \in Pid |-> Free] /\ mishaps = 0
    /\ born = 0 /\ phase = [d \in Daemon |-> "unborn"]
    /\ pid = [d \in Daemon |-> None] /\ version = [d \in Daemon |-> None]
    /\ asked = {} /\ attached = {}
    /\ pc \in [Client -> {"probe", "reach"}] /\ conn = [c \in Client |-> None]
    /\ seen = [c \in Client |-> Unseen]

Listening(d) == path = d /\ phase[d] \in Listens
Refused      == \A d \in Daemon : ~Listening(d)

Mishap == mishaps < MaxMishaps /\ mishaps' = mishaps + 1

-----------------------------------------------------------------------------
\* A daemon: Serve, from its lock to its exit.

\* A process of version v starts behind pid p.
Spawn(v, p) ==
    /\ born < MaxDaemons /\ occupant[p] = Free /\ v \in Version
    /\ born'     = born + 1
    /\ phase'    = [phase EXCEPT ![born + 1] = "starting"]
    /\ pid'      = [pid EXCEPT ![born + 1] = p]
    /\ version'  = [version EXCEPT ![born + 1] = v]
    /\ occupant' = [occupant EXCEPT ![p] = born + 1]
    /\ UNCHANGED <<serveLock, startLock, path, program, mishaps, asked, attached, clients>>

\* `ccx vcs cleanup serve', by hand.
Serve(v, p) == Spawn(v, p) /\ UNCHANGED managed

Step(d, from, to) ==
    /\ phase[d] = from /\ phase' = [phase EXCEPT ![d] = to]
    /\ UNCHANGED <<startLock, program, managed, born, pid, version, asked, clients>>

Freed(d) == [p \in Pid |-> IF occupant[p] = d THEN Free ELSE occupant[p]]

TakeLock(d) ==
    /\ Step(d, "starting", "locked") /\ serveLock = None /\ serveLock' = d
    /\ UNCHANGED <<path, occupant, mishaps, attached>>

\* A client holds the lock for less than ServeLockWait (agent.Options.Timeout):
\* only another daemon outlasts the wait.
GiveUp(d) ==
    /\ Step(d, "starting", "failed") /\ serveLock \in Daemon
    /\ occupant' = Freed(d)
    /\ UNCHANGED <<serveLock, path, mishaps, attached>>

\* Mutant: the socket is removed before the lock is taken.
RemoveSocketEarly(d) ==
    /\ Step(d, "starting", "starting") \/ Step(d, "locked", "bare")
    /\ path' = None /\ UNCHANGED <<serveLock, occupant, mishaps, attached>>

RemoveSocket(d) ==
    /\ Step(d, "locked", "bare")
    /\ path' = None /\ UNCHANGED <<serveLock, occupant, mishaps, attached>>

Listen(d) ==
    /\ Step(d, "bare", "serving") /\ path = None
    /\ path' = d /\ UNCHANGED <<serveLock, occupant, mishaps, attached>>

\* The path is taken, or its socket cannot be made private.
ListenFails(d) ==
    /\ Step(d, "bare", "failed")
    /\ \/ path # None /\ UNCHANGED mishaps
       \/ path = None /\ Mishap
    /\ serveLock' = None /\ occupant' = Freed(d) /\ UNCHANGED <<path, attached>>

\* Somebody's Wait keeps its connection open until its job is done.
Attach(d) ==
    /\ phase[d] = "serving" /\ d \notin attached
    /\ attached' = attached \cup {d}
    /\ UNCHANGED <<machine, born, phase, pid, version, asked, clients>>

Closing(d) ==
    /\ Step(d, "serving", "closing") /\ d \in asked
    /\ UNCHANGED <<serveLock, path, occupant, mishaps, attached>>

\* A signal, or an engine that fails; the second has nothing left to flush.
Interrupt(d) ==
    /\ Step(d, "serving", "closing") \/ Step(d, "serving", "closed")
    /\ Mishap /\ UNCHANGED <<serveLock, path, occupant, attached>>

\* engine.Stop has flushed.
Flush(d) == Step(d, "closing", "closed") /\ UNCHANGED <<serveLock, path, occupant, mishaps, attached>>

\* Whatever is at the path is unlinked.
CloseListener(d) ==
    /\ Step(d, "closed", "draining")
    /\ path' = None /\ UNCHANGED <<serveLock, occupant, mishaps, attached>>

\* closeConns; then work.Wait ends once no handler is left.
\* Mutant: handlers are waited for with their connections open.
HungUpNothing(d) == attached

HungUp(d) == attached \ {d}

Drain(d) ==
    /\ \/ Step(d, "draining", "draining") /\ attached' = HungUp(d)
       \/ Step(d, "draining", "drained") /\ d \notin attached /\ UNCHANGED attached
    /\ UNCHANGED <<serveLock, path, occupant, mishaps>>

Unlock(d) ==
    /\ Step(d, "drained", "exiting")
    /\ serveLock' = None /\ UNCHANGED <<path, occupant, mishaps, attached>>

\* With an error, if its engine, its listener or its lock ended with one.
Exit(d) ==
    /\ Step(d, "exiting", "ended") \/ Step(d, "exiting", "failed")
    /\ occupant' = Freed(d) /\ UNCHANGED <<serveLock, path, mishaps, attached>>

\* A crash leaves the socket behind.
Crash(d) ==
    /\ \E at \in Live : Step(d, at, "failed")
    /\ serveLock' = (IF serveLock = d THEN None ELSE serveLock)
    /\ Mishap /\ occupant' = Freed(d) /\ attached' = attached \ {d} /\ UNCHANGED path

\* launchd restarts the daemon it runs after a failed exit.
Restart(p) ==
    /\ managed # None /\ phase[managed] = "failed"
    /\ Spawn(program, p) /\ managed' = born + 1

\* Another process takes a pid that is free, and ends.
Reuse(p) ==
    /\ \/ occupant[p] = Free /\ Mishap /\ occupant' = [occupant EXCEPT ![p] = Other]
       \/ occupant[p] = Other /\ UNCHANGED mishaps /\ occupant' = [occupant EXCEPT ![p] = Free]
    /\ UNCHANGED <<serveLock, startLock, path, program, managed, daemons, clients>>

-----------------------------------------------------------------------------
\* A client: agent.Connect and agent.Reach.

Outdated(d, c) == IF {d, c} \subseteq Release THEN c > d ELSE d # c

Newer(c, d)   == Speaks[version[d]] > Speaks[Installs[c]]
Stale(c, d)   == \/ Speaks[version[d]] < Speaks[Installs[c]]
                 \/ Speaks[version[d]] = Speaks[Installs[c]] /\ Outdated(version[d], Installs[c])
Current(c, d) == ~Newer(c, d) /\ ~Stale(c, d)

\* Mutant: the serve lock is left behind.
UnlockedStart(c) == serveLock

Unlocked(c) == IF serveLock = c THEN None ELSE serveLock

Ends(c, answer) ==
    /\ pc' = [pc EXCEPT ![c] = answer]
    /\ conn' = [conn EXCEPT ![c] = None] /\ seen' = [seen EXCEPT ![c] = Unseen]
    /\ startLock' = IF startLock = c THEN None ELSE startLock
    /\ serveLock' = Unlocked(c)
    /\ UNCHANGED <<path, program>>

Goes(c, to) ==
    /\ pc' = [pc EXCEPT ![c] = to]
    /\ UNCHANGED <<serveLock, startLock, path, program, conn, seen>>

Quietly == UNCHANGED <<managed, occupant, mishaps, daemons>>

At(c, from) == pc[c] = from /\ Quietly

\* The first hello of Connect, and the only one of Reach; it may always time out.
Probe(c) ==
    /\ At(c, "probe")
    /\ \/ Goes(c, "lock")
       \/ \E d \in Daemon :
            /\ Listening(d) /\ phase[d] = "serving" /\ ~Stale(c, d)
            /\ Ends(c, IF Current(c, d) THEN "done" ELSE "error")

Reach(c) ==
    /\ At(c, "reach")
    /\ \/ Refused /\ Goes(c, "vacant")
       \/ ~Refused /\ Ends(c, "error")
       \/ \E d \in Daemon :
            /\ Listening(d) /\ phase[d] = "serving" /\ Speaks[version[d]] = Speaks[Installs[c]]
            /\ Ends(c, "done")

Vacant(c) ==
    /\ At(c, "vacant")
    /\ Ends(c, IF serveLock = None THEN "none" ELSE "error")

Lock(c) ==
    /\ At(c, "lock")
    /\ \/ /\ startLock = None /\ startLock' = c
          /\ pc' = [pc EXCEPT ![c] = "greet"]
          /\ UNCHANGED <<serveLock, path, program, conn, seen>>
       \/ startLock # None /\ Ends(c, "error")

\* The second, with the greeter pinned: pid by the connection, then the process
\* behind that pid, then its reply.
Greet(c) ==
    /\ At(c, "greet")
    /\ \/ Refused /\ Goes(c, "check")
       \/ \E d \in Daemon :
            /\ Listening(d)
            /\ \/ /\ phase[d] = "serving" /\ conn' = [conn EXCEPT ![c] = d]
                  /\ pc' = [pc EXCEPT ![c] = "pin"]
                  /\ UNCHANGED <<serveLock, startLock, path, program, seen>>
               \/ phase[d] # "serving" /\ Ends(c, "error")

Check(c) ==
    /\ At(c, "check")
    /\ IF serveLock = None THEN Goes(c, "launch") ELSE Ends(c, "error")

Pin(c) ==
    /\ At(c, "pin")
    /\ pc' = [pc EXCEPT ![c] = "hello"]
    /\ seen' = [seen EXCEPT ![c] = [pid |-> pid[conn[c]], unique |-> occupant[pid[conn[c]]]]]
    /\ UNCHANGED <<serveLock, startLock, path, program, conn>>

Hello(c) ==
    /\ At(c, "hello")
    /\ \/ Ends(c, "error")
       \/ /\ phase[conn[c]] \in Listens
          /\ \/ Current(c, conn[c]) /\ Ends(c, "done")
             \/ Stale(c, conn[c]) /\ seen[c].unique # Free /\ Goes(c, "stop")

\* shutdown: on a connection of its own, whose peer must be the one greeted.
Connect(c) ==
    /\ At(c, "stop")
    /\ \/ Refused /\ Ends(c, "error")
       \/ \E d \in Daemon :
            /\ Listening(d)
            /\ conn' = [conn EXCEPT ![c] = d] /\ pc' = [pc EXCEPT ![c] = "verify"]
            /\ UNCHANGED <<serveLock, startLock, path, program, seen>>

\* Mutant: the same pid is the same process.
VerifiedByPid(c) == pid[conn[c]] = seen[c].pid

Verified(c) == pid[conn[c]] = seen[c].pid /\ occupant[seen[c].pid] = seen[c].unique

Verify(c) ==
    /\ At(c, "verify")
    /\ \/ Verified(c) /\ Goes(c, "send")
       \/ /\ ~Verified(c)
          /\ IF pid[conn[c]] = seen[c].pid /\ occupant[seen[c].pid] = Free
             THEN Ends(c, "error") ELSE Goes(c, "ready")

\* The reply may be lost, and so may the request.
Send(c) ==
    /\ pc[c] = "send"
    /\ UNCHANGED <<managed, occupant, mishaps, born, phase, pid, version, attached>>
    /\ \/ Ends(c, "error") /\ UNCHANGED asked
       \/ /\ phase[conn[c]] \in Listens
          /\ asked' = asked \cup {conn[c]}
          /\ \/ Goes(c, "poll")
             \/ Ends(c, "error")

Poll(c) ==
    /\ At(c, "poll")
    /\ \/ Refused
       \/ \E d \in Daemon : Listening(d) /\ pid[d] # seen[c].pid
    /\ Goes(c, "exit")

AwaitExit(c) ==
    /\ At(c, "exit")
    /\ occupant[seen[c].pid] = Free /\ Goes(c, "launch")

\* launch: the program and the agent are changed under the serve lock only.
\* Mutant: the lock is not taken.
ClaimedBlind(c) == TRUE

Claimed(c) == serveLock = None

Claim(c) ==
    /\ At(c, "launch")
    /\ \/ /\ Claimed(c) /\ serveLock' = (IF serveLock = None THEN c ELSE serveLock)
          /\ pc' = [pc EXCEPT ![c] = "install"]
          /\ UNCHANGED <<startLock, path, program, conn, seen>>
       \/ serveLock # None /\ Goes(c, "ready")

InstallProgram(c) ==
    /\ At(c, "install")
    /\ \/ /\ program' = Installs[c] /\ pc' = [pc EXCEPT ![c] = "apply"]
          /\ UNCHANGED <<serveLock, startLock, path, conn, seen>>
       \/ Ends(c, "error")

\* launchd stops the daemon it runs, if any, and starts another.
Stopped == [d \in Daemon |-> IF d = managed /\ phase[d] \in Live THEN "ended" ELSE phase[d]]

Apply(c, p) ==
    /\ pc[c] = "apply"
    /\ occupant[p] \in {Free, managed}
    /\ Goes(c, "applied")
    /\ born < MaxDaemons /\ born' = born + 1
    /\ phase' = [Stopped EXCEPT ![born + 1] = "starting"]
    /\ pid' = [pid EXCEPT ![born + 1] = p] /\ version' = [version EXCEPT ![born + 1] = program]
    /\ managed' = born + 1
    /\ occupant' = [q \in Pid |-> IF q = p THEN born + 1
                                  ELSE IF occupant[q] = managed THEN Free ELSE occupant[q]]
    /\ attached' = attached \ {managed}
    /\ UNCHANGED <<mishaps, asked>>

ApplyFails(c) == At(c, "apply") /\ Ends(c, "error")

Unclaim(c) ==
    /\ At(c, "applied")
    /\ pc' = [pc EXCEPT ![c] = "ready"] /\ serveLock' = Unlocked(c)
    /\ UNCHANGED <<startLock, path, program, conn, seen>>

Ready(c) ==
    /\ At(c, "ready")
    /\ \E d \in Daemon :
         /\ Listening(d) /\ phase[d] = "serving"
         /\ Ends(c, IF Current(c, d) THEN "done" ELSE "error")

\* Mutant: the exit of a process is waited for without bound.
BoundedButExit == {"poll", "ready"}

Bounded == {"poll", "exit", "ready"}

TimeOut(c) == pc[c] \in Bounded /\ Quietly /\ Ends(c, "error")

Die(c) ==
    /\ pc[c] \in Active /\ Mishap
    /\ Ends(c, "dead")
    /\ UNCHANGED <<managed, occupant, daemons>>

-----------------------------------------------------------------------------
DaemonStep(d) ==
    \/ TakeLock(d) \/ GiveUp(d) \/ RemoveSocket(d) \/ Listen(d) \/ ListenFails(d)
    \/ Closing(d) \/ Flush(d) \/ CloseListener(d) \/ Drain(d) \/ Unlock(d) \/ Exit(d)

ClientStep(c) ==
    \/ Probe(c) \/ Reach(c) \/ Vacant(c) \/ Lock(c) \/ Greet(c) \/ Check(c) \/ Pin(c) \/ Hello(c)
    \/ Connect(c) \/ Verify(c) \/ Send(c) \/ Poll(c) \/ AwaitExit(c)
    \/ Claim(c) \/ InstallProgram(c) \/ (\E p \in Pid : Apply(c, p)) \/ ApplyFails(c)
    \/ Unclaim(c) \/ Ready(c) \/ TimeOut(c)

Environment ==
    \/ \E d \in Daemon : Attach(d) \/ Interrupt(d) \/ Crash(d)
    \/ \E p \in Pid : Restart(p) \/ Reuse(p) \/ \E v \in Version : Serve(v, p)
    \/ \E c \in Client : Die(c)

Next == \/ \E d \in Daemon : DaemonStep(d)
        \/ \E c \in Client : ClientStep(c)
        \/ Environment

Spec == Init /\ [][Next]_vars

\* Processes that live are scheduled, and what they wait for with a deadline
\* ends; nothing is promised of the environment.
FairSpec == /\ Spec
            /\ \A d \in Daemon : WF_vars(DaemonStep(d))
            /\ \A c \in Client : WF_vars(ClientStep(c))

-----------------------------------------------------------------------------
\* A daemon that serves can be reached: nobody removes or unlinks the socket
\* under it, and so no two of them run (server.go:47-81, 104-109).
SocketIsServed == \A d \in Daemon : phase[d] \in Listens => path = d

\* A client asks a daemon to stop only if that daemon is outdated for it, which
\* it read from a hello: another daemon may serve the socket by then, behind the
\* same pid even (agent.go:382-423).
OnlyOutdatedStopped ==
    [][\A d \in asked' \ asked : \E c \in Client : pc[c] = "send" /\ pc'[c] # "send" /\ Stale(c, d)]_vars

\* The program and the agent are never changed over a daemon that started first
\* (agent.go:1-5): none holds the lock when either is.
InstallsAlone ==
    [][program' # program \/ (\E c \in Client : pc[c] = "apply" /\ pc'[c] = "applied")
         => \A d \in Daemon : phase[d] \notin Holds]_vars

\* A daemon asked to stop ends, whoever keeps a connection to it open
\* (server.go:105-109).
StopEnds == \A d \in Daemon : d \in asked ~> phase[d] \in Over

\* A client is answered, whatever becomes of the daemon it waits for and of the
\* pid it watches: it holds the start lock that the others wait for
\* (agent.go:399-405, 440-462).
ClientsAnswered == \A c \in Client : pc[c] \in Active ~> pc[c] \notin Active
=============================================================================
