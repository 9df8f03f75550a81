------------------------- MODULE DaemonHandoffProofs -------------------------
(***************************************************************************)
(* Proofs about DaemonHandoff, for any clients, pids, versions and bounds: *)
(* its types, that no daemon serves behind a socket that is gone, that     *)
(* nothing is installed over a daemon that started first, and that only a  *)
(* daemon outdated for a client is asked by it to stop.                    *)
(*                                                                         *)
(* The invariant says what the two locks and the pids stand for.  A        *)
(* daemon past its lock holds it and a client that installs does; a        *)
(* process alive is the one behind its pid, and a number is never used     *)
(* again, so a daemon pinned while it greeted is either still that one or  *)
(* gone for good.                                                          *)
(***************************************************************************)
EXTENDS DaemonHandoff, TLAPS

-----------------------------------------------------------------------------
Started(d) == phase[d] # "unborn"

\* Who is past the serve lock holds it.
LocksHeld == /\ \A d \in Daemon : phase[d] \in Holds => serveLock = d
             /\ \A c \in Client : pc[c] \in Claims => serveLock = c

\* A process that lives is the one behind its pid.
Numbers == /\ \A d \in Daemon : Started(d) <=> d <= born
           /\ \A d \in Daemon : Started(d) => pid[d] \in Pid
           /\ \A d \in Daemon : phase[d] \in Live => occupant[pid[d]] = d
           /\ \A p \in Pid : occupant[p] \in Daemon => phase[occupant[p]] \in Live

\* What a client has pinned: the daemon that greets it, as long as that one
\* lives, then the daemon that greeted it and is outdated for it.
Pinned(c) == /\ seen[c].unique \in Daemon /\ Started(seen[c].unique)
             /\ pid[seen[c].unique] = seen[c].pid
             /\ Stale(c, seen[c].unique)

PinsOf(c) ==
    /\ pc[c] \in {"pin", "hello", "verify", "send"} => conn[c] \in Daemon /\ Started(conn[c])
    /\ pc[c] = "hello" => /\ seen[c].pid = pid[conn[c]]
                          /\ phase[conn[c]] \in Live => seen[c].unique = conn[c]
    /\ pc[c] \in {"stop", "verify", "send"} => Pinned(c)
    /\ pc[c] \in {"stop", "verify", "send", "poll", "exit"} => seen[c].pid \in Pid
    /\ pc[c] = "verify" /\ pid[conn[c]] = seen[c].pid /\ conn[c] # seen[c].unique
         => phase[seen[c].unique] \notin Live
    /\ pc[c] = "send" => conn[c] = seen[c].unique

Pins == \A c \in Client : PinsOf(c)

IInv == TypeOK /\ LocksHeld /\ SocketIsServed /\ Numbers /\ Pins

USE NameAssumption, VersionAssumption, SizeAssumption

-----------------------------------------------------------------------------
LEMMA Initially == Init => IInv
<1> SUFFICES ASSUME Init PROVE IInv
    OBVIOUS
<1>1. TypeOK
    BY DEF Init, TypeOK, Daemon, Unseen, Active, Live, Holds, Listens
<1>2. LocksHeld /\ SocketIsServed /\ Numbers /\ Pins
    BY DEF Init, LocksHeld, SocketIsServed, Numbers, Pins, PinsOf, Started, Daemon, Live, Holds,
           Listens, Claims
<1> QED BY <1>1, <1>2 DEF IInv

\* What no step may do to a daemon that has started.
Stays(e) == Started(e) => /\ phase'[e] # "unborn"
                          /\ pid'[e] = pid[e] /\ version'[e] = version[e]
                          /\ phase'[e] \in Live => phase[e] \in Live

\* Whatever keeps the clients, and brings nobody back to life, keeps the pins.
LEMMA DeadStay ==
  ASSUME TypeOK, Pins, UNCHANGED <<conn, seen>>,
         \A c \in Client : pc'[c] = pc[c] \/ pc'[c] = "applied",
         \A e \in Daemon : Stays(e)
  PROVE  Pins'
<1> SUFFICES ASSUME NEW c \in Client PROVE PinsOf(c)'
    BY DEF Pins
<1>1. Pinned(c) => Pinned(c)'
    BY DEF Stays, Pinned, Started, Stale
<1> QED BY <1>1 DEF Stays, Pins, PinsOf, Pinned, Started

LEMMA PinsFrame ==
  ASSUME TypeOK, Pins, UNCHANGED clients,
         \A e \in Daemon : Stays(e)
  PROVE  Pins'
BY DeadStay DEF clients

\* One step of one daemon: it holds the lock or leaves it to whoever has it,
\* touches the path only under it, and leaves its pid when it is over.
LEMMA StepKeeps ==
  ASSUME IInv, NEW d \in Daemon, NEW from \in Live, NEW to \in Live \cup Over, Step(d, from, to),
         serveLock' = serveLock \/ (serveLock \in {None, d} /\ serveLock' \in {None, d}),
         to \in Holds <=> serveLock' = d,
         path' = path \/ (from \in Holds /\ path' \in {None, d}),
         to \in Listens => path' = d,
         to \in Live => UNCHANGED occupant, to \in Over => occupant' = Freed(d),
         mishaps' \in 0 .. MaxMishaps, attached' \subseteq Daemon
  PROVE  IInv'
<1> USE DEF IInv, Step
<1>1. TypeOK'
  <2>1. serveLock' \in {None} \cup {e \in Daemon : phase'[e] \in Holds}
                              \cup {c \in Client : pc'[c] \in Claims}
    BY DEF TypeOK, clients
  <2>2. startLock' \in {None} \cup {c \in Client : pc'[c] \in Starts}
    BY DEF TypeOK, clients
  <2>3. occupant' \in [Pid -> Daemon \cup {Free, Other}] /\ path' \in Daemon \cup {None}
    BY DEF TypeOK, Freed
  <2> QED BY <2>1, <2>2, <2>3 DEF TypeOK, clients
<1>2. LocksHeld'
    BY DEF TypeOK, LocksHeld, clients
<1>3. SocketIsServed'
    BY DEF TypeOK, LocksHeld, SocketIsServed, Holds
<1>4. Numbers'
  <2>1. \A e \in Daemon : /\ (Started(e) <=> e <= born)'
                          /\ (Started(e) => pid[e] \in Pid)'
    BY DEF TypeOK, Numbers, Started, Live, Holds, Listens, Over
  <2>2. \A e \in Daemon : (phase[e] \in Live => occupant[pid[e]] = e)'
    BY DEF TypeOK, Numbers, Started, Freed, Live, Holds, Listens, Over
  <2>3. \A p \in Pid : (occupant[p] \in Daemon => phase[occupant[p]] \in Live)'
    BY DEF TypeOK, Numbers, Freed
  <2> QED BY <2>1, <2>2, <2>3 DEF Numbers
<1>5. Pins'
    BY PinsFrame DEF Stays, Started, Live, Holds, Listens, Over, TypeOK
<1> QED BY <1>1, <1>2, <1>3, <1>4, <1>5

LEMMA DaemonKeeps ==
  ASSUME IInv, NEW d \in Daemon, DaemonStep(d)
  PROVE  IInv'
<1> USE DEF Live, Holds, Listens, Over
<1>1. /\ mishaps \in 0 .. MaxMishaps /\ attached \subseteq Daemon
      /\ phase[d] \in Holds => serveLock = d
      /\ serveLock = d => phase[d] \in Holds
      /\ phase[d] \in Listens => path = d
    BY DEF IInv, TypeOK, LocksHeld, SocketIsServed
<1>2. CASE TakeLock(d)
    BY <1>1, <1>2, StepKeeps DEF TakeLock, Step
<1>3. CASE GiveUp(d)
    BY <1>1, <1>3, StepKeeps DEF GiveUp, Step
<1>4. CASE RemoveSocket(d)
    BY <1>1, <1>4, StepKeeps DEF RemoveSocket, Step
<1>5. CASE Listen(d)
    BY <1>1, <1>5, StepKeeps DEF Listen, Step
<1>6. CASE ListenFails(d)
  <2>1. /\ Step(d, "bare", "failed") /\ occupant' = Freed(d) /\ UNCHANGED <<path, attached>>
        /\ serveLock = d /\ serveLock' = None
    BY <1>1, <1>6 DEF ListenFails, Step
  <2>2. mishaps' \in 0 .. MaxMishaps
    BY <1>1, <1>6 DEF ListenFails, Mishap
  <2> QED BY <1>1, <2>1, <2>2, StepKeeps
<1>7. CASE Closing(d)
    BY <1>1, <1>7, StepKeeps DEF Closing, Step
<1>8. CASE Flush(d)
    BY <1>1, <1>8, StepKeeps DEF Flush, Step
<1>9. CASE CloseListener(d)
    BY <1>1, <1>9, StepKeeps DEF CloseListener, Step
<1>10. CASE Drain(d)
    BY <1>1, <1>10, StepKeeps DEF Drain, HungUp, Step
<1>11. CASE Unlock(d)
    BY <1>1, <1>11, StepKeeps DEF Unlock, Step
<1>12. CASE Exit(d)
    BY <1>1, <1>12, StepKeeps DEF Exit, Step
<1> QED BY <1>2, <1>3, <1>4, <1>5, <1>6, <1>7, <1>8, <1>9, <1>10, <1>11, <1>12 DEF DaemonStep

\* A step of a client that stays out of the daemons keeps what is about them.
LEMMA DaemonsFrame ==
  ASSUME IInv, UNCHANGED <<path, phase, pid, version, born, occupant>>
  PROVE  SocketIsServed' /\ Numbers'
BY DEF IInv, SocketIsServed, Numbers, Started

\* ... and the pins of the other clients.
LEMMA OthersFrame ==
  ASSUME Pins, NEW c \in Client, UNCHANGED <<phase, pid, version, occupant>>,
         \A b \in Client \ {c} : pc'[b] = pc[b] /\ conn'[b] = conn[b] /\ seen'[b] = seen[b],
         PinsOf(c)'
  PROVE  Pins'
<1> SUFFICES ASSUME NEW b \in Client, b # c PROVE PinsOf(b)'
    BY DEF Pins
<1>1. Pinned(b) => Pinned(b)'
    BY DEF Pinned, Started, Stale
<1> QED BY <1>1 DEF Pins, PinsOf, Pinned, Started

LEMMA Ending ==
  ASSUME IInv, NEW c \in Client, NEW answer \in Answers \cup {"dead"}, Ends(c, answer),
         mishaps' \in 0 .. MaxMishaps, asked' \subseteq Daemon,
         UNCHANGED <<managed, occupant, born, phase, pid, version, attached>>
  PROVE  IInv'
<1> USE DEF IInv, Ends, Unlocked
<1>1. TypeOK'
    BY DEF TypeOK, LocksHeld, Unseen, Claims, Starts, Active, Answers
<1>2. LocksHeld'
    BY DEF TypeOK, LocksHeld, Claims, Answers, Holds, Listens, Daemon
<1>3. SocketIsServed' /\ Numbers'
    BY DaemonsFrame
<1>4. PinsOf(c)'
    BY DEF PinsOf, TypeOK, Answers
<1>5. Pins'
    BY <1>4, OthersFrame DEF TypeOK
<1> QED BY <1>1, <1>2, <1>3, <1>5

LEMMA Moving ==
  ASSUME IInv, NEW c \in Client, NEW to \in Active,
         pc' = [pc EXCEPT ![c] = to],
         pc[c] \notin Claims, to \notin Claims, pc[c] \in Starts => to \in Starts,
         conn' \in [Client -> Daemon \cup {None}],
         seen' \in [Client -> [pid : Pid \cup {None}, unique : Daemon \cup {Free, Other, None}]],
         \A b \in Client \ {c} : conn'[b] = conn[b] /\ seen'[b] = seen[b],
         asked' \subseteq Daemon, PinsOf(c)',
         UNCHANGED <<machine, born, phase, pid, version, attached>>
  PROVE  IInv'
<1> USE DEF IInv, machine
<1>1. TypeOK'
  <2>1. serveLock' \in {None} \cup {d \in Daemon : phase'[d] \in Holds}
                              \cup {b \in Client : pc'[b] \in Claims}
    BY DEF TypeOK
  <2>2. startLock' \in {None} \cup {b \in Client : pc'[b] \in Starts}
    BY DEF TypeOK
  <2> QED BY <2>1, <2>2 DEF TypeOK
<1>2. LocksHeld'
    BY DEF TypeOK, LocksHeld
<1>3. SocketIsServed' /\ Numbers'
    BY DaemonsFrame
<1>4. Pins'
    BY OthersFrame DEF TypeOK
<1> QED BY <1>1, <1>2, <1>3, <1>4

LEMMA ClientKeeps ==
  ASSUME IInv, NEW c \in Client, ClientStep(c)
  PROVE  IInv'
<1> USE DEF IInv
<1>1. ASSUME NEW answer \in Answers, Ends(c, answer), Quietly
      PROVE  IInv'
    BY <1>1, Ending DEF Quietly, daemons, TypeOK
<1>2. CASE Probe(c)
  <2> USE <1>2 DEF Probe, At, Quietly, Goes, daemons
  <2>1. CASE \E answer \in Answers : Ends(c, answer)
    BY <2>1, <1>1
  <2>2. CASE ~\E answer \in Answers : Ends(c, answer)
    <3>1. PinsOf(c)'
      BY <2>2 DEF TypeOK, Numbers, Pins, PinsOf, Pinned, Stale, Started, Verified,
                  SocketIsServed, Listening, Live, Holds, Listens, Answers
    <3>2. seen' \in [Client -> [pid : Pid \cup {None}, unique : Daemon \cup {Free, Other, None}]]
      BY <2>2 DEF TypeOK, Numbers, Pins, PinsOf, Answers
      <3>3. \E to \in Active \ Claims : /\ pc' = [pc EXCEPT ![c] = to]
                                        /\ pc[c] \in Starts => to \in Starts
        BY <2>2 DEF TypeOK, Active, Starts, Claims, Answers
      <3>4. conn' \in [Client -> Daemon \cup {None}] /\ asked' \subseteq Daemon
        BY <2>2 DEF TypeOK, Pins, PinsOf, Answers
      <3>5. pc[c] \notin Claims
        BY DEF Claims
      <3>6. \A b \in Client \ {c} : conn'[b] = conn[b] /\ seen'[b] = seen[b]
        BY <2>2 DEF TypeOK, Answers
      <3>7. UNCHANGED <<machine, born, phase, pid, version, attached>>
        BY <2>2 DEF machine, Answers
      <3> QED BY <3>1, <3>2, <3>3, <3>4, <3>5, <3>6, <3>7, Moving
  <2> QED BY <2>1, <2>2
<1>3. CASE Reach(c)
  <2> USE <1>3 DEF Reach, At, Quietly, Goes, daemons
  <2>1. CASE \E answer \in Answers : Ends(c, answer)
    BY <2>1, <1>1
  <2>2. CASE ~\E answer \in Answers : Ends(c, answer)
    <3>1. PinsOf(c)'
      BY <2>2 DEF TypeOK, Numbers, Pins, PinsOf, Pinned, Stale, Started, Verified,
                  SocketIsServed, Listening, Live, Holds, Listens, Answers
    <3>2. seen' \in [Client -> [pid : Pid \cup {None}, unique : Daemon \cup {Free, Other, None}]]
      BY <2>2 DEF TypeOK, Numbers, Pins, PinsOf, Answers
      <3>3. \E to \in Active \ Claims : /\ pc' = [pc EXCEPT ![c] = to]
                                        /\ pc[c] \in Starts => to \in Starts
        BY <2>2 DEF TypeOK, Active, Starts, Claims, Answers
      <3>4. conn' \in [Client -> Daemon \cup {None}] /\ asked' \subseteq Daemon
        BY <2>2 DEF TypeOK, Pins, PinsOf, Answers
      <3>5. pc[c] \notin Claims
        BY DEF Claims
      <3>6. \A b \in Client \ {c} : conn'[b] = conn[b] /\ seen'[b] = seen[b]
        BY <2>2 DEF TypeOK, Answers
      <3>7. UNCHANGED <<machine, born, phase, pid, version, attached>>
        BY <2>2 DEF machine, Answers
      <3> QED BY <3>1, <3>2, <3>3, <3>4, <3>5, <3>6, <3>7, Moving
  <2> QED BY <2>1, <2>2
<1>4. CASE Greet(c)
  <2> USE <1>4 DEF Greet, At, Quietly, Goes, daemons
  <2>1. CASE \E answer \in Answers : Ends(c, answer)
    BY <2>1, <1>1
  <2>2. CASE ~\E answer \in Answers : Ends(c, answer)
    <3>1. PinsOf(c)'
      BY <2>2 DEF TypeOK, Numbers, Pins, PinsOf, Pinned, Stale, Started, Verified,
                  SocketIsServed, Listening, Live, Holds, Listens, Answers
    <3>2. seen' \in [Client -> [pid : Pid \cup {None}, unique : Daemon \cup {Free, Other, None}]]
      BY <2>2 DEF TypeOK, Numbers, Pins, PinsOf, Answers
      <3>3. \E to \in Active \ Claims : /\ pc' = [pc EXCEPT ![c] = to]
                                        /\ pc[c] \in Starts => to \in Starts
        BY <2>2 DEF TypeOK, Active, Starts, Claims, Answers
      <3>4. conn' \in [Client -> Daemon \cup {None}] /\ asked' \subseteq Daemon
        BY <2>2 DEF TypeOK, Pins, PinsOf, Answers
      <3>5. pc[c] \notin Claims
        BY DEF Claims
      <3>6. \A b \in Client \ {c} : conn'[b] = conn[b] /\ seen'[b] = seen[b]
        BY <2>2 DEF TypeOK, Answers
      <3>7. UNCHANGED <<machine, born, phase, pid, version, attached>>
        BY <2>2 DEF machine, Answers
      <3> QED BY <3>1, <3>2, <3>3, <3>4, <3>5, <3>6, <3>7, Moving
  <2> QED BY <2>1, <2>2
<1>5. CASE Check(c)
  <2> USE <1>5 DEF Check, At, Quietly, Goes, daemons
  <2>1. CASE \E answer \in Answers : Ends(c, answer)
    BY <2>1, <1>1
  <2>2. CASE ~\E answer \in Answers : Ends(c, answer)
    <3>1. PinsOf(c)'
      BY <2>2 DEF TypeOK, Numbers, Pins, PinsOf, Pinned, Stale, Started, Verified,
                  SocketIsServed, Listening, Live, Holds, Listens, Answers
    <3>2. seen' \in [Client -> [pid : Pid \cup {None}, unique : Daemon \cup {Free, Other, None}]]
      BY <2>2 DEF TypeOK, Numbers, Pins, PinsOf, Answers
      <3>3. \E to \in Active \ Claims : /\ pc' = [pc EXCEPT ![c] = to]
                                        /\ pc[c] \in Starts => to \in Starts
        BY <2>2 DEF TypeOK, Active, Starts, Claims, Answers
      <3>4. conn' \in [Client -> Daemon \cup {None}] /\ asked' \subseteq Daemon
        BY <2>2 DEF TypeOK, Pins, PinsOf, Answers
      <3>5. pc[c] \notin Claims
        BY DEF Claims
      <3>6. \A b \in Client \ {c} : conn'[b] = conn[b] /\ seen'[b] = seen[b]
        BY <2>2 DEF TypeOK, Answers
      <3>7. UNCHANGED <<machine, born, phase, pid, version, attached>>
        BY <2>2 DEF machine, Answers
      <3> QED BY <3>1, <3>2, <3>3, <3>4, <3>5, <3>6, <3>7, Moving
  <2> QED BY <2>1, <2>2
<1>6. CASE Pin(c)
  <2> USE <1>6 DEF Pin, At, Quietly, Goes, daemons
  <2>1. PinsOf(c)'
    BY DEF TypeOK, Numbers, Pins, PinsOf, Pinned, Stale, Started, Verified, SocketIsServed,
           Listening, Live, Holds, Listens, Answers
  <2>2. seen' \in [Client -> [pid : Pid \cup {None}, unique : Daemon \cup {Free, Other, None}]]
    BY DEF TypeOK, Numbers, Pins, PinsOf, Answers
  <2> QED BY <2>1, <2>2, Moving DEF TypeOK, Active, Starts, Claims, Answers, machine, Pins,
                                    PinsOf, Listens
<1>7. CASE Hello(c)
  <2> USE <1>7 DEF Hello, At, Quietly, Goes, daemons
  <2>1. CASE \E answer \in Answers : Ends(c, answer)
    BY <2>1, <1>1
  <2>2. CASE ~\E answer \in Answers : Ends(c, answer)
    <3>1. PinsOf(c)'
      BY <2>2 DEF TypeOK, Numbers, Pins, PinsOf, Pinned, Stale, Started, Verified,
                  SocketIsServed, Listening, Live, Holds, Listens, Answers
    <3>2. seen' \in [Client -> [pid : Pid \cup {None}, unique : Daemon \cup {Free, Other, None}]]
      BY <2>2 DEF TypeOK, Numbers, Pins, PinsOf, Answers
      <3>3. \E to \in Active \ Claims : /\ pc' = [pc EXCEPT ![c] = to]
                                        /\ pc[c] \in Starts => to \in Starts
        BY <2>2 DEF TypeOK, Active, Starts, Claims, Answers
      <3>4. conn' \in [Client -> Daemon \cup {None}] /\ asked' \subseteq Daemon
        BY <2>2 DEF TypeOK, Pins, PinsOf, Answers
      <3>5. pc[c] \notin Claims
        BY DEF Claims
      <3>6. \A b \in Client \ {c} : conn'[b] = conn[b] /\ seen'[b] = seen[b]
        BY <2>2 DEF TypeOK, Answers
      <3>7. UNCHANGED <<machine, born, phase, pid, version, attached>>
        BY <2>2 DEF machine, Answers
      <3> QED BY <3>1, <3>2, <3>3, <3>4, <3>5, <3>6, <3>7, Moving
  <2> QED BY <2>1, <2>2
<1>8. CASE Connect(c)
  <2> USE <1>8 DEF Connect, At, Quietly, Goes, daemons
  <2>1. CASE \E answer \in Answers : Ends(c, answer)
    BY <2>1, <1>1
  <2>2. CASE ~\E answer \in Answers : Ends(c, answer)
    <3>1. PinsOf(c)'
      BY <2>2 DEF TypeOK, Numbers, Pins, PinsOf, Pinned, Stale, Started, Verified,
                  SocketIsServed, Listening, Live, Holds, Listens, Answers
    <3>2. seen' \in [Client -> [pid : Pid \cup {None}, unique : Daemon \cup {Free, Other, None}]]
      BY <2>2 DEF TypeOK, Numbers, Pins, PinsOf, Answers
      <3>3. \E to \in Active \ Claims : /\ pc' = [pc EXCEPT ![c] = to]
                                        /\ pc[c] \in Starts => to \in Starts
        BY <2>2 DEF TypeOK, Active, Starts, Claims, Answers
      <3>4. conn' \in [Client -> Daemon \cup {None}] /\ asked' \subseteq Daemon
        BY <2>2 DEF TypeOK, Pins, PinsOf, Answers
      <3>5. pc[c] \notin Claims
        BY DEF Claims
      <3>6. \A b \in Client \ {c} : conn'[b] = conn[b] /\ seen'[b] = seen[b]
        BY <2>2 DEF TypeOK, Answers
      <3>7. UNCHANGED <<machine, born, phase, pid, version, attached>>
        BY <2>2 DEF machine, Answers
      <3> QED BY <3>1, <3>2, <3>3, <3>4, <3>5, <3>6, <3>7, Moving
  <2> QED BY <2>1, <2>2
<1>9. CASE Verify(c)
  <2> USE <1>9 DEF Verify, At, Quietly, Goes, daemons
  <2>1. CASE \E answer \in Answers : Ends(c, answer)
    BY <2>1, <1>1
  <2>2. CASE ~\E answer \in Answers : Ends(c, answer)
    <3>1. PinsOf(c)'
      BY <2>2 DEF TypeOK, Numbers, Pins, PinsOf, Pinned, Stale, Started, Verified,
                  SocketIsServed, Listening, Live, Holds, Listens, Answers
    <3>2. seen' \in [Client -> [pid : Pid \cup {None}, unique : Daemon \cup {Free, Other, None}]]
      BY <2>2 DEF TypeOK, Numbers, Pins, PinsOf, Answers
      <3>3. \E to \in Active \ Claims : /\ pc' = [pc EXCEPT ![c] = to]
                                        /\ pc[c] \in Starts => to \in Starts
        BY <2>2 DEF TypeOK, Active, Starts, Claims, Answers
      <3>4. conn' \in [Client -> Daemon \cup {None}] /\ asked' \subseteq Daemon
        BY <2>2 DEF TypeOK, Pins, PinsOf, Answers
      <3>5. pc[c] \notin Claims
        BY DEF Claims
      <3>6. \A b \in Client \ {c} : conn'[b] = conn[b] /\ seen'[b] = seen[b]
        BY <2>2 DEF TypeOK, Answers
      <3>7. UNCHANGED <<machine, born, phase, pid, version, attached>>
        BY <2>2 DEF machine, Answers
      <3> QED BY <3>1, <3>2, <3>3, <3>4, <3>5, <3>6, <3>7, Moving
  <2> QED BY <2>1, <2>2
<1>10. CASE Send(c)
  <2> USE <1>10 DEF Send, Goes
  <2>1. CASE \E answer \in Answers : Ends(c, answer)
    BY <2>1, Ending DEF TypeOK, Pins, PinsOf, Answers
  <2>2. CASE ~\E answer \in Answers : Ends(c, answer)
    <3>1. PinsOf(c)'
      BY <2>2 DEF TypeOK, Numbers, Pins, PinsOf, Pinned, Stale, Started, Verified,
                  SocketIsServed, Listening, Live, Holds, Listens, Answers
    <3>2. seen' \in [Client -> [pid : Pid \cup {None}, unique : Daemon \cup {Free, Other, None}]]
      BY <2>2 DEF TypeOK, Numbers, Pins, PinsOf, Answers
      <3>3. \E to \in Active \ Claims : /\ pc' = [pc EXCEPT ![c] = to]
                                        /\ pc[c] \in Starts => to \in Starts
        BY <2>2 DEF TypeOK, Active, Starts, Claims, Answers
      <3>4. conn' \in [Client -> Daemon \cup {None}] /\ asked' \subseteq Daemon
        BY <2>2 DEF TypeOK, Pins, PinsOf, Answers
      <3>5. pc[c] \notin Claims
        BY DEF Claims
      <3>6. \A b \in Client \ {c} : conn'[b] = conn[b] /\ seen'[b] = seen[b]
        BY <2>2 DEF TypeOK, Answers
      <3>7. UNCHANGED <<machine, born, phase, pid, version, attached>>
        BY <2>2 DEF machine, Answers
      <3> QED BY <3>1, <3>2, <3>3, <3>4, <3>5, <3>6, <3>7, Moving
  <2> QED BY <2>1, <2>2
<1>11. CASE Poll(c)
  <2> USE <1>11 DEF Poll, At, Quietly, Goes, daemons
  <2>1. PinsOf(c)'
    BY DEF TypeOK, Numbers, Pins, PinsOf, Pinned, Stale, Started, Verified, SocketIsServed,
           Listening, Live, Holds, Listens, Answers
  <2>2. seen' \in [Client -> [pid : Pid \cup {None}, unique : Daemon \cup {Free, Other, None}]]
    BY DEF TypeOK, Numbers, Pins, PinsOf, Answers
  <2> QED BY <2>1, <2>2, Moving DEF TypeOK, Active, Starts, Claims, Answers, machine, Pins,
                                    PinsOf, Listens
<1>12. CASE AwaitExit(c)
  <2> USE <1>12 DEF AwaitExit, At, Quietly, Goes, daemons
  <2>1. PinsOf(c)'
    BY DEF TypeOK, Numbers, Pins, PinsOf, Pinned, Stale, Started, Verified, SocketIsServed,
           Listening, Live, Holds, Listens, Answers
  <2>2. seen' \in [Client -> [pid : Pid \cup {None}, unique : Daemon \cup {Free, Other, None}]]
    BY DEF TypeOK, Numbers, Pins, PinsOf, Answers
  <2> QED BY <2>1, <2>2, Moving DEF TypeOK, Active, Starts, Claims, Answers, machine, Pins,
                                    PinsOf, Listens
<1>13. CASE Vacant(c)
    BY <1>13, <1>1 DEF Vacant, At, Answers
<1>14. CASE ApplyFails(c)
    BY <1>14, <1>1 DEF ApplyFails, At, Answers
<1>15. CASE Ready(c)
    BY <1>15, <1>1 DEF Ready, At, Answers
<1>16. CASE TimeOut(c)
    BY <1>16, <1>1 DEF TimeOut, At, Answers
<1>17. CASE Lock(c)
  <2> USE <1>17 DEF Lock, At, Quietly, Goes, daemons
  <2>0. CASE Ends(c, "error")
    BY <2>0, <1>1 DEF Answers
  <2> SUFFICES ASSUME ~Ends(c, "error") PROVE IInv'
    BY <2>0
  <2>1. PinsOf(c)'
    BY DEF TypeOK, PinsOf
  <2>2. serveLock' \in {None} \cup {d \in Daemon : phase'[d] \in Holds}
                              \cup {b \in Client : pc'[b] \in Claims}
    BY DEF TypeOK, LocksHeld, Claims
  <2>3. startLock' \in {None} \cup {b \in Client : pc'[b] \in Starts}
    BY DEF TypeOK, Starts, Claims
  <2>4. TypeOK'
    BY <2>2, <2>3 DEF TypeOK, Active, Starts, Claims
  <2>5. LocksHeld'
    BY DEF TypeOK, LocksHeld, Claims, Holds, Listens
  <2>6. SocketIsServed' /\ Numbers' /\ Pins'
    BY <2>1, DaemonsFrame, OthersFrame DEF TypeOK
  <2> QED BY <2>4, <2>5, <2>6
<1>18. CASE Claim(c)
  <2> USE <1>18 DEF Claim, At, Quietly, Goes, daemons, Claimed
  <2>1. PinsOf(c)'
    BY DEF TypeOK, PinsOf
  <2>2. serveLock' \in {None} \cup {d \in Daemon : phase'[d] \in Holds}
                              \cup {b \in Client : pc'[b] \in Claims}
    BY DEF TypeOK, LocksHeld, Claims
  <2>3. startLock' \in {None} \cup {b \in Client : pc'[b] \in Starts}
    BY DEF TypeOK, Starts, Claims
  <2>4. TypeOK'
    BY <2>2, <2>3 DEF TypeOK, Active, Starts, Claims
  <2>5. LocksHeld'
    BY DEF TypeOK, LocksHeld, Claims, Holds, Listens
  <2>6. SocketIsServed' /\ Numbers' /\ Pins'
    BY <2>1, DaemonsFrame, OthersFrame DEF TypeOK
  <2> QED BY <2>4, <2>5, <2>6
<1>19. CASE InstallProgram(c)
  <2> USE <1>19 DEF InstallProgram, At, Quietly, Goes, daemons
  <2>0. CASE Ends(c, "error")
    BY <2>0, <1>1 DEF Answers
  <2> SUFFICES ASSUME ~Ends(c, "error") PROVE IInv'
    BY <2>0
  <2>1. PinsOf(c)'
    BY DEF TypeOK, PinsOf
  <2>2. serveLock' \in {None} \cup {d \in Daemon : phase'[d] \in Holds}
                              \cup {b \in Client : pc'[b] \in Claims}
    BY DEF TypeOK, LocksHeld, Claims
  <2>3. startLock' \in {None} \cup {b \in Client : pc'[b] \in Starts}
    BY DEF TypeOK, Starts, Claims
  <2>4. TypeOK'
    BY <2>2, <2>3 DEF TypeOK, Active, Starts, Claims
  <2>5. LocksHeld'
    BY DEF TypeOK, LocksHeld, Claims, Holds, Listens
  <2>6. SocketIsServed' /\ Numbers' /\ Pins'
    BY <2>1, DaemonsFrame, OthersFrame DEF TypeOK
  <2> QED BY <2>4, <2>5, <2>6
<1>20. CASE Unclaim(c)
  <2> USE <1>20 DEF Unclaim, At, Quietly, Goes, daemons, Unlocked
  <2>1. PinsOf(c)'
    BY DEF TypeOK, PinsOf
  <2>2. serveLock' \in {None} \cup {d \in Daemon : phase'[d] \in Holds}
                              \cup {b \in Client : pc'[b] \in Claims}
    BY DEF TypeOK, LocksHeld, Claims
  <2>3. startLock' \in {None} \cup {b \in Client : pc'[b] \in Starts}
    BY DEF TypeOK, Starts, Claims
  <2>4. TypeOK'
    BY <2>2, <2>3 DEF TypeOK, Active, Starts, Claims
  <2>5. LocksHeld'
    BY DEF TypeOK, LocksHeld, Claims, Holds, Listens
  <2>6. SocketIsServed' /\ Numbers' /\ Pins'
    BY <2>1, DaemonsFrame, OthersFrame DEF TypeOK
  <2> QED BY <2>4, <2>5, <2>6
<1>21. ASSUME NEW p \in Pid, Apply(c, p)
      PROVE  IInv'
  <2> USE <1>21 DEF Apply, Stopped, Goes
  <2>0. /\ born + 1 \in Daemon /\ phase[born + 1] = "unborn"
        /\ \A e \in Daemon : phase[e] \notin Holds
    <3>1. born \in Nat /\ born + 1 \in Daemon
      BY DEF TypeOK, Daemon
    <3>2. phase[born + 1] = "unborn"
      BY <3>1 DEF Numbers, Started
    <3>3. serveLock = c
      BY DEF LocksHeld, Claims
    <3> QED BY <3>1, <3>2, <3>3 DEF LocksHeld
  <2>1. TypeOK'
    <3>1. serveLock' \in {None} \cup {d \in Daemon : phase'[d] \in Holds}
                                \cup {b \in Client : pc'[b] \in Claims}
      BY DEF TypeOK, LocksHeld, Claims
    <3>2. startLock' \in {None} \cup {b \in Client : pc'[b] \in Starts}
      BY DEF TypeOK, Starts, Claims
    <3> QED BY <3>1, <3>2, <2>0 DEF TypeOK, Active, Starts, Claims, Live, Over, Daemon
  <2>2. LocksHeld'
    BY <2>0 DEF TypeOK, LocksHeld, Claims, Holds, Listens, Over, Daemon
  <2>3. SocketIsServed'
    BY <2>0 DEF TypeOK, LocksHeld, SocketIsServed, Claims, Holds, Listens, Daemon
  <2>4. Numbers'
    <3>1. \A d \in Daemon : (Started(d) <=> d <= born)'
      <4>1. \A d \in Daemon : phase'[d] # "unborn" <=> d = born + 1 \/ phase[d] # "unborn"
        BY <2>0 DEF TypeOK, Live
      <4> QED BY <2>0, <4>1 DEF TypeOK, Numbers, Started, Daemon
    <3>2. \A d \in Daemon : (Started(d) => pid[d] \in Pid)'
      BY <2>0 DEF TypeOK, Numbers, Started, Live
    <3>3. \A d \in Daemon : (phase[d] \in Live => occupant[pid[d]] = d)'
      BY <2>0 DEF TypeOK, Numbers, Started, Live, Holds, Listens
    <3>4. \A q \in Pid : (occupant[q] \in Daemon => phase[occupant[q]] \in Live)'
      BY <2>0 DEF TypeOK, Numbers, Started, Live, Holds, Listens
    <3> QED BY <3>1, <3>2, <3>3, <3>4 DEF Numbers
  <2>5. Pins'
    <3>1. /\ UNCHANGED <<conn, seen>> /\ pc' = [pc EXCEPT ![c] = "applied"]
          /\ \A e \in Daemon : Stays(e)
      BY <2>0 DEF Stays, TypeOK, Started, Live, Holds, Listens
    <3>2. \A b \in Client : pc'[b] = pc[b] \/ pc'[b] = "applied"
      BY <3>1 DEF TypeOK
    <3>3. UNCHANGED <<conn, seen>>
      BY <3>1
    <3>4. TypeOK /\ Pins
      OBVIOUS
    <3> QED BY ONLY <3>1, <3>2, <3>3, <3>4, DeadStay
  <2> QED BY <2>1, <2>2, <2>3, <2>4, <2>5
<1> QED BY <1>2, <1>3, <1>4, <1>5, <1>6, <1>7, <1>8, <1>9, <1>10, <1>11, <1>12, <1>13, <1>14,
   <1>15, <1>16, <1>17, <1>18, <1>19, <1>20, <1>21 DEF ClientStep

LEMMA EnvironmentKeeps ==
  ASSUME IInv, Environment
  PROVE  IInv'
<1> USE DEF IInv
<1>1. ASSUME NEW d \in Daemon, Attach(d)
      PROVE  IInv'
  <2> USE <1>1 DEF Attach
  <2>1. TypeOK'
    BY DEF TypeOK, LocksHeld, Numbers, Live, Holds, Listens, Over, clients, daemons, machine,
           Daemon
  <2>2. LocksHeld'
    BY DEF TypeOK, LocksHeld, Numbers, Started, Holds, Listens, clients, daemons, machine, Daemon
  <2>3. SocketIsServed'
    BY DEF TypeOK, LocksHeld, Numbers, Started, SocketIsServed, Holds, Listens, daemons, machine,
           Daemon
  <2>4. Numbers'
    BY DEF TypeOK, Numbers, Started, Live, Holds, Listens, daemons, machine, Daemon
  <2>5. Pins'
    BY PinsFrame DEF Stays, TypeOK, Numbers, Started, Live, Holds, Listens, clients, daemons,
                     machine, Daemon
  <2> QED BY <2>1, <2>2, <2>3, <2>4, <2>5
<1>2. ASSUME NEW d \in Daemon, Interrupt(d)
      PROVE  IInv'
  <2>1. PICK to \in {"closing", "closed"} : Step(d, "serving", to)
    BY <1>2 DEF Interrupt
  <2>2. serveLock = d /\ path = d
    BY <2>1 DEF Step, LocksHeld, SocketIsServed, Holds, Listens
  <2>3. attached \subseteq Daemon /\ mishaps' \in 0 .. MaxMishaps
    BY <1>2 DEF Interrupt, Mishap, TypeOK
  <2>4. UNCHANGED <<serveLock, path, occupant, attached>>
    BY <1>2 DEF Interrupt
  <2>5. /\ to \in Live /\ to \in Holds /\ to \in Listens /\ to \notin Over
        /\ "serving" \in Live /\ "serving" \in Holds
    BY DEF Live, Holds, Listens, Over
  <2> QED BY <2>1, <2>2, <2>3, <2>4, <2>5, StepKeeps
<1>3. ASSUME NEW d \in Daemon, Crash(d)
      PROVE  IInv'
  <2>1. PICK from \in Live : Step(d, from, "failed")
    BY <1>3 DEF Crash
  <2>2. "failed" \in Over /\ "failed" \notin Live /\ "failed" \notin Holds /\ "failed" \notin Listens
    BY DEF Over, Live, Holds, Listens
  <2>3. attached' \subseteq Daemon /\ mishaps' \in 0 .. MaxMishaps
    BY <1>3 DEF Crash, Mishap, TypeOK
  <2>4. /\ serveLock' = serveLock \/ (serveLock = d /\ serveLock' = None)
        /\ serveLock' # d
    BY <1>3 DEF Crash
  <2> QED BY <1>3, <2>1, <2>2, <2>3, <2>4, StepKeeps DEF Crash
<1>4. ASSUME NEW v, NEW p \in Pid, Spawn(v, p), managed' \in Daemon \cup {None}
      PROVE  IInv'
  <2> USE <1>4 DEF Spawn
  <2>0. /\ born + 1 \in Daemon /\ phase[born + 1] = "unborn"
        /\ \A q \in Pid : occupant[q] # born + 1
    BY DEF TypeOK, Numbers, Started, Daemon, Live, Holds, Listens
  <2>1. TypeOK'
    <3>1. serveLock' \in {None} \cup {d \in Daemon : phase'[d] \in Holds}
                                \cup {b \in Client : pc'[b] \in Claims}
      BY <2>0 DEF TypeOK, Holds, Listens, clients
    <3>2. startLock' \in {None} \cup {b \in Client : pc'[b] \in Starts}
      BY DEF TypeOK, clients
    <3>3. born' \in 0 .. MaxDaemons
      BY DEF TypeOK
    <3> QED BY <2>0, <3>1, <3>2, <3>3 DEF TypeOK, Live, clients
  <2>2. LocksHeld'
    BY DEF TypeOK, LocksHeld, Numbers, Started, Holds, Listens, clients, daemons, machine, Daemon
  <2>3. SocketIsServed'
    BY DEF TypeOK, LocksHeld, Numbers, Started, SocketIsServed, Holds, Listens, daemons, machine,
           Daemon
  <2>4. Numbers'
    <3>1. \A d \in Daemon : (Started(d) <=> d <= born)'
      BY <2>0 DEF TypeOK, Numbers, Started, Daemon
    <3>2. \A d \in Daemon : (Started(d) => pid[d] \in Pid)'
      BY <2>0 DEF TypeOK, Numbers, Started
    <3>3. \A d \in Daemon : (phase[d] \in Live => occupant[pid[d]] = d)'
      <4>1. pid'[born + 1] = p /\ occupant'[p] = born + 1
        BY <2>0 DEF TypeOK
      <4>2. ASSUME NEW d \in Daemon \ {born + 1}, phase[d] \in Live
            PROVE  occupant'[pid[d]] = d
        BY <4>2, <2>0 DEF TypeOK, Numbers, Started, Live, Holds, Listens
      <4> QED BY <2>0, <4>1, <4>2 DEF TypeOK
    <3>4. \A r \in Pid : (occupant[r] \in Daemon => phase[occupant[r]] \in Live)'
      BY <2>0 DEF TypeOK, Numbers, Started, Live, Holds, Listens
    <3> QED BY <3>1, <3>2, <3>3, <3>4 DEF Numbers
  <2>5. Pins'
    <3>1. \A e \in Daemon : Stays(e)
      BY <2>0 DEF Stays, TypeOK, Started
    <3> QED BY <3>1, PinsFrame
  <2> QED BY <2>1, <2>2, <2>3, <2>4, <2>5
<1>5. ASSUME NEW p \in Pid, Reuse(p)
      PROVE  IInv'
  <2> USE <1>5 DEF Reuse, Mishap
  <2>1. TypeOK'
    BY DEF TypeOK, LocksHeld, Numbers, Live, Holds, Listens, Over, clients, daemons
  <2>2. LocksHeld'
    BY DEF TypeOK, LocksHeld, Numbers, Started, Holds, Listens, clients, daemons, machine, Daemon
  <2>3. SocketIsServed'
    BY DEF TypeOK, LocksHeld, Numbers, Started, SocketIsServed, Holds, Listens, daemons, machine,
           Daemon
  <2>4. Numbers'
    <3>1. \A e \in Daemon : (Started(e) <=> e <= born)'
      BY DEF TypeOK, Numbers, Started, daemons
    <3>2. \A e \in Daemon : (Started(e) => pid[e] \in Pid)'
      BY DEF TypeOK, Numbers, Started, daemons
    <3>3. \A e \in Daemon : (phase[e] \in Live => occupant[pid[e]] = e)'
      BY DEF TypeOK, Numbers, Started, Live, Holds, Listens, daemons
    <3>4. \A r \in Pid : (occupant[r] \in Daemon => phase[occupant[r]] \in Live)'
      BY DEF TypeOK, Numbers, Started, Live, Holds, Listens, daemons
    <3> QED BY <3>1, <3>2, <3>3, <3>4 DEF Numbers
  <2>5. Pins'
    BY PinsFrame DEF Stays, TypeOK, Numbers, Started, Live, Holds, Listens, clients, daemons,
                     machine, Daemon
  <2> QED BY <2>1, <2>2, <2>3, <2>4, <2>5
<1>6. ASSUME NEW p \in Pid, NEW v \in Version, Serve(v, p)
      PROVE  IInv'
    BY <1>4, <1>6 DEF Serve, TypeOK
<1>7. ASSUME NEW p \in Pid, Restart(p)
      PROVE  IInv'
  <2>1. managed' \in Daemon
    BY <1>7 DEF Restart, Spawn, TypeOK, Daemon
  <2> QED BY <1>4, <1>7, <2>1 DEF Restart
<1>8. ASSUME NEW c \in Client, Die(c)
      PROVE  IInv'
    BY <1>8, Ending DEF Die, Mishap, daemons, TypeOK
<1> QED BY <1>1, <1>2, <1>3, <1>5, <1>6, <1>7, <1>8 DEF Environment
LEMMA NextKeeps == IInv /\ [Next]_vars => IInv'
<1> SUFFICES ASSUME IInv, [Next]_vars PROVE IInv'
    OBVIOUS
<1>1. CASE Next
    BY <1>1, DaemonKeeps, ClientKeeps, EnvironmentKeeps DEF Next
<1>2. CASE UNCHANGED vars
  <2>1. /\ UNCHANGED <<serveLock, startLock, path, program, managed, occupant, mishaps>>
        /\ UNCHANGED <<born, phase, pid, version, asked, attached, pc, conn, seen>>
    BY <1>2 DEF vars, machine, daemons, clients
  <2>2. TypeOK' /\ LocksHeld'
    BY <2>1 DEF IInv, TypeOK, LocksHeld
  <2>3. SocketIsServed' /\ Numbers'
    BY <2>1, DaemonsFrame
  <2>4. Pins'
    BY <2>1, PinsFrame DEF IInv, Stays, Started, clients
  <2> QED BY <2>2, <2>3, <2>4 DEF IInv
<1> QED BY <1>1, <1>2

-----------------------------------------------------------------------------
\* The locks, the pids and the pins are what they stand for, however many
\* daemons and clients there are.
THEOREM Invariance == Spec => []IInv
BY Initially, NextKeeps, PTL DEF Spec

\* Every variable keeps its type, and a lock its holder.
THEOREM TypeCorrect == Spec => []TypeOK
BY Invariance, PTL DEF IInv

\* The socket of a daemon that serves is at its path, for any number of daemons
\* that start, stop and die around it (server.go:50-109).
THEOREM SocketServed == Spec => []SocketIsServed
BY Invariance, PTL DEF IInv

\* Nothing is installed nor applied while a daemon holds the serve lock
\* (agent.go:309-335).
THEOREM InstalledAlone == Spec => InstallsAlone
<1>1. ASSUME IInv, [Next]_vars,
             program' # program \/ \E c \in Client : pc[c] = "apply" /\ pc'[c] = "applied"
      PROVE  \A d \in Daemon : phase[d] \notin Holds
  <2>1. PICK c \in Client : pc[c] \in Claims
    <3>1. ASSUME NEW c \in Client, ClientStep(c), program' # program
          PROVE  pc[c] \in Claims
      BY <3>1 DEF ClientStep, Probe, Reach, Vacant, Lock, Greet, Check, Pin, Hello, Connect,
                  Verify,
                  Send, Poll, AwaitExit, Claim, InstallProgram, Apply, ApplyFails, Unclaim, Ready,
                  TimeOut, At, Goes, Ends, Claims
    <3>2. ASSUME NEW d \in Daemon, DaemonStep(d) \/ Attach(d) \/ Interrupt(d) \/ Crash(d)
          PROVE  UNCHANGED program
      BY <3>2 DEF DaemonStep, TakeLock, GiveUp, RemoveSocket, Listen, ListenFails, Closing, Flush,
                  CloseListener, Drain, Unlock, Exit, Attach, Interrupt, Crash, Step, machine
    <3>3. ASSUME NEW p \in Pid, Restart(p) \/ Reuse(p) \/ \E v \in Version : Serve(v, p)
          PROVE  UNCHANGED program
      BY <3>3 DEF Restart, Reuse, Serve, Spawn
    <3>4. ASSUME NEW c \in Client, Die(c)
          PROVE  UNCHANGED program
      BY <3>4 DEF Die, Ends
    <3>5. UNCHANGED vars => UNCHANGED program
      BY DEF vars, machine
    <3> QED BY <1>1, <3>1, <3>2, <3>3, <3>4, <3>5 DEF Next, Environment, Claims
  <2> QED BY <1>1, <2>1 DEF IInv, LocksHeld
<1>2. IInv /\ [Next]_vars =>
        [program' # program \/ (\E c \in Client : pc[c] = "apply" /\ pc'[c] = "applied")
           => \A d \in Daemon : phase[d] \notin Holds]_vars
    BY <1>1
<1> QED BY <1>2, Invariance, PTL DEF Spec, InstallsAlone

\* A client asks only the daemon that greeted it to stop, which is outdated for
\* it, whatever pids are used again in between (agent.go:382-423).
THEOREM StoppedOutdated == Spec => OnlyOutdatedStopped
<1>1. ASSUME IInv, [Next]_vars, NEW d \in asked' \ asked
      PROVE  \E c \in Client : pc[c] = "send" /\ pc'[c] # "send" /\ Stale(c, d)
  <2>1. PICK c \in Client : Send(c)
    <3>1. ASSUME NEW c \in Client, ClientStep(c), ~Send(c)
          PROVE  UNCHANGED asked
      BY <3>1 DEF ClientStep, Probe, Reach, Vacant, Lock, Greet, Check, Pin, Hello, Connect,
                  Verify,
                  Poll, AwaitExit, Claim, InstallProgram, Apply, ApplyFails, Unclaim, Ready,
                  TimeOut, At, Quietly, daemons
    <3>2. ASSUME NEW e \in Daemon, DaemonStep(e) \/ Attach(e) \/ Interrupt(e) \/ Crash(e)
          PROVE  UNCHANGED asked
      BY <3>2 DEF DaemonStep, TakeLock, GiveUp, RemoveSocket, Listen, ListenFails, Closing, Flush,
                  CloseListener, Drain, Unlock, Exit, Attach, Interrupt, Crash, Step
    <3>3. ASSUME NEW p \in Pid, Restart(p) \/ Reuse(p) \/ \E v \in Version : Serve(v, p)
          PROVE  UNCHANGED asked
      BY <3>3 DEF Restart, Reuse, Serve, Spawn, daemons
    <3>4. ASSUME NEW c \in Client, Die(c)
          PROVE  UNCHANGED asked
      BY <3>4 DEF Die, daemons
    <3>5. UNCHANGED vars => UNCHANGED asked
      BY DEF vars, daemons
    <3> QED BY <1>1, <3>1, <3>2, <3>3, <3>4, <3>5 DEF Next, Environment
  <2>2. pc[c] = "send" /\ d = conn[c]
    BY <1>1, <2>1 DEF Send
  <2>3. Stale(c, d)
    BY <1>1, <2>2 DEF IInv, Pins, PinsOf, Pinned
  <2>4. pc'[c] # "send"
    BY <1>1, <2>1 DEF Send, Goes, Ends, IInv, TypeOK
  <2> QED BY <2>2, <2>3, <2>4
<1>2. IInv /\ [Next]_vars =>
        [\A d \in asked' \ asked : \E c \in Client : pc[c] = "send" /\ pc'[c] # "send" /\ Stale(c, d)]_vars
    BY <1>1
<1> QED BY <1>2, Invariance, PTL DEF Spec, OnlyOutdatedStopped
=============================================================================
