--------------------------- MODULE WorktreeRemoval ---------------------------
(***************************************************************************)
(* The removal of one linked git worktree by the ccx cleanup daemon: the   *)
(* worker of daemon/engine.go driving the steps of relocate/inplace.go and *)
(* relocate/retirement.go against the tree, its git registration and the   *)
(* journal, while a user keeps working in the tree and the daemon crashes  *)
(* or is paused between any two durable effects.                           *)
(*                                                                         *)
(* Several jobs may be journaled for the same tree: a request without      *)
(* --force never rejoins a forced job, and a job blocked on identity is    *)
(* not rejoined either.                                                    *)
(*                                                                         *)
(* One worker runs every handler, so a command, a logical step and a slice *)
(* never overlap. What does overlap a handler is the user, other processes *)
(* and a crash, so a handler is split where it changes something durable   *)
(* or reads something it relies on later: `step' is the worker's place in  *)
(* it, `who' its job.                                                      *)
(***************************************************************************)
EXTENDS Integers, FiniteSets

CONSTANTS
    Job,            \* ids the journal may mint for removals of this tree
    NoJob,          \* not a job
    Commit,         \* commits the worktree's HEAD may be at
    NoCommit,       \* a recovery ref that names nothing
    Holder,         \* ids a maintenance hold may be taken under
    NoHold,         \* no maintenance hold
    TreeSize,       \* entries of the tree, in slices of deletion
    Readmit,        \* slices one admission lasts (Tuning.Readmit)
    MoveRoot,       \* TRUE when the tree sits under ccx.cleanupMoveRoot
    External,       \* the kinds of user event a run explores
    MaxExternal,    \* bound on the user's events
    MaxCrash        \* bound on the daemon's crashes

ASSUME JobAssumption ==
    /\ NoJob \notin Job
    /\ Job \cap {"none", "user", "original", "away", "gone"} = {}
ASSUME CommitAssumption == NoCommit \notin Commit
ASSUME HolderAssumption == NoHold \notin Holder
ASSUME SizeAssumption   == TreeSize \in Nat \ {0} /\ Readmit \in Nat \ {0}
ASSUME MoveAssumption   == MoveRoot \in BOOLEAN
ASSUME BoundAssumption  == MaxExternal \in Nat /\ MaxCrash \in Nat

VARIABLES
  \* The tree and its registration, which outlive the daemon.
    at,         \* where the captured tree sits; a job id is that job's payload
    left,       \* entries of the tree not yet deleted
    edits,      \* the tree holds work no commit has
    head,       \* the commit HEAD and the tree's files are at
    kept,       \* commits a branch or remote-tracking ref holds
    holder,     \* a live process sits in the tree
    admin,      \* the admin directory <common>/worktrees/<id>
    lock,       \* whose marker its "locked" file holds
    back,       \* what its "gitdir" backlink names
    fresh,      \* HEAD moved less than Quiet ago
    ref,        \* the recovery ref of each job
  \* The journal.
    rec,        \* the record of each job
    paused,     \* the pause switch
    hold,       \* the maintenance hold in the same switch
  \* The worker, lost in a crash.
    step, who,  \* the handler's next step, and its job
    native,     \* the registration was placed when the handler bound it
    owned,      \* it carried the job's lock then
    open,       \* the job whose deletion root is held open
    root,       \* which root that is
    since,      \* slices since that root was admitted
    shut,       \* the activity gate or the governor holds this tree's removal
  \* Observations.
    headLate,   \* HEAD moved after the last proof compared it
    editLate,   \* the user edited the tree after the last proof read its status
    strays,     \* slices run while a process sat in the tree
    events, crashes

fs      == <<at, left, edits, head, kept, holder, admin, lock, back, fresh, ref>>
journal == <<rec, paused, hold>>
worker  == <<step, who, native, owned, open, root, since>>
seen    == <<headLate, editLate, strays>>
world   == <<shut, events, crashes>>
vars    == <<fs, journal, worker, seen, world>>

-----------------------------------------------------------------------------
(* Records *)

Logical  == {"queued", "waiting", "pending", "prepared"}
Physical == {"claimed", "deleting_tree", "deleting_registration"}
Phase    == {"absent", "discarded", "done"} \cup Logical \cup Physical
Reason   == {"none", "activity", "timeout", "locked", "identity", "dirty", "git",
             "delete", "reconcile"}
Transient == {"activity", "timeout"}

Steps == {"idle", "claimQuiet", "claimPin", "claimIntent", "claimLock", "claimEnter",
          "retireIntent", "retireLock", "retirePin", "retireIdle", "retireHide",
          "retireEnd", "cancelUnlock", "cancelDiscard", "admit", "admitQuiet",
          "admitStatus", "unregister", "rename", "admitEnter", "openRoot", "slice"}
\* Steps at which the handler runs git or a process or watcher probe.
Probing == {"claimQuiet", "claimPin", "retirePin", "retireIdle", "admitQuiet", "admitStatus"}

\* An id never minted yet. A discarded one is spent: MintID never repeats.
Absent == [phase |-> "absent", retirement |-> "", blocked |-> "none",
           head |-> NoCommit, force |-> FALSE, moved |-> FALSE, rests |-> FALSE]

Set(j, r)         == rec' = [rec EXCEPT ![j] = r]
Enter(j, phase)   == Set(j, [rec[j] EXCEPT !.phase = phase,
                        !.retirement = IF phase \in Logical THEN @ ELSE "",
                        !.rests = phase \in Logical /\ @])
Goto(s, j)        == step' = s /\ who' = j
Idle              == step = "idle"
Finished          == step' = "idle" /\ who' = NoJob /\ native' = FALSE /\ owned' = FALSE
Block(j, reason)  == Set(j, [rec[j] EXCEPT !.blocked = reason]) /\ Finished
Halted            == paused \/ hold # NoHold
Placed            == admin # "gone"
Here(j)           == at \in {"original", j}
Foreign(j)        == lock \notin {"none", j}
NoDeletion        == open' = NoJob /\ root' = "none" /\ since' = 0

Init ==
    /\ at = "original" /\ left = TreeSize /\ edits = FALSE
    /\ head \in Commit /\ kept = {} /\ holder = FALSE
    /\ admin = "whole" /\ lock = "none" /\ back = "tree" /\ fresh = FALSE
    /\ ref = [j \in Job |-> NoCommit]
    /\ rec = [j \in Job |-> Absent]
    /\ paused = FALSE /\ hold = NoHold
    /\ step = "idle" /\ who = NoJob /\ native = FALSE /\ owned = FALSE
    /\ open = NoJob /\ root = "none" /\ since = 0
    /\ shut = TRUE
    /\ headLate = FALSE /\ editLate = FALSE /\ strays = 0
    /\ events = 0 /\ crashes = 0

-----------------------------------------------------------------------------
(* Requests. Each runs on the worker between two of its steps. *)

\* The tree reads as a registered linked worktree.
Identified == at = "original" /\ admin = "whole" /\ back = "tree"
Dirty      == edits \/ left < TreeSize

Untouched(j, force) ==
    /\ rec[j].phase \in {"queued", "waiting", "pending", "prepared", "claimed"}
    /\ force \/ ~rec[j].force
SittingAt(j, force) ==
    /\ Untouched(j, force)
    /\ ~(rec[j].blocked = "identity" /\ rec[j].retirement = "")
    /\ at = "original"

Revive(j) == Set(j, [rec[j] EXCEPT !.blocked = "none"])
Create(j, phase, force) ==
    /\ rec[j].phase = "absent"
    /\ Set(j, [Absent EXCEPT !.phase = phase, !.head = head, !.force = force])

\* With an activity gate a request only journals its job; the worker claims.
Remove(j, force) ==
    /\ Idle
    /\ \/ SittingAt(j, force) /\ Revive(j)
       \/ /\ \A k \in Job : ~SittingAt(k, force)
          /\ Identified /\ lock = "none"
          /\ force \/ ~Dirty
          /\ \/ Halted /\ Create(j, "pending", force)
             \/ ~Halted /\ ~holder /\ Create(j, "prepared", force)
    /\ UNCHANGED <<fs, paused, hold, worker, seen, world>>

Defer(j, force) ==
    /\ Idle /\ hold = NoHold
    /\ \/ Untouched(j, force) /\ Revive(j)
       \/ /\ \A k \in Job : ~Untouched(k, force)
          /\ Identified /\ lock = "none"
          /\ Create(j, IF holder THEN "waiting" ELSE "queued", force)
    /\ UNCHANGED <<fs, paused, hold, worker, seen, world>>

Discard(j) == Set(j, [Absent EXCEPT !.phase = "discarded", !.head = rec[j].head])

\* Mutant: a cancelled job drops its marker and forgets the backlink.
CancelForgets(j) ==
    /\ Idle /\ hold = NoHold
    /\ rec[j].phase \in {"queued", "waiting", "pending"}
    /\ owned' = (lock = j) /\ Goto("cancelUnlock", j)
    /\ UNCHANGED <<fs, journal, native, open, root, since, seen, world>>

\* A removal under way is refused; so is one whose tree, registration, link or
\* lock is no longer the captured one. Both leave everything as it is.
Cancel(j) ==
    /\ Idle /\ hold = NoHold
    /\ rec[j].phase \in {"queued", "waiting", "pending"}
    /\ IF rec[j].retirement = ""
       THEN Discard(j) /\ UNCHANGED <<back, step, who, owned>>
       ELSE /\ at = "original" /\ admin = "whole" /\ ~Foreign(j)
            /\ back = "tree" \/ (back = "empty" /\ lock = j)
            /\ back' = "tree"
            /\ owned' = (lock = j)
            /\ Goto("cancelUnlock", j)
            /\ UNCHANGED rec
    /\ UNCHANGED <<at, left, edits, head, kept, holder, admin, lock, fresh, ref,
                   paused, hold, native, open, root, since, seen, world>>

\* The marker is removed by name; one already gone fails the request.
CancelUnlock(j) ==
    /\ step = "cancelUnlock" /\ who = j
    /\ IF owned THEN lock' = "none" ELSE UNCHANGED lock
    /\ IF owned /\ lock = "none" THEN Finished
       ELSE Goto("cancelDiscard", j) /\ UNCHANGED <<native, owned>>
    /\ UNCHANGED <<at, left, edits, head, kept, holder, admin, back, fresh, ref,
                   journal, open, root, since, seen, world>>

CancelDiscard(j) ==
    /\ step = "cancelDiscard" /\ who = j
    /\ Discard(j) /\ Finished
    /\ UNCHANGED <<fs, paused, hold, open, root, since, seen, world>>

Retry(j) ==
    /\ Idle /\ rec[j].blocked # "none" /\ Revive(j)
    /\ UNCHANGED <<fs, paused, hold, worker, seen, world>>

\* The switch is journaled, then set, and the open deletion is closed.
Publish(p, h) ==
    /\ paused' = p /\ hold' = h /\ NoDeletion
    /\ UNCHANGED <<fs, rec, step, who, native, owned, seen, world>>

Pause      == Idle /\ ~paused /\ Publish(TRUE, hold)
Resume     == Idle /\ paused /\ hold = NoHold /\ Publish(FALSE, hold)
Take(h)    == Idle /\ hold = NoHold /\ Publish(paused, h)
Release(h) == Idle /\ hold = h /\ Publish(paused, NoHold)

-----------------------------------------------------------------------------
(* The worker takes a job up. *)

\* A job blocked on a transient inspection retries on its own; a sweep retries
\* every other blocked one.
AutoRetry(j) ==
    /\ Idle /\ hold = NoHold /\ ~shut
    /\ rec[j].blocked \in Transient
    /\ \/ ~paused /\ rec[j].phase # "done"
       \/ rec[j].phase \in Logical /\ rec[j].retirement # "retired"
    /\ Revive(j)
    /\ UNCHANGED <<fs, paused, hold, worker, seen, world>>

Reconcile ==
    /\ Idle /\ hold = NoHold
    /\ \E j \in Job : rec[j].blocked \notin Transient \cup {"none"}
    /\ rec' = [j \in Job |-> IF rec[j].blocked \in Transient THEN rec[j]
                             ELSE [rec[j] EXCEPT !.blocked = "none"]]
    /\ UNCHANGED <<fs, paused, hold, worker, seen, world>>

CanClaim(j)  == Idle /\ ~Halted /\ ~shut /\ rec[j].phase \in Logical /\ rec[j].blocked = "none"
\* Mutant: retirement ignores a maintenance hold.
CanRetireHeld(j) == /\ Idle /\ paused # shut /\ rec[j].phase \in Logical /\ rec[j].blocked = "none"
                    /\ rec[j].retirement # "retired" /\ ~rec[j].rests
\* Retirement runs under a pause, or while the gate holds the job, not under both.
CanRetire(j) == /\ Idle /\ hold = NoHold /\ paused # shut
                /\ rec[j].phase \in Logical /\ rec[j].blocked = "none"
                /\ rec[j].retirement # "retired" /\ ~rec[j].rests
CanAdmit(j)  == /\ Idle /\ ~Halted /\ ~shut /\ open = NoJob
                /\ rec[j].phase \in Physical /\ rec[j].blocked = "none"

-----------------------------------------------------------------------------
(* Claiming: prove the tree where it sits, pin its HEAD, lock its            *)
(* registration, then say so in the journal.                                 *)

\* Why the registration does not bind the tree to job j; "none" when it does,
\* or when it is gone and binds nothing. A backlink to a path that holds nothing
\* is no objection, and it names a path of the tree's wherever it names one.
Bind(j) ==
    IF ~Placed THEN "none"
    ELSE IF Foreign(j) THEN "locked"
    ELSE IF admin = "partial" \/ (back = "empty" /\ lock # j) THEN "identity" ELSE "none"

HeadReason(j, want) == IF Placed /\ head # want THEN "identity" ELSE "none"
\* Whether git status compares the tree with its own HEAD, not the saved one. A
\* tree whose registration or .git link is lost is compared with the saved HEAD,
\* like one under deletion, and what it misses was deleted by the job then.
OwnHead(j, bound) ==
    IF ~bound \/ rec[j].phase = "deleting_tree" THEN {FALSE}
    ELSE IF left < TreeSize THEN BOOLEAN ELSE {TRUE}
DirtReason(j, want, own) ==
    IF ~rec[j].force /\ (edits \/ IF own THEN left < TreeSize ELSE head # want)
    THEN "dirty" ELSE "none"
First(a, b)   == IF a = "none" THEN b ELSE a

\* The job follows a HEAD that a branch or remote-tracking ref holds.
Follow(j) == IF Placed /\ head \in kept THEN head ELSE rec[j].head

\* Mutant: a job whose tree is gone is done, whatever git still registers.
SettleEarly(j) == Enter(j, "done") /\ Finished
\* The tree is at none of the paths the job names.
Settle(j) ==
    \/ ~Placed /\ Enter(j, "done") /\ Finished
    \/ Placed /\ Foreign(j) /\ Block(j, "locked")
    \/ /\ Placed /\ lock = j
       /\ Enter(j, "deleting_registration") /\ Goto("admit", j) /\ UNCHANGED <<native, owned>>
    \/ /\ Placed /\ lock = "none"
       /\ Block(j, IF back = "elsewhere" /\ at = "away" THEN "identity" ELSE "activity")
\* A logical step that settles a job leaves the deletion to the physical turn.
SettleClaim(j) ==
    IF Placed /\ lock = j THEN Enter(j, "deleting_registration") /\ Finished ELSE Settle(j)

\* A deferred job first waits for every process to leave the tree.
AwaitInactivity(j) ==
    /\ CanClaim(j) /\ holder
    /\ rec[j].phase \in {"queued", "waiting"}
    /\ Set(j, [rec[j] EXCEPT !.phase = "waiting"])
    /\ UNCHANGED <<fs, paused, hold, worker, seen, world>>

ClaimProve(j) ==
    /\ CanClaim(j)
    /\ rec[j].phase \in {"queued", "waiting"} => ~holder
    /\ \E own \in OwnHead(j, Placed) :
       LET reason == First(Bind(j), First(HeadReason(j, Follow(j)),
                                          DirtReason(j, Follow(j), own))) IN
       \/ ~Here(j) /\ SettleClaim(j)
       \/ /\ Here(j) /\ reason # "none"
          /\ Set(j, [rec[j] EXCEPT !.blocked = reason,
                        !.head = IF Bind(j) = "none" THEN Follow(j) ELSE @])
          /\ Finished
       \/ /\ Here(j) /\ reason = "none"
          /\ Set(j, [rec[j] EXCEPT !.head = Follow(j)])
          /\ native' = Placed /\ owned' = (Placed /\ lock = j)
          /\ Goto("claimQuiet", j)
    /\ UNCHANGED <<fs, paused, hold, open, root, since, seen, world>>

\* The watchers are retired and the process guard consulted.
ClaimQuiet(j) ==
    /\ step = "claimQuiet" /\ who = j
    /\ IF holder THEN Block(j, "activity")
       ELSE Goto("claimPin", j) /\ UNCHANGED <<rec, native, owned>>
    /\ UNCHANGED <<fs, paused, hold, open, root, since, seen, world>>

\* Mutant: a proof that trusts an earlier status.
StatusTrusted(j, own) == "none"
\* git status, which fails when what it is told to read is gone meanwhile. A
\* forced job has none read of a tree that git still registers.
StatusReason(j, own) ==
    IF ~(own /\ rec[j].force) /\ (~Here(j) \/ (own /\ ~Placed)) THEN "git"
    ELSE DirtReason(j, rec[j].head, own)

\* The dirt is read again, then update-ref pins the captured HEAD.
ClaimPin(j) ==
    /\ step = "claimPin" /\ who = j
    /\ \E own \in OwnHead(j, native) :
       IF StatusReason(j, own) # "none"
       THEN Block(j, StatusReason(j, own)) /\ UNCHANGED ref
       ELSE /\ ref' = [ref EXCEPT ![j] = rec[j].head]
            /\ Goto(IF native /\ ~owned THEN "claimIntent" ELSE "claimEnter", j)
            /\ UNCHANGED <<rec, native, owned>>
    /\ UNCHANGED <<at, left, edits, head, kept, holder, admin, lock, back, fresh,
                   paused, hold, open, root, since, seen, world>>

\* Mutant: the intent stays in memory until the claim is journaled.
ClaimIntentUnsaved(j) ==
    /\ step = "claimIntent" /\ who = j
    /\ Goto("claimLock", j)
    /\ UNCHANGED <<fs, journal, native, owned, open, root, since, seen, world>>
ClaimIntent(j) ==
    /\ step = "claimIntent" /\ who = j
    /\ Set(j, [rec[j] EXCEPT !.retirement = IF @ = "" THEN "intent" ELSE @])
    /\ Goto("claimLock", j)
    /\ UNCHANGED <<fs, paused, hold, native, owned, open, root, since, seen, world>>

\* The marker is linked into place, so a lock that appeared first wins.
Mark(j, next) ==
    IF admin = "whole" /\ lock = "none"
    THEN lock' = j /\ Goto(next, j) /\ UNCHANGED <<rec, native, owned>>
    ELSE Block(j, "identity") /\ UNCHANGED lock

ClaimLock(j) ==
    /\ step = "claimLock" /\ who = j
    /\ Mark(j, "claimEnter")
    /\ UNCHANGED <<at, left, edits, head, kept, holder, admin, back, fresh, ref,
                   paused, hold, open, root, since, seen, world>>

ClaimEnter(j) ==
    /\ step = "claimEnter" /\ who = j
    /\ Enter(j, "claimed") /\ Finished
    /\ UNCHANGED <<fs, paused, hold, open, root, since, seen, world>>

-----------------------------------------------------------------------------
(* Retirement in place: hide the registration from git while deletion is     *)
(* paused or held, so that git lists the tree no more.                       *)

\* What must read as captured before the registration is touched.
RetireReason(j) ==
    IF \/ ~Here(j) \/ admin # "whole" \/ Foreign(j) \/ back = "elsewhere"
       \/ (back = "empty" /\ ~(lock = j /\ rec[j].retirement # ""))
       \/ (lock = j /\ rec[j].retirement = "")
       \/ head # rec[j].head
    THEN "identity" ELSE IF holder THEN "activity" ELSE "none"

\* A tree moved away, or a HEAD that moved within the quiet interval, waits.
RetireWaits(j) == /\ rec[j].retirement = ""
                  /\ ~Here(j) \/ (RetireReason(j) # "identity" /\ fresh)

RetireProve(j) ==
    /\ CanRetire(j)
    /\ \/ /\ RetireWaits(j)
          /\ Set(j, [rec[j] EXCEPT !.rests = TRUE]) /\ UNCHANGED <<step, who, native, owned>>
       \/ ~RetireWaits(j) /\ RetireReason(j) # "none" /\ Block(j, RetireReason(j))
       \/ /\ ~RetireWaits(j) /\ RetireReason(j) = "none"
          /\ native' = TRUE /\ owned' = (lock = j)
          /\ Goto("retireIntent", j) /\ UNCHANGED rec
    /\ UNCHANGED <<fs, paused, hold, open, root, since, seen, world>>

RetireIntent(j) ==
    /\ step = "retireIntent" /\ who = j
    /\ Set(j, [rec[j] EXCEPT !.retirement = IF @ = "" THEN "intent" ELSE @])
    /\ Goto(IF owned THEN "retirePin" ELSE "retireLock", j)
    /\ UNCHANGED <<fs, paused, hold, native, owned, open, root, since, seen, world>>

RetireLock(j) ==
    /\ step = "retireLock" /\ who = j
    /\ IF back = "empty" THEN Block(j, "identity") /\ UNCHANGED lock ELSE Mark(j, "retirePin")
    /\ UNCHANGED <<at, left, edits, head, kept, holder, admin, back, fresh, ref,
                   paused, hold, open, root, since, seen, world>>

RetirePin(j) ==
    /\ step = "retirePin" /\ who = j
    /\ ref' = [ref EXCEPT ![j] = rec[j].head]
    /\ Goto("retireIdle", j)
    /\ UNCHANGED <<at, left, edits, head, kept, holder, admin, lock, back, fresh,
                   journal, native, owned, open, root, since, seen, world>>

\* The watchers are retired and the guard consulted once more.
RetireIdle(j) ==
    /\ step = "retireIdle" /\ who = j
    /\ IF holder THEN Block(j, "activity")
       ELSE Goto("retireHide", j) /\ UNCHANGED <<rec, native, owned>>
    /\ UNCHANGED <<fs, paused, hold, open, root, since, seen, world>>

\* The tree and the registration still sit where they were found; the
\* backlink is truncated through the descriptor they were read from.
Unchanged(j) == Here(j) /\ admin = "whole"

RetireHide(j) ==
    /\ step = "retireHide" /\ who = j
    /\ IF Unchanged(j)
       THEN back' = "empty" /\ Goto("retireEnd", j) /\ UNCHANGED <<rec, native, owned>>
       ELSE Block(j, "identity") /\ UNCHANGED back
    /\ UNCHANGED <<at, left, edits, head, kept, holder, admin, lock, fresh, ref,
                   paused, hold, open, root, since, seen, world>>

RetireEnd(j) ==
    /\ step = "retireEnd" /\ who = j
    /\ IF Unchanged(j)
       THEN Set(j, [rec[j] EXCEPT !.retirement = "retired"]) /\ Finished
       ELSE Block(j, "identity")
    /\ UNCHANGED <<fs, paused, hold, open, root, since, seen, world>>

-----------------------------------------------------------------------------
(* Deletion: prove everything again, then delete the tree where it sits and  *)
(* its admin directory after it, a slice at a time.                          *)

\* Mutant: a proof that trusts an earlier pin or marker.
NoReason(j)       == "none"
Pinned(j)         == ref[j] = rec[j].head
PinReason(j)      == IF Pinned(j) THEN "none" ELSE "identity"
HolderReason      == IF holder THEN "activity" ELSE "none"
LockReason(j)     == IF Placed /\ lock # j THEN "identity" ELSE "none"
\* Mutant: a deletion under way looks for no process in the tree.
RecheckReasonBlind(j) == First(Bind(j), LockReason(j))
\* What Readmit checks again while the tree is being deleted.
RecheckReason(j)  == First(Bind(j), First(LockReason(j), HolderReason))

\* Admit reaches a phase from the worker, or falls through from another one.
Admits(j, phase) ==
    /\ rec[j].phase = phase
    /\ CanAdmit(j) \/ (step = "admit" /\ who = j)

\* The proof goes on in the next step, with what the registration was at bind.
Proven(j, next) ==
    headLate' = FALSE /\ native' = Placed /\ owned' = (Placed /\ lock = j)
    /\ Goto(next, j) /\ UNCHANGED rec

\* The whole proof of a claimed job: its registration, pin and HEAD, ...
AdmitClaimed(j) ==
    /\ Admits(j, "claimed")
    /\ LET reason == First(Bind(j), First(PinReason(j), HeadReason(j, rec[j].head))) IN
       \/ ~Here(j) /\ Settle(j) /\ UNCHANGED headLate
       \/ Here(j) /\ reason = "none" /\ Proven(j, "admitQuiet")
       \/ Here(j) /\ reason # "none" /\ Block(j, reason) /\ UNCHANGED headLate
    /\ UNCHANGED <<fs, paused, hold, open, root, since, editLate, strays, world>>

\* ... then the probes of what watches it and of every process, ...
AdmitQuiet(j) ==
    /\ step = "admitQuiet" /\ who = j
    /\ IF holder THEN Block(j, "activity")
       ELSE Goto("admitStatus", j) /\ UNCHANGED <<rec, native, owned>>
    /\ UNCHANGED <<fs, paused, hold, open, root, since, seen, world>>

\* A deletion that opens again: recheck, then pin and HEAD. Its probe comes before
\* the HEAD is read, and no event changes more than one of the two.
ResidueReason(j) == First(PinReason(j), HeadReason(j, rec[j].head))
\* Mutant: a tree that is gone is left for another turn.
AdmitTreeWaits(j) ==
    /\ Admits(j, "deleting_tree")
    /\ Here(j) /\ First(RecheckReason(j), ResidueReason(j)) = "none" /\ Proven(j, "admitStatus")
    /\ UNCHANGED <<fs, paused, hold, open, root, since, editLate, strays, world>>
AdmitTree(j) ==
    /\ Admits(j, "deleting_tree")
    /\ LET reason == First(RecheckReason(j), ResidueReason(j)) IN
       \/ ~Here(j) /\ Settle(j) /\ UNCHANGED headLate
       \/ Here(j) /\ reason = "none" /\ Proven(j, "admitStatus")
       \/ Here(j) /\ reason # "none" /\ Block(j, reason) /\ UNCHANGED headLate
    /\ UNCHANGED <<fs, paused, hold, open, root, since, editLate, strays, world>>

\* The marker counts as bind found it.
MarkReason(j) == IF native /\ ~owned THEN "identity" ELSE "none"

\* A tree under cleanupMoveRoot is moved out before its deletion, if it is there.
Moves(j)      == MoveRoot /\ at # j /\ ~rec[j].moved
MoveReason(j) == IF Moves(j) /\ at # "original" THEN "identity" ELSE "none"
MoveOut(j) ==
    /\ editLate' = FALSE /\ UNCHANGED <<rec, native, owned>>
    /\ Goto(IF ~Moves(j) THEN "admitEnter" ELSE IF native THEN "unregister" ELSE "rename", j)

\* ... and git status last, against whatever HEAD the tree is at by then.
AdmitStatus(j) ==
    /\ step = "admitStatus" /\ who = j
    /\ \E own \in OwnHead(j, native) :
       LET reason == First(StatusReason(j, own), First(MarkReason(j), MoveReason(j))) IN
       \/ reason = "none" /\ MoveOut(j)
       \/ reason # "none" /\ Block(j, reason) /\ UNCHANGED editLate
    /\ UNCHANGED <<fs, paused, hold, open, root, since, headLate, strays, world>>

\* Emptying the backlink first keeps git from listing the tree where it was.
Unregister(j) ==
    /\ step = "unregister" /\ who = j
    /\ IF Placed
       THEN back' = "empty" /\ Goto("rename", j) /\ UNCHANGED <<rec, native, owned>>
       ELSE Block(j, "reconcile") /\ UNCHANGED back
    /\ UNCHANGED <<at, left, edits, head, kept, holder, admin, lock, fresh, ref,
                   paused, hold, open, root, since, seen, world>>

\* The gate may hold what sits where the tree is moved to.
Rename(j) ==
    /\ step = "rename" /\ who = j
    /\ IF at = "original"
       THEN at' = j /\ shut' \in BOOLEAN /\ Goto("admitEnter", j) /\ UNCHANGED <<rec, native, owned>>
       ELSE Block(j, "reconcile") /\ UNCHANGED <<at, shut>>
    /\ UNCHANGED <<left, edits, head, kept, holder, admin, lock, back, fresh, ref,
                   paused, hold, open, root, since, seen, events, crashes>>

AdmitEnter(j) ==
    /\ step = "admitEnter" /\ who = j
    /\ rec' = [rec EXCEPT ![j].phase = "deleting_tree", ![j].retirement = "",
                          ![j].rests = FALSE, ![j].moved = @ \/ at = j]
    /\ Goto("openRoot", j)
    /\ UNCHANGED <<fs, paused, hold, native, owned, open, root, since, seen, world>>

\* Why the admin directory may not be deleted: another lock, or a backlink to a
\* tree that exists.
AdminReason(j) == IF Foreign(j) \/ (back = "elsewhere" /\ at = "away") THEN "identity" ELSE "none"

\* The registration is settled only once the tree is at no path of the job's.
AdmitRegistration(j) ==
    /\ Admits(j, "deleting_registration")
    /\ \/ /\ Here(j)
          /\ Enter(j, "claimed") /\ Goto("admit", j) /\ UNCHANGED <<native, owned>>
       \/ ~Here(j) /\ ~Placed /\ Enter(j, "done") /\ Finished
       \/ ~Here(j) /\ Placed /\ AdminReason(j) # "none" /\ Block(j, AdminReason(j))
       \/ /\ ~Here(j) /\ Placed /\ AdminReason(j) = "none"
          /\ Goto("openRoot", j) /\ UNCHANGED <<rec, native, owned>>
    /\ UNCHANGED <<fs, paused, hold, open, root, since, seen, world>>

\* The root is opened and its first slice runs in the same turn. A tree gone
\* meanwhile is settled by the next admission; an admin directory gone is done.
OpenRoot(j) ==
    /\ step = "openRoot" /\ who = j
    /\ \/ shut /\ Finished /\ UNCHANGED <<rec, open, root, since>>
       \/ /\ ~shut /\ IF rec[j].phase = "deleting_tree" THEN Here(j) ELSE Placed
          /\ open' = j /\ since' = 0
          /\ root' = IF rec[j].phase = "deleting_tree" THEN "tree" ELSE "admin"
          /\ Goto("slice", j) /\ UNCHANGED <<rec, native, owned>>
       \/ /\ ~shut /\ rec[j].phase = "deleting_tree" /\ ~Here(j)
          /\ Finished /\ UNCHANGED <<rec, open, root, since>>
       \/ /\ ~shut /\ rec[j].phase # "deleting_tree" /\ ~Placed
          /\ Enter(j, "done") /\ Finished /\ UNCHANGED <<open, root, since>>
    /\ UNCHANGED <<fs, paused, hold, seen, world>>

\* Mutant: slices run on without admission.
SlicesUnpaced(j, r) ==
    /\ open = j /\ root = r
    /\ (step = "slice" /\ who = j) \/ (Idle /\ ~Halted /\ ~shut)
Slices(j, r) ==
    /\ open = j /\ root = r
    /\ (step = "slice" /\ who = j) \/ (Idle /\ ~Halted /\ ~shut /\ since < Readmit)

\* Each slice proves that its root still sits where it was opened.
SliceTree(j) ==
    /\ Slices(j, "tree")
    /\ \/ /\ ~Here(j)
          /\ Block(j, "delete") /\ NoDeletion /\ UNCHANGED <<at, left, holder, strays>>
       \/ /\ Here(j) /\ left > 1
          /\ left' = left - 1 /\ since' = since + 1
          /\ strays' = IF holder THEN strays + 1 ELSE 0
          /\ Finished /\ UNCHANGED <<at, holder, rec, open, root>>
       \/ /\ Here(j) /\ left = 1
          /\ left' = 0 /\ at' = "gone" /\ holder' = FALSE /\ strays' = 0
          /\ Finished /\ NoDeletion /\ UNCHANGED rec
    /\ UNCHANGED <<edits, head, kept, admin, lock, back, fresh, ref, paused, hold,
                   headLate, editLate, world>>

\* Entries leave the admin directory in any order: its marker, its backlink,
\* something else the proofs read ("partial"), and the directory last.
SliceAdmin(j) ==
    /\ Slices(j, "admin")
    /\ \/ ~Placed /\ Block(j, "delete") /\ NoDeletion /\ UNCHANGED <<admin, lock, back>>
       \/ /\ Placed /\ admin' \in {admin, "partial"}
          /\ lock' \in {lock, "none"} /\ back' \in {back, "empty"}
          /\ <<admin, lock, back>>' # <<admin, lock, back>>
          /\ since' = since + 1
          /\ Finished /\ UNCHANGED <<rec, open, root>>
       \/ /\ Placed
          /\ admin' = "gone" /\ lock' = "none" /\ back' = "empty"
          /\ Enter(j, "done") /\ Finished /\ NoDeletion
    /\ UNCHANGED <<at, left, edits, head, kept, holder, fresh, ref, paused, hold, seen,
                   world>>

Due(j, r)   == Idle /\ ~Halted /\ ~shut /\ open = j /\ root = r /\ since >= Readmit
Readmitted  == since' = 0 /\ UNCHANGED <<rec, step, who, native, owned, open, root>>
Parked      == NoDeletion /\ UNCHANGED <<rec, step, who, native, owned>>

ReadmitTree(j) ==
    /\ Due(j, "tree")
    /\ \/ ~Here(j) /\ Parked
       \/ Here(j) /\ RecheckReason(j) = "none" /\ Readmitted
       \/ Here(j) /\ RecheckReason(j) # "none" /\ Block(j, RecheckReason(j)) /\ NoDeletion
    /\ UNCHANGED <<fs, paused, hold, seen, world>>

ReadmitAdmin(j) ==
    /\ Due(j, "admin")
    /\ \/ (Here(j) \/ ~Placed) /\ Parked
       \/ ~Here(j) /\ Placed /\ AdminReason(j) = "none" /\ Readmitted
       \/ ~Here(j) /\ Placed /\ AdminReason(j) # "none" /\ Block(j, AdminReason(j)) /\ NoDeletion
    /\ UNCHANGED <<fs, paused, hold, seen, world>>

\* Another job is due, the governor's rate is zero, or the gate has shut.
Park ==
    /\ Idle /\ open # NoJob /\ Parked
    /\ UNCHANGED <<fs, paused, hold, seen, world>>

-----------------------------------------------------------------------------
(* What the daemon does not decide: budgets that expire, crashes, time, and  *)
(* the user's own work in the tree and on its registration.                  *)

Happens(kind) == kind \in External /\ events < MaxExternal /\ events' = events + 1

\* A git child or a probe outlives its budget.
StepTimesOut(j) ==
    /\ Happens("timeout")
    /\ \/ step \in Probing /\ who = j
       \/ CanClaim(j)
       \/ CanRetire(j)
       \/ Admits(j, "claimed")
       \/ Admits(j, "deleting_tree")
    /\ Block(j, "timeout")
    /\ UNCHANGED <<fs, paused, hold, open, root, since, seen, shut, crashes>>

\* The daemon dies, or is stopped, between two durable effects.
Crash ==
    /\ crashes < MaxCrash /\ crashes' = crashes + 1
    /\ step' = "idle" /\ who' = NoJob /\ native' = FALSE /\ owned' = FALSE
    /\ NoDeletion /\ shut' = TRUE
    /\ UNCHANGED <<fs, journal, seen, events>>

\* The worker samples the machine: the gate shuts when it is busy, and opens
\* after enough quiet samples. A daemon that starts has it shut.
Sample ==
    /\ Idle /\ shut' = ~shut
    /\ UNCHANGED <<fs, journal, worker, seen, events, crashes>>

\* The quiet interval of HEAD passes, and with it what a job waits for.
HourPasses ==
    /\ fresh \/ \E j \in Job : rec[j].rests
    /\ fresh' = FALSE
    /\ rec' = [j \in Job |-> [rec[j] EXCEPT !.rests = FALSE]]
    /\ UNCHANGED <<at, left, edits, head, kept, holder, admin, lock, back, ref,
                   paused, hold, worker, seen, world>>

Edit ==
    /\ Happens("edit") /\ at # "gone" /\ ~edits
    /\ edits' = TRUE /\ editLate' = TRUE
    /\ UNCHANGED <<at, left, head, kept, holder, admin, lock, back, fresh, ref,
                   journal, worker, headLate, strays, shut, crashes>>

\* The user commits what the tree holds, on a branch or on a detached HEAD.
CommitWork(c, branch) ==
    /\ Happens("commit") /\ at # "gone" /\ left = TreeSize /\ admin = "whole" /\ c # head
    /\ head' = c /\ edits' = FALSE /\ fresh' = TRUE /\ headLate' = TRUE
    /\ kept' = IF branch THEN kept \cup {c} ELSE kept
    /\ UNCHANGED <<at, left, holder, admin, lock, back, ref, journal, worker, editLate,
                   strays, shut, crashes>>

DropBranch(c) ==
    /\ Happens("branch") /\ c \in kept
    /\ kept' = kept \ {c}
    /\ UNCHANGED <<at, left, edits, head, holder, admin, lock, back, fresh, ref,
                   journal, worker, seen, shut, crashes>>

EnterTree ==
    /\ Happens("holder") /\ at # "gone" /\ ~holder
    /\ holder' = TRUE
    /\ UNCHANGED <<at, left, edits, head, kept, admin, lock, back, fresh, ref,
                   journal, worker, seen, shut, crashes>>

LeaveTree ==
    /\ holder
    /\ holder' = FALSE /\ strays' = 0
    /\ UNCHANGED <<at, left, edits, head, kept, admin, lock, back, fresh, ref,
                   journal, worker, headLate, editLate, world>>

\* git names a worktree by its backlink, so an empty one hides it.
Listed == admin = "whole" /\ back # "empty"

GitLock ==
    /\ Happens("lock") /\ Listed /\ lock = "none"
    /\ lock' = "user"
    /\ UNCHANGED <<at, left, edits, head, kept, holder, admin, back, fresh, ref,
                   journal, worker, seen, shut, crashes>>

\* Unlocking is maintenance, which the docs keep under a hold (lines 111-118).
GitUnlock ==
    /\ Happens("unlock") /\ Listed /\ lock # "none" /\ hold # NoHold
    /\ lock' = "none"
    /\ UNCHANGED <<at, left, edits, head, kept, holder, admin, back, fresh, ref,
                   journal, worker, seen, shut, crashes>>

\* git worktree move writes the new backlink; it refuses a locked worktree.
GitMove ==
    /\ Happens("move") /\ Listed /\ lock = "none" /\ back = "tree" /\ at = "original"
    /\ at' = "away" /\ back' = "elsewhere"
    /\ UNCHANGED <<left, edits, head, kept, holder, admin, lock, fresh, ref,
                   journal, worker, seen, shut, crashes>>

MoveAway ==
    /\ Happens("move") /\ at = "original" /\ at' = "away"
    /\ UNCHANGED <<left, edits, head, kept, holder, admin, lock, back, fresh, ref,
                   journal, worker, seen, shut, crashes>>

\* What was moved away may come back: the bound counts the leaving only.
MoveBack ==
    /\ at = "away" /\ at' = "original"
    /\ UNCHANGED <<left, edits, head, kept, holder, admin, lock, back, fresh, ref,
                   journal, worker, seen, world>>

\* rm -rf of the tree, by the user or by a tool.
DeleteTree ==
    /\ Happens("delete") /\ at \in {"original", "away"}
    /\ at' = "gone" /\ left' = 0 /\ holder' = FALSE /\ strays' = 0
    /\ UNCHANGED <<edits, head, kept, admin, lock, back, fresh, ref, journal, worker,
                   headLate, editLate, shut, crashes>>

\* Prune drops an unlocked registration that names nothing.
Prunable == /\ Placed /\ lock = "none"
            /\ \/ back = "empty"
               \/ back = "tree" /\ at # "original"
               \/ back = "elsewhere" /\ at # "away"
Prune ==
    /\ Happens("prune") /\ Prunable
    /\ admin' = "gone" /\ back' = "empty"
    /\ UNCHANGED <<at, left, edits, head, kept, holder, lock, fresh, ref,
                   journal, worker, seen, shut, crashes>>

-----------------------------------------------------------------------------
Request(j) ==
    \/ \E force \in BOOLEAN : Remove(j, force) \/ Defer(j, force)
    \/ Cancel(j) \/ Retry(j)
Claim(j) ==
    \/ AwaitInactivity(j) \/ ClaimProve(j) \/ ClaimQuiet(j) \/ ClaimPin(j)
    \/ ClaimIntent(j) \/ ClaimLock(j) \/ ClaimEnter(j)
Retire(j) ==
    \/ RetireProve(j) \/ RetireIntent(j) \/ RetireLock(j) \/ RetirePin(j)
    \/ RetireIdle(j) \/ RetireHide(j) \/ RetireEnd(j)
Delete(j) ==
    \/ AdmitClaimed(j) \/ AdmitQuiet(j) \/ AdmitTree(j) \/ AdmitStatus(j)
    \/ Unregister(j) \/ Rename(j) \/ AdmitEnter(j)
    \/ AdmitRegistration(j) \/ OpenRoot(j) \/ SliceTree(j) \/ SliceAdmin(j)
    \/ ReadmitTree(j) \/ ReadmitAdmin(j)
Switch ==
    \/ Pause \/ Resume \/ \E h \in Holder : Take(h) \/ Release(h)
User ==
    \/ Edit \/ EnterTree \/ LeaveTree \/ GitLock \/ GitUnlock \/ GitMove
    \/ MoveAway \/ MoveBack \/ DeleteTree \/ Prune
    \/ \E c \in Commit : DropBranch(c) \/ \E branch \in BOOLEAN : CommitWork(c, branch)

Work(j) ==
    \/ Claim(j) \/ Retire(j) \/ Delete(j) \/ AutoRetry(j)
    \/ CancelUnlock(j) \/ CancelDiscard(j)
Next ==
    \/ \E j \in Job : Request(j) \/ Work(j) \/ StepTimesOut(j)
    \/ Switch \/ Reconcile \/ Park \/ Sample \/ Crash \/ HourPasses \/ User

Spec == Init /\ [][Next]_vars

\* The worker takes the turns of engine.go:777 in an order that starves none. A
\* gate that opens stays open for a sampling interval, and a turn runs before the
\* next sample: a claim or deletion the gate lets run again and again is taken up.
\* The clock runs, and a process that sits in the tree leaves at last. The daemon
\* promises nothing of the user's requests, its switch, the gate, or crashes.
Fairness ==
    /\ \A j \in Job : /\ SF_vars(Claim(j)) /\ SF_vars(Delete(j)) /\ WF_vars(Retire(j))
                      /\ WF_vars(CancelUnlock(j) \/ CancelDiscard(j))
    /\ WF_vars(HourPasses) /\ WF_vars(LeaveTree)
FairSpec == Spec /\ Fairness

-----------------------------------------------------------------------------
(* Properties *)

Record == [phase : Phase, retirement : {"", "intent", "retired"}, blocked : Reason,
           head : Commit \cup {NoCommit}, force : BOOLEAN, moved : BOOLEAN, rests : BOOLEAN]

TreeType ==
    /\ at \in {"original", "away", "gone"} \cup Job
    /\ left \in 0..TreeSize /\ edits \in BOOLEAN
    /\ head \in Commit /\ kept \in SUBSET Commit /\ holder \in BOOLEAN
    /\ admin \in {"whole", "partial", "gone"} /\ lock \in {"none", "user"} \cup Job
    /\ back \in {"tree", "empty", "elsewhere"} /\ fresh \in BOOLEAN
    /\ ref \in [Job -> Commit \cup {NoCommit}]
JournalType ==
    rec \in [Job -> Record] /\ paused \in BOOLEAN /\ hold \in Holder \cup {NoHold}
StepType ==
    step \in Steps /\ who \in Job \cup {NoJob} /\ native \in BOOLEAN /\ owned \in BOOLEAN
RootType ==
    /\ open \in Job \cup {NoJob} /\ root \in {"none", "tree", "admin"}
    /\ since \in 0..Readmit
SeenType ==
    /\ headLate \in BOOLEAN /\ editLate \in BOOLEAN /\ strays \in Nat
    /\ shut \in BOOLEAN /\ events \in 0..MaxExternal /\ crashes \in 0..MaxCrash

\* Every variable keeps to its range: a registration is whole, missing an entry
\* or gone, and no admission outlasts Readmit slices.
TypeOK == TreeType /\ JournalType /\ StepType /\ RootType /\ SeenType

\* The removals the journal answers for: those that mean to touch the
\* registration, and those that are deleting.
Answers(j) == rec[j].retirement # "" \/ rec[j].phase \in Physical

\* The intent is journaled before the marker is linked, and the record goes
\* only after it: a marker never outlives its job, whenever the daemon dies.
MarkerIsJournaled == \A j \in Job : lock = j => Answers(j)

\* A registration git no longer lists belongs to a removal in the journal,
\* which hides it under its own marker or is deleting. Otherwise git prune
\* would drop it and nothing would restore the worktree.
HiddenIsOwned ==
    Placed /\ back = "empty" =>
        \E j \in Job : Answers(j) /\ (lock = j \/ rec[j].phase \in Physical)

\* Two removals of one tree never delete it together, and neither deletes it
\* under a lock of the user's: while git still registers the tree, its deletion
\* runs under the marker of the job that deletes.
DeletesUnderOwnMarker ==
    \A j \in Job : open = j /\ root = "tree" /\ Placed => lock = j

\* A tree under deletion has the HEAD its job saved pinned by the recovery ref.
PinnedWhileDeleting ==
    \A j \in Job : open = j /\ root = "tree" => Pinned(j)

\* Nothing a proof could see is lost: a tree under deletion holds no work outside
\* a commit but what the user edited after the last proof read its status, and
\* its HEAD is the pinned one unless it moved after that proof compared it.
\* --force waives the first, and the second for a tree that has lost its
\* registration. Between the two reads the proof probes, and a commit then is
\* admitted unpinned: the status that follows is clean.
ProvenWhileDeleting ==
    \A j \in Job : open = j /\ root = "tree" =>
        /\ edits => rec[j].force \/ editLate
        /\ head = rec[j].head \/ headLate \/ (rec[j].force /\ ~Placed)

\* A process that enters a tree under deletion stops it within one admission,
\* however the deletion is parked, resumed or restarted meanwhile.
StraysAreBounded == strays <= Readmit

\* A job is done once the tree and its registration are gone (job.go:68).
DoneMeansGone == \A j \in Job : rec[j].phase = "done" => ~Here(j) /\ ~Placed

\* A hold freezes the registration, and a hold or a pause the deletion: only
\* the user's own events change either under it, a step under way, an open
\* deletion or a restart notwithstanding.
HaltFreezes ==
    [][/\ hold # NoHold /\ ~User => UNCHANGED <<at, left, admin, lock, back, ref>>
       /\ paused /\ ~User => UNCHANGED <<at, left, admin>>]_vars

\* "A lane that commits meanwhile changes HEAD, which blocks the job before
\* retirement and keeps the registration" (docs/worktree-cleanup.md:122): a
\* retirement hides only a registration whose HEAD is the one the job captured.
HiddenAtCapturedHead ==
    [][\A j \in Job : rec[j].phase \in Logical /\ lock = j /\ back = "tree" /\ back' = "empty"
                        => head = rec[j].head]_vars

\* Every removal ends: it is deleted, cancelled or blocked with a reason, when
\* deletion may run again and again, neither halted nor held by the gate. A
\* process in the tree that leaves, a HEAD that moves, a tree that moves away and
\* back or is pruned meanwhile, and a daemon that dies delay it and strand none.
MayRun      == ~Halted /\ ~shut
Ended(j)    == rec[j].phase \in {"done", "discarded"} \/ rec[j].blocked # "none"
RemovalEnds == \A j \in Job : []<>MayRun => (rec[j].phase # "absent" ~> Ended(j))
=============================================================================
