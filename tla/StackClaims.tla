----------------------------- MODULE StackClaims -----------------------------
(***************************************************************************)
(* The run directories of `ccx vcs stack' (internal/cli/stackrebase.go).   *)
(* A stack rebase claims a directory for every branch it writes; the first *)
(* holds its saved state, the others name the first.  Nothing but the file *)
(* system keeps processes apart: a directory is claimed by making it, and  *)
(* a run whose process died is taken aside by renaming its directory,      *)
(* adopted under a lock inside it, or continued.                           *)
(*                                                                         *)
(* One action is one file operation, or several that nobody can tell       *)
(* apart.  A modification time is the number of the save that left it.     *)
(***************************************************************************)
EXTENDS Integers, Sequences, FiniteSets, SequencesExt

CONSTANTS
    Process,      \* processes, one command each
    Name,         \* branches
    NoName,
    NoRun,
    Claimable,    \* the claims a run may have: a sequence of branches
    Tasks,        \* what the processes may have been started to do
    MaxSaves,     \* bound on saves, and so on what a driver does
    MaxWaits,     \* bound on waits of stackStaleAfter
    MaxDeaths,    \* bound on processes that die
    MaxGone       \* bound on branches that land or are deleted

ASSUME NameAssumption  == NoName \notin Name
ASSUME ClaimAssumption == /\ Claimable \subseteq Seq(Name) \ {<<>>}
                          /\ \A c \in Claimable : IsInjective(c)
ASSUME SizeAssumption  == {MaxSaves, MaxWaits, MaxDeaths, MaxGone} \subseteq Nat
ASSUME TaskAssumption  == Tasks \subseteq [Process -> [command : {"rebase", "ship", "continue"},
                                                   claims  : Claimable]]

VARIABLES
  \* The state directory.
    dir,        \* the run directory of each branch
    tomb,       \* the directory each process took aside
    saves,      \* saves so far
    stale,      \* the saves older than stackStaleAfter
    waits, deaths,
    gone,       \* the branches that have landed or been deleted
  \* The processes.
    pc,         \* where each is
    task,       \* its command, and the claims of the run it is to begin
    seen,       \* the runs it has read and not yet dealt with
    run,        \* the run in its hands
    index,      \* how many of its claims it has been through
    finished    \* whether a run of another's ended meanwhile

time == <<stale, waits, deaths, gone>>
vars == <<dir, tomb, saves, time, pc, task, seen, run, index, finished>>

-----------------------------------------------------------------------------
(* A run is its saved state: `born' is the process that began it.  `saved' *)
(* is the modification time of the state a reader found.                   *)

Stage == {"replaying", "conflict", "applied", "pushing"}
Runs  == [born : Process, claims : Claimable, pid : Process, stage : Stage, saved : 1 .. MaxSaves]

ASSUME RunAssumption == NoRun \notin Runs

NoDir == [made |-> FALSE, state |-> NoRun, owner |-> NoName, adopting |-> FALSE, old |-> FALSE]
Dirs  == [made : BOOLEAN, state : Runs \cup {NoRun}, owner : Name \cup {NoName},
          adopting : BOOLEAN, old : BOOLEAN]

(* A directory just made; `old' is false until stackStaleAfter passes over *)
(* it, and again when an entry of it changes.                              *)
NewDir(owner) == [NoDir EXCEPT !.made = TRUE, !.owner = owner]

Ended   == {"idle", "refused", "failed", "done", "stopped", "dead"}
Busy    == {"claiming", "burying", "burial", "making", "judging", "dropping", "adopting",
            "signing", "taking", "clearing"}
Live(p) == pc[p] \notin Ended

command(p) == task[p].command
claims(p)  == task[p].claims

Bottom(r) == r.claims[1]

Overlaps(c, d) == Range(c) \cap Range(d) # {}

Saved == {dir[n].state : n \in Name} \ {NoRun}

(* Every branch the run writes has landed or been deleted.                 *)
Settled(r) == Range(r.claims) \subseteq gone

Ignored(p, r) == command(p) = "ship" /\ r.stage \notin {"conflict", "applied"} /\ ~Live(r.pid)

(* The runs that are taken aside: those that are settled, those a ship     *)
(* goes past, and those that have not saved for stackStaleAfter, unless    *)
(* refs have moved or a push may have.  A conflict's workspace is gone,    *)
(* its branches have moved or it is as good as forgotten, if it is one.    *)
Reclaimed(p, r) ==
    /\ ~Live(r.pid)
    /\ \/ Settled(r) /\ (Overlaps(r.claims, claims(p)) \/ r.stage # "conflict")
       \/ /\ Overlaps(r.claims, claims(p))
          /\ Ignored(p, r) \/ (r.saved \in stale /\ r.stage \in {"replaying", "conflict"})

(* The runs that are finished or resumed: a push that has arrived, or a    *)
(* run of the same worktree; anything may also be refused, as in progress. *)
Adopted(p, r) ==
    /\ ~Live(r.pid) /\ Overlaps(r.claims, claims(p))
    /\ ~Ignored(p, r) /\ r.stage # "conflict"

(* A claim nobody saved a state under, nor under the claim it names.       *)
Abandoned(n) ==
    /\ dir[n].made /\ dir[n].old /\ dir[n].state = NoRun
    /\ dir[n].owner # NoName => dir[dir[n].owner].state = NoRun

-----------------------------------------------------------------------------
Init ==
    /\ dir = [n \in Name |-> NoDir]
    /\ tomb = [p \in Process |-> NoDir]
    /\ saves = 0
    /\ stale = {}
    /\ waits = 0 /\ deaths = 0 /\ gone = {}
    /\ pc = [p \in Process |-> "idle"]
    /\ task \in Tasks
    /\ seen = [p \in Process |-> {}]
    /\ run = [p \in Process |-> NoRun]
    /\ index = [p \in Process |-> 0]
    /\ finished = [p \in Process |-> FALSE]

Goto(p, where) == pc' = [pc EXCEPT ![p] = where]

(* stackSaveRun: a temporary file in the run's directory, renamed over its *)
(* state.  It succeeds if there is a directory of that name, whoever's.    *)
Store(r, adopting) ==
    dir' = [dir EXCEPT ![Bottom(r)] =
              [@ EXCEPT !.state = [r EXCEPT !.saved = saves + 1], !.old = FALSE, !.adopting = adopting]]

Save(p, r, adopting) ==
    /\ saves < MaxSaves
    /\ saves' = saves + 1
    /\ Store(r, adopting)
    /\ run' = [run EXCEPT ![p] = r]

NoPlace(r) == ~dir[Bottom(r)].made

(* The command is over, and nobody knows what it had in hand.              *)
End(p, how) ==
    /\ Goto(p, how)
    /\ seen' = [seen EXCEPT ![p] = {}]
    /\ run' = [run EXCEPT ![p] = NoRun]
    /\ index' = [index EXCEPT ![p] = 0]
    /\ finished' = [finished EXCEPT ![p] = FALSE]

Fail(p) == End(p, "failed") /\ UNCHANGED <<dir, tomb, saves, time, task>>

(* os.RemoveAll of the directory of a branch, whoever's it is.             *)
Erase(n) == dir' = [dir EXCEPT ![n] = NoDir]

-----------------------------------------------------------------------------
(* runStackRebase, stackBegin: the saved runs are read, and each that      *)
(* overlaps is dealt with as it was read, those of the process's worktree  *)
(* and branch before the plan is made and the others after.  A run that    *)
(* stopped in this worktree refuses it whatever that run owns.             *)

Read(p) ==
    /\ pc[p] = "idle" /\ command(p) # "continue"
    /\ seen' = [seen EXCEPT ![p] = Saved]
    /\ finished' = [finished EXCEPT ![p] = FALSE]
    /\ Goto(p, "admitting")
    /\ UNCHANGED <<dir, tomb, saves, time, task, run, index>>

Admit(p, r) ==
    /\ pc[p] = "admitting" /\ r \in seen[p]
    /\ \/ /\ Overlaps(r.claims, claims(p)) \/ r.stage = "conflict"
          /\ ~Ignored(p, r)
          /\ End(p, "refused")
       \/ /\ ~Overlaps(r.claims, claims(p))
          /\ seen' = [seen EXCEPT ![p] = @ \ {r}]
          /\ UNCHANGED <<pc, run, index, finished>>
       \/ /\ Reclaimed(p, r)
          /\ Goto(p, "renaming")
          /\ seen' = [seen EXCEPT ![p] = @ \ {r}]
          /\ run' = [run EXCEPT ![p] = r]
          /\ UNCHANGED <<index, finished>>
       \/ /\ Adopted(p, r)
          /\ Goto(p, "locking")
          /\ seen' = [seen EXCEPT ![p] = @ \ {r}]
          /\ run' = [run EXCEPT ![p] = r]
          /\ UNCHANGED <<index, finished>>
    /\ UNCHANGED <<dir, tomb, saves, time, task>>

(* If the gate said of a run that it ended, the saved runs are read and    *)
(* the plan is made anew.                                                  *)
Admitted(p) ==
    /\ pc[p] = "admitting" /\ seen[p] = {}
    /\ Goto(p, IF finished[p] THEN "idle" ELSE "claiming")
    /\ UNCHANGED <<dir, tomb, saves, time, task, seen, run, index, finished>>

(* The run in hand is done with, and the next of those read is dealt with. *)
(* What the gate says of a run before the plan is made is not listened to. *)
Onward(p, ended) ==
    /\ Goto(p, "admitting")
    /\ \E planned \in BOOLEAN : finished' = [finished EXCEPT ![p] = @ \/ (planned /\ ended)]
    /\ run' = [run EXCEPT ![p] = NoRun]
    /\ index' = [index EXCEPT ![p] = 0]
    /\ UNCHANGED seen

(* errStackRunGone, which only the gate takes for a run that ended: a      *)
(* settled run apart, and one a ship goes past, are none of its business.  *)
Gone(p) == /\ Onward(p, Overlaps(run[p].claims, claims(p)) /\ ~Ignored(p, run[p]))
           /\ UNCHANGED <<dir, tomb, saves, time, task>>

-----------------------------------------------------------------------------
(* stackReclaim. *)

\* Mutant: the directory is copied aside, to be removed with its claims.
TakeCopy(p) ==
    /\ pc[p] = "renaming"
    /\ LET n == Bottom(run[p])
       IN  \/ ~dir[n].made /\ Gone(p)
           \/ /\ dir[n].made
              /\ tomb' = [tomb EXCEPT ![p] = dir[n]]
              /\ Goto(p, "judging")
              /\ UNCHANGED <<dir, saves, time, task, seen, run, index, finished>>

TakeAside(p) ==
    /\ pc[p] = "renaming"
    /\ LET n == Bottom(run[p])
       IN  \/ ~dir[n].made /\ Gone(p)
           \/ /\ dir[n].made
              /\ tomb' = [tomb EXCEPT ![p] = dir[n]]
              /\ Erase(n)
              /\ Goto(p, "judging")
              /\ UNCHANGED <<saves, time, task, seen, run, index, finished>>

\* Mutant: whether the run has saved since is not looked at.
AsReadBlind(p) == tomb[p].state # NoRun

AsRead(p) == tomb[p].state # NoRun /\ tomb[p].state.saved = run[p].saved

(* A run that has saved since is put back, if its place is still free.     *)
PutBack(p) ==
    /\ pc[p] = "judging" /\ ~AsRead(p)
    /\ LET n == Bottom(run[p])
       IN  \/ /\ ~dir[n].made
              /\ dir' = [dir EXCEPT ![n] = tomb[p]]
              /\ tomb' = [tomb EXCEPT ![p] = NoDir]
              /\ End(p, "refused")
           \/ /\ dir[n].made
              /\ End(p, "failed")
              /\ UNCHANGED <<dir, tomb>>
    /\ UNCHANGED <<saves, time, task>>

Condemn(p) ==
    /\ pc[p] = "judging" /\ AsRead(p)
    /\ Goto(p, "dropping")
    /\ index' = [index EXCEPT ![p] = 1]
    /\ UNCHANGED <<dir, tomb, saves, time, task, seen, run, finished>>

DropClaim(p) ==
    /\ pc[p] = "dropping" /\ index[p] < Len(run[p].claims)
    /\ Erase(run[p].claims[index[p] + 1])
    /\ index' = [index EXCEPT ![p] = @ + 1]
    /\ UNCHANGED <<tomb, saves, time, pc, task, seen, run, finished>>

DropRun(p) ==
    /\ pc[p] = "dropping" /\ index[p] = Len(run[p].claims)
    /\ tomb' = [tomb EXCEPT ![p] = NoDir]
    /\ Onward(p, FALSE)
    /\ UNCHANGED <<dir, saves, time, task>>

-----------------------------------------------------------------------------
(* stackAdopt, stackTakeOver. *)

AdoptLock(p) ==
    /\ pc[p] = "locking"
    /\ LET n == Bottom(run[p])
       IN  \/ ~dir[n].made /\ Gone(p)
           \/ dir[n].adopting /\ Fail(p)
           \/ /\ dir[n].made /\ ~dir[n].adopting
              /\ dir' = [dir EXCEPT ![n] = [@ EXCEPT !.adopting = TRUE, !.old = FALSE]]
              /\ Goto(p, "adopting")
              /\ UNCHANGED <<tomb, saves, time, task, seen, run, index, finished>>

Unlock(n) == dir' = [dir EXCEPT ![n].adopting = FALSE]

AdoptCheck(p) ==
    /\ pc[p] = "adopting"
    /\ LET n == Bottom(run[p])
           s == dir[n].state
       IN  \/ /\ s = NoRun
              /\ Unlock(n)
              /\ Onward(p, TRUE)
           \/ /\ s # NoRun /\ s.saved # run[p].saved
              /\ Unlock(n)
              /\ End(p, "refused")
           \/ /\ s # NoRun /\ s.saved = run[p].saved
              /\ Goto(p, "signing")
              /\ UNCHANGED <<dir, seen, run, index, finished>>
    /\ UNCHANGED <<tomb, saves, time, task>>

(* The second save, of stackTakeOver, tells nobody anything.               *)
AdoptSave(p) ==
    /\ pc[p] = "signing"
    /\ \/ NoPlace(run[p]) /\ Fail(p)
       \/ /\ ~NoPlace(run[p])
          /\ Save(p, [run[p] EXCEPT !.pid = p], FALSE)
          /\ Goto(p, "driving")
          /\ UNCHANGED <<tomb, time, task, seen, index, finished>>

-----------------------------------------------------------------------------
(* stackResolveRun, of `continue' and `abort': the run is read, its        *)
(* process found exited, and the run saved as this process's.              *)

Resolve(p) ==
    /\ pc[p] = "idle" /\ command(p) = "continue"
    /\ \E r \in Saved :
          \/ Live(r.pid) /\ End(p, "refused")
          \/ /\ ~Live(r.pid)
             /\ Goto(p, "taking")
             /\ run' = [run EXCEPT ![p] = r]
             /\ UNCHANGED <<seen, index, finished>>
    /\ UNCHANGED <<dir, tomb, saves, time, task>>

TakeOver(p) ==
    /\ pc[p] = "taking"
    /\ \/ NoPlace(run[p]) /\ Fail(p)
       \/ /\ ~NoPlace(run[p])
          /\ Save(p, [run[p] EXCEPT !.pid = p], dir[Bottom(run[p])].adopting)
          /\ Goto(p, "driving")
          /\ UNCHANGED <<tomb, time, task, seen, index, finished>>

-----------------------------------------------------------------------------
(* stackClaim: a directory per claim, one after the other.                 *)

Wanted(p) == claims(p)[index[p] + 1]

Claims(p) == pc[p] = "claiming" /\ index[p] < Len(claims(p))

(* A claim left without state for stackStaleAfter is taken aside first.    *)
Disturb(p) ==
    /\ Claims(p) /\ Abandoned(Wanted(p))
    /\ Goto(p, "burying")
    /\ UNCHANGED <<dir, tomb, saves, time, task, seen, run, index, finished>>

Bury(p) ==
    /\ pc[p] = "burying"
    /\ \/ /\ ~dir[Wanted(p)].made
          /\ Goto(p, "making")
          /\ UNCHANGED <<dir, tomb>>
       \/ /\ dir[Wanted(p)].made
          /\ tomb' = [tomb EXCEPT ![p] = dir[Wanted(p)]]
          /\ Erase(Wanted(p))
          /\ Goto(p, "burial")
    /\ UNCHANGED <<saves, time, task, seen, run, index, finished>>

\* Mutant: what was taken aside stays there.
BuriedLeft(p) ==
    /\ pc[p] = "burial"
    /\ Goto(p, "making")
    /\ UNCHANGED <<dir, tomb, saves, time, task, seen, run, index, finished>>

(* What has been written to since is put back, if its place is still free. *)
Buried(p) ==
    /\ pc[p] = "burial"
    /\ LET kept == tomb[p].state # NoRun \/ ~tomb[p].old
       IN  \/ /\ kept /\ dir[Wanted(p)].made
              /\ End(p, "failed")
              /\ UNCHANGED <<dir, tomb>>
           \/ /\ kept => ~dir[Wanted(p)].made
              /\ dir' = [dir EXCEPT ![Wanted(p)] = IF kept THEN tomb[p] ELSE @]
              /\ tomb' = [tomb EXCEPT ![p] = NoDir]
              /\ Goto(p, "making")
              /\ UNCHANGED <<seen, run, index, finished>>
    /\ UNCHANGED <<saves, time, task>>

Makes(p) == pc[p] = "making" \/ (Claims(p) /\ ~Abandoned(Wanted(p)))

Make(p) ==
    /\ Makes(p) /\ ~dir[Wanted(p)].made
    /\ dir' = [dir EXCEPT ![Wanted(p)] = NewDir(IF index[p] = 0 THEN NoName ELSE claims(p)[1])]
    /\ index' = [index EXCEPT ![p] = @ + 1]
    /\ Goto(p, "claiming")
    /\ UNCHANGED <<tomb, saves, time, task, seen, run, finished>>

(* The claims made so far are given up, those that are empty: a directory  *)
(* that names its owner is not.                                            *)
Empty(d) == d.state = NoRun /\ d.owner = NoName /\ ~d.adopting

GiveUp(p) ==
    /\ Makes(p) /\ dir[Wanted(p)].made
    /\ dir' = [n \in Name |-> IF (\E i \in 1 .. index[p] : claims(p)[i] = n) /\ Empty(dir[n])
                              THEN NoDir ELSE dir[n]]
    /\ End(p, "refused")
    /\ UNCHANGED <<tomb, saves, time, task>>

FirstSave(p) ==
    /\ pc[p] = "claiming" /\ index[p] = Len(claims(p))
    /\ \/ ~dir[claims(p)[1]].made /\ Fail(p)
       \/ /\ dir[claims(p)[1]].made
          /\ saves < MaxSaves
          /\ Save(p, [born |-> p, claims |-> claims(p), pid |-> p, stage |-> "replaying",
                      saved |-> saves + 1], dir[claims(p)[1]].adopting)
          /\ Goto(p, "driving")
          /\ index' = [index EXCEPT ![p] = 0]
          /\ UNCHANGED <<tomb, time, task, seen, finished>>

-----------------------------------------------------------------------------
(* stackDrive saves as it goes: stopped on a conflict it exits, otherwise  *)
(* it moves branches and pushes; at its end, or at an abort, the           *)
(* directories go, one after the other.                                    *)

Progress(p, stage) ==
    /\ pc[p] = "driving" /\ stage # "conflict"
    /\ \/ NoPlace(run[p]) /\ Fail(p)
       \/ /\ ~NoPlace(run[p])
          /\ Save(p, [run[p] EXCEPT !.stage = stage], dir[Bottom(run[p])].adopting)
          /\ UNCHANGED <<tomb, time, pc, task, seen, index, finished>>

Stop(p) ==
    /\ pc[p] = "driving"
    /\ \/ NoPlace(run[p]) /\ Fail(p)
       \/ /\ ~NoPlace(run[p])
          /\ saves < MaxSaves
          /\ saves' = saves + 1
          /\ Store([run[p] EXCEPT !.stage = "conflict"], dir[Bottom(run[p])].adopting)
          /\ End(p, "stopped")
          /\ UNCHANGED <<tomb, time, task>>

Clear(p) ==
    /\ pc[p] \in {"driving", "clearing"} /\ index[p] < Len(run[p].claims)
    /\ Erase(run[p].claims[index[p] + 1])
    /\ index' = [index EXCEPT ![p] = @ + 1]
    /\ Goto(p, "clearing")
    /\ UNCHANGED <<tomb, saves, time, task, seen, run, finished>>

(* An adopted run over, the command that adopted it goes on with its own.  *)
Cleared(p) ==
    /\ pc[p] = "clearing" /\ index[p] = Len(run[p].claims)
    /\ IF run[p].born # p /\ command(p) # "continue"
         THEN Onward(p, TRUE)
         ELSE End(p, "done")
    /\ UNCHANGED <<dir, tomb, saves, time, task>>

-----------------------------------------------------------------------------
(* The process dies.                                                       *)
Die(p) ==
    /\ Live(p)
    /\ deaths < MaxDeaths
    /\ deaths' = deaths + 1
    /\ End(p, "dead")
    /\ UNCHANGED <<dir, tomb, saves, stale, waits, gone, task>>

(* stackStaleAfter passes; a process that is between two file operations   *)
(* on a directory does not sleep through it.                               *)
Wait ==
    /\ waits < MaxWaits
    /\ \A p \in Process : pc[p] \notin Busy
    /\ waits' = waits + 1
    /\ stale' = 1 .. saves
    /\ dir' = [n \in Name |-> [dir[n] EXCEPT !.old = dir[n].made]]
    /\ UNCHANGED <<tomb, saves, deaths, gone, pc, task, seen, run, index, finished>>

(* A branch lands or is deleted.                                           *)
Vanish(n) ==
    /\ n \notin gone /\ Cardinality(gone) < MaxGone
    /\ gone' = gone \cup {n}
    /\ UNCHANGED <<dir, tomb, saves, stale, waits, deaths, pc, task, seen, run, index, finished>>

Step(p) ==
    \/ Read(p) \/ Admitted(p) \/ \E r \in seen[p] : Admit(p, r)
    \/ TakeAside(p) \/ PutBack(p) \/ Condemn(p) \/ DropClaim(p) \/ DropRun(p)
    \/ AdoptLock(p) \/ AdoptCheck(p) \/ AdoptSave(p)
    \/ Resolve(p) \/ TakeOver(p)
    \/ Disturb(p) \/ Bury(p) \/ Buried(p) \/ Make(p) \/ GiveUp(p) \/ FirstSave(p)
    \/ (\E stage \in Stage : Progress(p, stage)) \/ Stop(p) \/ Clear(p) \/ Cleared(p)

Next == Wait \/ (\E n \in Name : Vanish(n)) \/ \E p \in Process : Step(p) \/ Die(p)

Spec == Init /\ [][Next]_vars

-----------------------------------------------------------------------------
(* Types; and a process holds a directory it took aside only while it      *)
(* decides what becomes of it, or is over.                                 *)
TypeOK ==
    /\ dir \in [Name -> Dirs] /\ tomb \in [Process -> Dirs]
    /\ saves \in 0 .. MaxSaves /\ stale \subseteq 1 .. saves /\ gone \subseteq Name
    /\ \A p \in Process :
         /\ run[p] \in Runs \cup {NoRun} /\ seen[p] \subseteq Runs
         /\ tomb[p].made => pc[p] \in Ended \cup {"judging", "dropping", "burial"}

(* Of two callers that reclaim the same run, as one save of it left it,    *)
(* only one gets as far as dropping its claims, and then nobody finds the  *)
(* run in its place any more: it was taken aside with one rename, whatever *)
(* was saved, locked, put back and claimed meanwhile.                      *)
OneReclaims ==
    \A p \in Process : pc[p] = "dropping" =>
       /\ \A q \in Process : pc[q] = "dropping" /\ run[q].saved = run[p].saved => q = p
       /\ \A r \in Saved : r.saved # run[p].saved

(* A run whose branches have moved, or (a ship apart, which sets such a    *)
(* run aside) whose push may have arrived, is not removed by one who took  *)
(* it aside for what it was before it was adopted and saved again, unless  *)
(* all its branches are gone.                                              *)
OnDisk(r) == \/ \E n \in Name : dir[n].state = r
             \/ \E p \in Process : tomb[p].state = r

MovedStand ==
    \A r \in {tomb[p].state : p \in Process} \ {NoRun} :
       /\ r.stage = "applied" \/ (r.stage = "pushing" /\ \A p \in Process : command(p) # "ship")
       /\ ~Settled(r)
       => OnDisk(r)'

ReclaimSparesMoved == [][MovedStand]_vars

(* No two processes move the same branch.  Not so: the directories of a    *)
(* run go one after the other, the one with its state first, and then its  *)
(* other claims, old by now and without a state, look abandoned to the     *)
(* next run, whose claim is removed by what is left of the first.          *)
Apart ==
    \A p, q \in Process :
       pc[p] = "driving" /\ pc[q] = "driving" /\ Overlaps(run[p].claims, run[q].claims) => p = q
===============================================================================
