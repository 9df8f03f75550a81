-------------------------- MODULE StackClaimsProofs --------------------------
(***************************************************************************)
(* Proofs about StackClaims, for any processes, branches, claims and       *)
(* tasks, and any number of saves: its types, that only one of the callers *)
(* that reclaim a run drops it, and that none drops a run whose branches   *)
(* have moved.                                                             *)
(*                                                                         *)
(* What one save left is in one place, a directory or what one process     *)
(* took aside, because a rename moves it and each save has a number of its *)
(* own: so a number that was read tells the run.                           *)
(***************************************************************************)
EXTENDS StackClaims, TLAPS

-----------------------------------------------------------------------------
Steps == Ended \cup Busy \cup {"admitting", "renaming", "locking", "driving"}

Types ==
    /\ dir \in [Name -> Dirs] /\ tomb \in [Process -> Dirs]
    /\ saves \in 0 .. MaxSaves /\ stale \subseteq 1 .. saves /\ gone \subseteq Name
    /\ waits \in Nat /\ deaths \in Nat
    /\ pc \in [Process -> Steps] /\ task \in Tasks
    /\ seen \in [Process -> SUBSET Runs] /\ run \in [Process -> Runs \cup {NoRun}]
    /\ index \in [Process -> Nat] /\ finished \in [Process -> BOOLEAN]

(* Whoever deals with a run has it in hand, and whoever claims a branch is *)
(* not through with his claims.                                            *)
InHand ==
    /\ \A p \in Process : pc[p] \in {"renaming", "judging", "dropping", "locking", "adopting",
                                     "signing", "taking", "driving", "clearing"} => run[p] \in Runs
    /\ \A p \in Process : pc[p] \in {"burying", "burial", "making"} => index[p] < Len(claims(p))

(* A process has a directory aside only while it decides what becomes of   *)
(* it, or died or failed over it.                                          *)
Aside ==
    \A p \in Process : pc[p] \notin {"judging", "dropping", "burial", "failed", "dead"}
                          => tomb[p] = NoDir

Holds(d, s) == d.state # NoRun /\ d.state.saved = s

(* What one save left is in one place.                                     *)
Single ==
    /\ \A m, n \in Name : \A s \in 1 .. saves : Holds(dir[m], s) /\ Holds(dir[n], s) => m = n
    /\ \A p, q \in Process : \A s \in 1 .. saves : Holds(tomb[p], s) /\ Holds(tomb[q], s) => p = q
    /\ \A n \in Name : \A p \in Process : \A s \in 1 .. saves : ~(Holds(dir[n], s) /\ Holds(tomb[p], s))

(* No save is from the future.                                             *)
Dated ==
    /\ \A n \in Name : dir[n].state # NoRun => dir[n].state.saved <= saves
    /\ \A p \in Process : tomb[p].state # NoRun => tomb[p].state.saved <= saves

(* What p has read and not yet changed.                                    *)
Readings(p) ==
    seen[p] \cup (IF pc[p] \in {"renaming", "judging", "dropping"} THEN {run[p]} ELSE {})

(* A reading and what is found under its save are the same.                *)
Matches(r) == /\ r.saved <= saves
              /\ \A n \in Name : Holds(dir[n], r.saved) => dir[n].state = r
              /\ \A q \in Process : Holds(tomb[q], r.saved) => tomb[q].state = r

Exact == \A p \in Process : \A r \in Readings(p) : Matches(r)

Spared(r) == r.stage = "applied" \/ (r.stage = "pushing" /\ \A p \in Process : command(p) # "ship")

(* A run that is taken aside is none that may have moved a branch that     *)
(* stands, and one that is dropped is the run that was read.               *)
Condemned ==
    /\ \A p \in Process : pc[p] \in {"renaming", "judging", "dropping"} =>
          (Spared(run[p]) => Settled(run[p]))
    /\ \A p \in Process : pc[p] = "dropping" => AsRead(p)

IInv == Types /\ InHand /\ Aside /\ Single /\ Dated /\ Exact /\ Condemned

USE NameAssumption, ClaimAssumption, RunAssumption, SizeAssumption, TaskAssumption

-----------------------------------------------------------------------------
(* Runs, directories and tasks. *)

LEMMA RunFields ==
  ASSUME NEW r \in Runs
  PROVE  /\ r.claims \in Claimable /\ r.claims \in Seq(Name) /\ r.claims # <<>>
         /\ Len(r.claims) \in Nat \ {0} /\ Bottom(r) \in Name
         /\ \A i \in 1 .. Len(r.claims) : r.claims[i] \in Name
         /\ r.saved \in 1 .. MaxSaves /\ r.saved \in Nat /\ r.stage \in Stage /\ r.pid \in Process
         /\ r # NoRun
<1>1. r.claims \in Claimable /\ r.saved \in 1 .. MaxSaves /\ r.stage \in Stage /\ r.pid \in Process
    BY DEF Runs
<1>2. r.claims \in Seq(Name) /\ r.claims # <<>>
    BY <1>1
<1>3. Len(r.claims) \in Nat \ {0} /\ \A i \in 1 .. Len(r.claims) : r.claims[i] \in Name
    BY <1>2
<1> QED BY <1>1, <1>2, <1>3 DEF Bottom

LEMMA RunChanges ==
  ASSUME NEW r \in Runs
  PROVE  /\ \A p \in Process : [r EXCEPT !.pid = p] \in Runs
         /\ \A s \in Stage : [r EXCEPT !.stage = s] \in Runs
         /\ \A k \in 1 .. MaxSaves : [r EXCEPT !.saved = k] \in Runs /\ [r EXCEPT !.saved = k].saved = k
BY DEF Runs

LEMMA DirTypes ==
  /\ NoDir \in Dirs /\ ~NoDir.made /\ NoDir.state = NoRun
  /\ \A o \in Name \cup {NoName} : NewDir(o) \in Dirs /\ NewDir(o).state = NoRun
BY DEF NoDir, NewDir, Dirs

LEMMA TaskTypes ==
  ASSUME Types, NEW p \in Process
  PROVE  /\ claims(p) \in Claimable /\ claims(p) \in Seq(Name) /\ Len(claims(p)) \in Nat \ {0}
         /\ \A i \in 1 .. Len(claims(p)) : claims(p)[i] \in Name
         /\ claims(p)[1] \in Name
<1>1. claims(p) \in Claimable
    BY DEF Types, claims
<1>2. claims(p) \in Seq(Name) /\ claims(p) # <<>>
    BY <1>1
<1> QED BY <1>1, <1>2

(* The branch to be claimed next.                                          *)
LEMMA WantedName ==
  ASSUME Types, NEW p \in Process, index[p] < Len(claims(p))
  PROVE  Wanted(p) \in Name
BY TaskTypes DEF Wanted, Types

-----------------------------------------------------------------------------
LEMMA Initially == Init => IInv
<1> SUFFICES ASSUME Init PROVE IInv
    OBVIOUS
<1>1. Types
    BY DirTypes DEF Init, Types, Steps, Ended
<1>2. InHand /\ Aside
    BY DEF Init, InHand, Aside
<1>3. Single /\ Dated
    BY DirTypes DEF Init, Single, Dated, Holds
<1>4. Exact /\ Condemned
    BY DEF Init, Exact, Readings, Condemned
<1> QED BY <1>1, <1>2, <1>3, <1>4 DEF IInv

-----------------------------------------------------------------------------
(* Types. *)

(* What a process does to its own variables.                               *)
LEMMA Ending ==
  ASSUME Types, NEW p \in Process, NEW how \in Ended, End(p, how)
  PROVE  /\ pc' \in [Process -> Steps] /\ seen' \in [Process -> SUBSET Runs]
         /\ run' \in [Process -> Runs \cup {NoRun}] /\ index' \in [Process -> Nat]
         /\ finished' \in [Process -> BOOLEAN]
BY DEF Types, End, Goto, Steps

LEMMA GoingOn ==
  ASSUME Types, NEW p \in Process, NEW ended \in BOOLEAN, Onward(p, ended)
  PROVE  /\ pc' \in [Process -> Steps] /\ seen' \in [Process -> SUBSET Runs]
         /\ run' \in [Process -> Runs \cup {NoRun}] /\ index' \in [Process -> Nat]
         /\ finished' \in [Process -> BOOLEAN]
BY DEF Types, Onward, Goto, Steps

LEMMA Failing ==
  ASSUME Types, NEW p \in Process, Fail(p)
  PROVE  Types'
BY Ending DEF Fail, Types, time, Ended

LEMMA RunGone ==
  ASSUME Types, NEW p \in Process, Gone(p)
  PROVE  Types'
BY GoingOn DEF Gone, Types, time

LEMMA Saving ==
  ASSUME Types, NEW r \in Runs, NEW b \in BOOLEAN, saves < MaxSaves, saves' = saves + 1, Store(r, b)
  PROVE  /\ dir' \in [Name -> Dirs] /\ saves' \in 0 .. MaxSaves /\ 1 .. saves \subseteq 1 .. saves'
<1>0. saves + 1 \in 1 .. MaxSaves
    BY DEF Types
<1>1. [r EXCEPT !.saved = saves + 1] \in Runs
    BY <1>0, RunChanges
<1>2. \A d \in Dirs : [d EXCEPT !.state = [r EXCEPT !.saved = saves + 1], !.old = FALSE, !.adopting = b] \in Dirs
    BY <1>1 DEF Dirs
<1>3. dir' \in [Name -> Dirs]
    BY <1>2, RunFields DEF Types, Store
<1> QED BY <1>3 DEF Types

LEMMA SaveTypes ==
  ASSUME Types, NEW p \in Process, NEW r \in Runs, NEW b \in BOOLEAN, Save(p, r, b),
         UNCHANGED <<tomb, time, task, seen, finished>>,
         pc' \in [Process -> Steps], index' \in [Process -> Nat]
  PROVE  Types'
<1>1. dir' \in [Name -> Dirs] /\ saves' \in 0 .. MaxSaves /\ 1 .. saves \subseteq 1 .. saves'
    BY Saving DEF Save
<1>2. run' \in [Process -> Runs \cup {NoRun}]
    BY DEF Save, Types
<1>3. stale' \subseteq 1 .. saves' /\ UNCHANGED <<waits, deaths, gone>>
    BY <1>1 DEF Types, time
<1> QED BY <1>1, <1>2, <1>3 DEF Types

LEMMA GotoTypes ==
  ASSUME Types, NEW p \in Process, NEW where \in Steps, Goto(p, where)
  PROVE  pc' \in [Process -> Steps]
BY DEF Types, Goto

LEMMA ReadTypes == ASSUME Types, NEW p \in Process, Read(p) PROVE Types'
<1>1. Saved \subseteq Runs
    BY DEF Saved, Types, Dirs
<1> QED BY <1>1 DEF Read, Types, Goto, Steps, time

LEMMA AdmitTypes == ASSUME Types, NEW p \in Process, NEW r \in seen[p], Admit(p, r) PROVE Types'
<1>0. r \in Runs
    BY DEF Types
<1>1. CASE End(p, "refused")
    BY <1>1, Ending DEF Admit, Types, time, Ended
<1>2. CASE ~End(p, "refused")
  <2>1. seen[p] \ {r} \subseteq Runs
    BY DEF Types
  <2>2. seen' = [seen EXCEPT ![p] = @ \ {r}]
    BY <1>2 DEF Admit
  <2>3. seen' \in [Process -> SUBSET Runs]
    BY <2>1, <2>2 DEF Types
  <2>4. pc' \in [Process -> Steps]
    BY <1>2 DEF Admit, Types, Goto, Steps
  <2>5. run' \in [Process -> Runs \cup {NoRun}]
    BY <1>0, <1>2 DEF Admit, Types
  <2>6. UNCHANGED <<dir, tomb, saves, time, task, index, finished>>
    BY <1>2 DEF Admit
  <2> QED BY <2>3, <2>4, <2>5, <2>6 DEF Types, time
<1> QED BY <1>1, <1>2

LEMMA ReclaimTypes ==
  ASSUME Types, InHand, NEW p \in Process,
         TakeAside(p) \/ PutBack(p) \/ Condemn(p) \/ DropClaim(p) \/ DropRun(p)
  PROVE  Types'
<1>0. run[p] \in Runs /\ Bottom(run[p]) \in Name
    BY RunFields DEF TakeAside, PutBack, Condemn, DropClaim, DropRun, InHand
<1>1. CASE TakeAside(p)
  <2>1. CASE Gone(p)
    BY <2>1, RunGone
  <2>2. CASE ~Gone(p)
    <3>1. dir \in [Name -> Dirs] /\ tomb \in [Process -> Dirs]
      BY DEF Types
    <3>2. dir' \in [Name -> Dirs] /\ tomb' \in [Process -> Dirs]
      BY <1>0, <1>1, <2>2, <3>1, DirTypes DEF TakeAside, Erase
    <3> QED BY <1>1, <2>2, <3>2 DEF TakeAside, Types, Goto, Steps, Busy, time
  <2> QED BY <2>1, <2>2
<1>2. CASE PutBack(p)
  <2>1. dir' \in [Name -> Dirs] /\ tomb' \in [Process -> Dirs]
    <3>1. dir \in [Name -> Dirs] /\ tomb \in [Process -> Dirs]
      BY DEF Types
    <3> QED BY <1>0, <1>2, <3>1, DirTypes DEF PutBack
  <2>2. End(p, "refused") \/ End(p, "failed")
    BY <1>2 DEF PutBack
  <2> QED BY <1>2, <2>1, <2>2, Ending DEF PutBack, Types, time, Ended
<1>3. CASE Condemn(p)
    BY <1>3 DEF Condemn, Types, Goto, Steps, Busy, time
<1>4. CASE DropClaim(p)
  <2>1. dir' \in [Name -> Dirs]
    BY <1>4, DirTypes DEF DropClaim, Erase, Types
  <2> QED BY <1>4, <2>1 DEF DropClaim, Types, time
<1>5. CASE DropRun(p)
    BY <1>5, DirTypes, GoingOn DEF DropRun, Types, time
<1> QED BY <1>1, <1>2, <1>3, <1>4, <1>5

LEMMA AdoptTypes ==
  ASSUME Types, InHand, NEW p \in Process, AdoptLock(p) \/ AdoptCheck(p) \/ AdoptSave(p)
  PROVE  Types'
<1>0. run[p] \in Runs /\ Bottom(run[p]) \in Name
    BY RunFields DEF AdoptLock, AdoptCheck, AdoptSave, InHand
<1>1. CASE AdoptLock(p)
  <2>1. CASE Gone(p) \/ Fail(p)
    BY <2>1, RunGone, Failing
  <2>2. CASE ~Gone(p) /\ ~Fail(p)
    <3>1. \A d \in Dirs : [d EXCEPT !.adopting = TRUE, !.old = FALSE] \in Dirs
      BY DEF Dirs
    <3>2. dir \in [Name -> Dirs]
      BY DEF Types
    <3>3. dir' = [dir EXCEPT ![Bottom(run[p])] = [@ EXCEPT !.adopting = TRUE, !.old = FALSE]]
      BY <1>1, <2>2 DEF AdoptLock
    <3>4. dir' \in [Name -> Dirs]
      BY <1>0, <3>1, <3>2, <3>3
    <3> QED BY <1>1, <2>2, <3>4 DEF AdoptLock, Types, Goto, Steps, Busy, time
  <2> QED BY <2>1, <2>2
<1>2. CASE AdoptCheck(p)
  <2>1. ASSUME Unlock(Bottom(run[p]))
        PROVE  dir' \in [Name -> Dirs]
    <3>1. dir \in [Name -> Dirs]
      BY DEF Types
    <3>2. \A d \in Dirs : [d EXCEPT !.adopting = FALSE] \in Dirs
      BY DEF Dirs
    <3>3. dir' = [dir EXCEPT ![Bottom(run[p])] = [@ EXCEPT !.adopting = FALSE]]
      BY <2>1 DEF Unlock
    <3> QED BY <1>0, <3>1, <3>2, <3>3
  <2>2. CASE End(p, "refused")
    BY <1>2, <2>1, <2>2, Ending DEF AdoptCheck, Types, time, Ended
  <2>3. CASE Onward(p, TRUE)
    BY <1>2, <2>1, <2>3, GoingOn DEF AdoptCheck, Types, time
  <2>4. CASE ~End(p, "refused") /\ ~Onward(p, TRUE)
    BY <1>2, <2>4 DEF AdoptCheck, Types, Goto, Steps, Busy, time
  <2> QED BY <2>2, <2>3, <2>4
<1>3. CASE AdoptSave(p)
  <2>1. CASE Fail(p)
    BY <2>1, Failing
  <2>2. CASE ~Fail(p)
    <3>1. [run[p] EXCEPT !.pid = p] \in Runs
      BY <1>0, RunChanges
    <3>2. /\ Save(p, [run[p] EXCEPT !.pid = p], FALSE) /\ Goto(p, "driving")
          /\ UNCHANGED <<tomb, time, task, seen, index, finished>>
      BY <1>3, <2>2 DEF AdoptSave
    <3>3. pc' \in [Process -> Steps] /\ index' \in [Process -> Nat]
      BY <3>2, GotoTypes DEF Steps, Types
    <3> QED BY <3>1, <3>2, <3>3, SaveTypes
  <2> QED BY <2>1, <2>2
<1> QED BY <1>1, <1>2, <1>3

LEMMA ContinueTypes ==
  ASSUME Types, InHand, NEW p \in Process, Resolve(p) \/ TakeOver(p)
  PROVE  Types'
<1>1. CASE Resolve(p)
  <2>1. Saved \subseteq Runs
    BY DEF Saved, Types, Dirs
  <2>2. CASE End(p, "refused")
    BY <1>1, <2>2, Ending DEF Resolve, Types, time, Ended
  <2>3. CASE ~End(p, "refused")
    BY <1>1, <2>1, <2>3 DEF Resolve, Types, Goto, Steps, Busy, time
  <2> QED BY <2>2, <2>3
<1>2. CASE TakeOver(p)
  <2>0. run[p] \in Runs /\ Bottom(run[p]) \in Name
    BY <1>2, RunFields DEF TakeOver, InHand
  <2>1. CASE Fail(p)
    BY <2>1, Failing
  <2>2. CASE ~Fail(p)
    <3>1. [run[p] EXCEPT !.pid = p] \in Runs /\ Bottom([run[p] EXCEPT !.pid = p]) \in Name
      BY <2>0, RunChanges, RunFields
    <3>2. dir[Bottom(run[p])].adopting \in BOOLEAN
      BY <2>0 DEF Types, Dirs
    <3>3. /\ Save(p, [run[p] EXCEPT !.pid = p], dir[Bottom(run[p])].adopting) /\ Goto(p, "driving")
          /\ UNCHANGED <<tomb, time, task, seen, index, finished>>
      BY <1>2, <2>2 DEF TakeOver
    <3>4. pc' \in [Process -> Steps] /\ index' \in [Process -> Nat]
      BY <3>3, GotoTypes DEF Steps, Types
    <3> QED BY <3>1, <3>2, <3>3, <3>4, SaveTypes
  <2> QED BY <2>1, <2>2
<1> QED BY <1>1, <1>2

LEMMA ClaimTypes ==
  ASSUME Types, InHand, NEW p \in Process,
         Disturb(p) \/ Bury(p) \/ Buried(p) \/ Make(p) \/ GiveUp(p)
  PROVE  Types'
<1>1. CASE Disturb(p)
    BY <1>1 DEF Disturb, Types, Goto, Steps, Busy, time
<1>2. CASE Bury(p)
  <2>1. Wanted(p) \in Name
    BY <1>2, WantedName DEF Bury, InHand
  <2>a. dir \in [Name -> Dirs] /\ tomb \in [Process -> Dirs] /\ NoDir \in Dirs
    BY DirTypes DEF Types
  <2>b. \/ UNCHANGED <<dir, tomb>>
        \/ tomb' = [tomb EXCEPT ![p] = dir[Wanted(p)]] /\ dir' = [dir EXCEPT ![Wanted(p)] = NoDir]
    BY <1>2 DEF Bury, Erase
  <2>2. dir' \in [Name -> Dirs] /\ tomb' \in [Process -> Dirs]
    BY <2>1, <2>a, <2>b
  <2> QED BY <1>2, <2>2 DEF Bury, Types, Goto, Steps, Busy, time
<1>3. CASE Buried(p)
  <2>1. dir' \in [Name -> Dirs] /\ tomb' \in [Process -> Dirs]
    <3>1. dir \in [Name -> Dirs] /\ tomb \in [Process -> Dirs]
      BY DEF Types
    <3> QED BY <1>3, <3>1, DirTypes DEF Buried
  <2>2. CASE End(p, "failed")
    BY <1>3, <2>1, <2>2, Ending DEF Buried, Types, time, Ended
  <2>3. CASE ~End(p, "failed")
    BY <1>3, <2>1, <2>3 DEF Buried, Types, Goto, Steps, Busy, time
  <2> QED BY <2>2, <2>3
<1>4. CASE Make(p)
  <2>1. NewDir(IF index[p] = 0 THEN NoName ELSE claims(p)[1]) \in Dirs
    BY DirTypes, TaskTypes
  <2>2. dir' \in [Name -> Dirs]
    BY <1>4, <2>1 DEF Make, Types
  <2> QED BY <1>4, <2>2 DEF Make, Types, Goto, Steps, Busy, time
<1>5. CASE GiveUp(p)
  <2>1. dir' \in [Name -> Dirs]
    BY <1>5, DirTypes DEF GiveUp, Types
  <2> QED BY <1>5, <2>1, Ending DEF GiveUp, Types, time, Ended
<1> QED BY <1>1, <1>2, <1>3, <1>4, <1>5

(* The run a process begins.                                               *)
NewRun(p) == [born |-> p, claims |-> claims(p), pid |-> p, stage |-> "replaying", saved |-> saves + 1]

LEMMA NewRunTypes ==
  ASSUME Types, NEW p \in Process, saves < MaxSaves
  PROVE  /\ NewRun(p) \in Runs /\ Bottom(NewRun(p)) = claims(p)[1]
         /\ claims(p)[1] \in Name /\ dir[claims(p)[1]].adopting \in BOOLEAN
<1>1. claims(p) \in Claimable /\ claims(p)[1] \in Name
    BY TaskTypes
<1>2. saves + 1 \in 1 .. MaxSaves
    BY DEF Types
<1>3. NewRun(p) \in Runs /\ Bottom(NewRun(p)) = claims(p)[1]
    BY <1>1, <1>2 DEF NewRun, Runs, Stage, Bottom
<1> QED BY <1>1, <1>3 DEF Types, Dirs

LEMMA DriveTypes ==
  ASSUME Types, InHand, NEW p \in Process,
         FirstSave(p) \/ (\E stage \in Stage : Progress(p, stage)) \/ Stop(p) \/ Clear(p) \/ Cleared(p)
  PROVE  Types'
<1>1. CASE FirstSave(p)
  <2>1. CASE Fail(p)
    BY <2>1, Failing
  <2>2. CASE ~Fail(p)
    <3>1. saves < MaxSaves /\ Save(p, NewRun(p), dir[claims(p)[1]].adopting)
      BY <1>1, <2>2 DEF FirstSave, NewRun
    <3>2. /\ Goto(p, "driving") /\ index' = [index EXCEPT ![p] = 0]
          /\ UNCHANGED <<tomb, time, task, seen, finished>>
      BY <1>1, <2>2 DEF FirstSave
    <3>3. pc' \in [Process -> Steps] /\ index' \in [Process -> Nat]
      BY <3>2, GotoTypes DEF Types, Steps
    <3> QED BY <3>1, <3>2, <3>3, NewRunTypes, SaveTypes
  <2> QED BY <2>1, <2>2
<1>2. ASSUME NEW stage \in Stage, Progress(p, stage)
      PROVE  Types'
  <2>0. run[p] \in Runs /\ Bottom(run[p]) \in Name
    BY <1>2, RunFields DEF Progress, InHand
  <2>1. CASE Fail(p)
    BY <2>1, Failing
  <2>2. CASE ~Fail(p)
    <3>1. [run[p] EXCEPT !.stage = stage] \in Runs /\ dir[Bottom(run[p])].adopting \in BOOLEAN
      BY <2>0, RunChanges DEF Types, Dirs
    <3>2. /\ Save(p, [run[p] EXCEPT !.stage = stage], dir[Bottom(run[p])].adopting)
          /\ UNCHANGED <<tomb, time, pc, task, seen, index, finished>>
      BY <1>2, <2>2 DEF Progress
    <3>3. pc' \in [Process -> Steps] /\ index' \in [Process -> Nat]
      BY <3>2 DEF Types
    <3> QED BY <3>1, <3>2, <3>3, SaveTypes
  <2> QED BY <2>1, <2>2
<1>3. CASE Stop(p)
  <2>0. run[p] \in Runs /\ Bottom(run[p]) \in Name
    BY <1>3, RunFields DEF Stop, InHand
  <2>1. CASE Fail(p)
    BY <2>1, Failing
  <2>2. CASE ~Fail(p)
    <3>1. [run[p] EXCEPT !.stage = "conflict"] \in Runs /\ dir[Bottom(run[p])].adopting \in BOOLEAN
      BY <2>0, RunChanges DEF Types, Dirs, Stage
    <3>2. dir' \in [Name -> Dirs] /\ saves' \in 0 .. MaxSaves /\ 1 .. saves \subseteq 1 .. saves'
      BY <1>3, <2>2, <3>1, Saving DEF Stop
    <3> QED BY <1>3, <2>2, <3>2, Ending DEF Stop, Types, Ended, time
  <2> QED BY <2>1, <2>2
<1>4. CASE Clear(p)
  <2>1. dir' \in [Name -> Dirs]
    BY <1>4, DirTypes DEF Clear, Erase, Types
  <2> QED BY <1>4, <2>1 DEF Clear, Types, Goto, Steps, Busy, time
<1>5. CASE Cleared(p)
    BY <1>5, Ending, GoingOn DEF Cleared, Types, time, Ended
<1> QED BY <1>1, <1>2, <1>3, <1>4, <1>5

LEMMA TypesKept == ASSUME Types, InHand, [Next]_vars PROVE Types'
<1>1. ASSUME NEW p \in Process, Step(p)
      PROVE  Types'
  <2>1. CASE Read(p) \/ Admitted(p) \/ \E r \in seen[p] : Admit(p, r)
    BY <2>1, ReadTypes, AdmitTypes DEF Admitted, Types, Goto, Steps, Ended, Busy, time
  <2> QED BY <1>1, <2>1, ReclaimTypes, AdoptTypes, ContinueTypes, ClaimTypes, DriveTypes DEF Step
<1>2. ASSUME NEW p \in Process, Die(p)
      PROVE  Types'
    BY <1>2, Ending DEF Die, Types, Ended
<1>3. CASE Wait
  <2>1. dir' \in [Name -> Dirs]
    <3>1. dir \in [Name -> Dirs]
      BY DEF Types
    <3>2. \A d \in Dirs : [d EXCEPT !.old = d.made] \in Dirs
      BY DEF Dirs
    <3> QED BY <1>3, <3>1, <3>2 DEF Wait
  <2> QED BY <1>3, <2>1 DEF Wait, Types
<1>4. ASSUME NEW n \in Name, Vanish(n)
      PROVE  Types'
    BY <1>4 DEF Vanish, Types
<1>5. CASE UNCHANGED vars
    BY <1>5 DEF vars, time, Types
<1> QED BY <1>1, <1>2, <1>3, <1>4, <1>5 DEF Next

-----------------------------------------------------------------------------
(* A step of a process is its own affair, but for the directories. *)

Untouched(q) ==
    /\ pc'[q] = pc[q] /\ run'[q] = run[q] /\ index'[q] = index[q] /\ seen'[q] = seen[q]
    /\ tomb'[q] = tomb[q]

LEMMA Alone ==
  ASSUME Types, NEW p \in Process, Step(p) \/ Die(p), NEW q \in Process, q # p
  PROVE  Untouched(q) /\ task' = task
<1>0. \A how : End(p, how) => /\ pc'[q] = pc[q] /\ run'[q] = run[q] /\ index'[q] = index[q]
                              /\ seen'[q] = seen[q]
    BY DEF Types, End, Goto
<1>1. \A b : Onward(p, b) => /\ pc'[q] = pc[q] /\ run'[q] = run[q] /\ index'[q] = index[q]
                             /\ seen'[q] = seen[q]
    BY DEF Types, Onward, Goto
<1>2. \A where : Goto(p, where) => pc'[q] = pc[q]
    BY DEF Types, Goto
<1>3. \A r, b : Save(p, r, b) => run'[q] = run[q]
    BY DEF Types, Save
<1>4. (Fail(p) \/ Gone(p)) => Untouched(q) /\ task' = task
    BY <1>0, <1>1 DEF Fail, Gone, Untouched
<1>5. CASE Read(p) \/ Admitted(p) \/ \E r \in seen[p] : Admit(p, r)
    BY <1>0, <1>2, <1>5 DEF Read, Admitted, Admit, Types, Untouched
<1>6. CASE TakeAside(p) \/ PutBack(p) \/ Condemn(p) \/ DropClaim(p) \/ DropRun(p)
    BY <1>0, <1>1, <1>2, <1>4, <1>6 DEF TakeAside, PutBack, Condemn, DropClaim, DropRun, Types, Untouched
<1>7. CASE AdoptLock(p) \/ AdoptCheck(p) \/ AdoptSave(p)
    BY <1>0, <1>1, <1>2, <1>3, <1>4, <1>7 DEF AdoptLock, AdoptCheck, AdoptSave, Untouched
<1>8. CASE Resolve(p) \/ TakeOver(p)
    BY <1>0, <1>2, <1>3, <1>4, <1>8 DEF Resolve, TakeOver, Types, Untouched
<1>9. CASE Disturb(p) \/ Bury(p) \/ Buried(p) \/ Make(p) \/ GiveUp(p)
    BY <1>0, <1>2, <1>9 DEF Disturb, Bury, Buried, Make, GiveUp, Types, Untouched
<1>10. CASE FirstSave(p) \/ (\E stage \in Stage : Progress(p, stage)) \/ Stop(p)
    BY <1>0, <1>2, <1>3, <1>4, <1>10 DEF FirstSave, Progress, Stop, Types, Untouched
<1>11. CASE Clear(p) \/ Cleared(p) \/ Die(p)
    BY <1>0, <1>1, <1>2, <1>11 DEF Clear, Cleared, Die, Types, Untouched
<1> QED BY <1>5, <1>6, <1>7, <1>8, <1>9, <1>10, <1>11 DEF Step

LEMMA ClearedEnds ==
  ASSUME Types, NEW p \in Process, Cleared(p)
  PROVE  pc'[p] \in {"admitting", "done"}
<1>1. Onward(p, TRUE) \/ End(p, "done")
    BY DEF Cleared
<1>2. CASE Onward(p, TRUE)
    BY <1>2 DEF Onward, Goto, Types
<1>3. CASE End(p, "done")
    BY <1>3 DEF End, Goto, Types
<1> QED BY <1>1, <1>2, <1>3

(* Who ends or goes on has nothing in hand.                                *)
LEMMA EndsAt ==
  ASSUME Types, NEW p \in Process
  PROVE  /\ \A how : End(p, how) => pc'[p] = how /\ seen'[p] = {}
         /\ \A b : Onward(p, b) => pc'[p] = "admitting" /\ seen'[p] = seen[p]
         /\ \A where : Goto(p, where) => pc'[p] = where
         /\ \A r, b : Save(p, r, b) => run'[p] = r
BY DEF Types, End, Onward, Goto, Save

Handles == {"renaming", "judging", "dropping", "locking", "adopting", "signing", "taking", "driving",
            "clearing"}
Claiming == {"burying", "burial", "making"}

LEMMA InHandKept ==
  ASSUME Types, InHand, [Next]_vars
  PROVE  InHand'
<1>1. ASSUME NEW p \in Process, Step(p) \/ Die(p)
      PROVE  InHand'
  <2>0. Types'
    BY <1>1, TypesKept DEF Next
  <2>1. /\ pc'[p] \in Handles => run'[p] \in Runs
        /\ pc'[p] \in Claiming => index'[p] < Len(claims(p)')
    <3>0. claims(p)' = claims(p)
      <4>1. task' = task
        BY <1>1 DEF Step, Die, Read, Admitted, Admit, TakeAside, PutBack, Condemn, DropClaim, DropRun, Gone,
                    Fail, AdoptLock, AdoptCheck, AdoptSave, Resolve, TakeOver, Disturb, Bury, Buried,
                    Make, GiveUp, FirstSave, Progress, Stop, Clear, Cleared
      <4> QED BY <4>1 DEF claims
    <3>1. (Fail(p) \/ Gone(p)) => pc'[p] \in {"failed", "admitting"}
      BY EndsAt DEF Fail, Gone
    <3>2. CASE Read(p) \/ Admitted(p)
      BY <3>2, EndsAt DEF Read, Admitted, Handles, Claiming
    <3>3. ASSUME NEW r \in seen[p], Admit(p, r)
          PROVE  pc'[p] \notin Claiming /\ (pc'[p] \in Handles => run'[p] \in Runs)
      <4>1. r \in Runs
        BY DEF Types
      <4>2. CASE pc' = pc
        BY <3>3, <4>2 DEF Admit, Handles, Claiming
      <4>3. CASE End(p, "refused")
        BY <4>3, EndsAt DEF Handles, Claiming
      <4>4. CASE ~End(p, "refused") /\ pc' # pc
        <5>1. run' = [run EXCEPT ![p] = r] /\ (Goto(p, "renaming") \/ Goto(p, "locking"))
          BY <3>3, <4>4 DEF Admit
        <5> QED BY <4>1, <5>1, EndsAt DEF Types, Handles, Claiming
      <4> QED BY <4>2, <4>3, <4>4
    <3>4. CASE TakeAside(p) \/ PutBack(p) \/ Condemn(p) \/ DropClaim(p) \/ DropRun(p)
      <4>1. pc'[p] \in Handles => run' = run /\ pc[p] \in Handles
        <5>1. CASE TakeAside(p)
          BY <3>1, <5>1, EndsAt DEF TakeAside, Handles
        <5>2. CASE PutBack(p)
          BY <3>1, <5>2, EndsAt DEF PutBack, Handles
        <5>3. CASE Condemn(p)
          BY <3>1, <5>3, EndsAt DEF Condemn, Handles
        <5>4. CASE DropClaim(p)
          BY <3>1, <5>4, EndsAt DEF DropClaim, Handles
        <5>5. CASE DropRun(p)
          BY <3>1, <5>5, EndsAt DEF DropRun, Handles
        <5> QED BY <3>4, <5>1, <5>2, <5>3, <5>4, <5>5
      <4>2. pc'[p] \notin Claiming
        <5>1. CASE TakeAside(p)
          BY <3>1, <5>1, EndsAt DEF TakeAside, Claiming
        <5>2. CASE PutBack(p)
          BY <3>1, <5>2, EndsAt DEF PutBack, Claiming
        <5>3. CASE Condemn(p)
          BY <3>1, <5>3, EndsAt DEF Condemn, Claiming
        <5>4. CASE DropClaim(p)
          BY <3>1, <5>4, EndsAt DEF DropClaim, Claiming
        <5>5. CASE DropRun(p)
          BY <3>1, <5>5, EndsAt DEF DropRun, Claiming
        <5> QED BY <3>4, <5>1, <5>2, <5>3, <5>4, <5>5
      <4> QED BY <4>1, <4>2 DEF InHand, Handles
    <3>5. CASE AdoptLock(p) \/ AdoptCheck(p)
      <4>1. CASE AdoptLock(p)
        BY <3>1, <4>1, EndsAt DEF AdoptLock, InHand, Handles, Claiming
      <4>2. CASE AdoptCheck(p)
        <5>1. CASE Onward(p, TRUE) \/ End(p, "refused")
          BY <3>1, <5>1, EndsAt DEF Onward, Goto, Types, Handles, Claiming
        <5>2. CASE ~(Onward(p, TRUE) \/ End(p, "refused"))
          BY <4>2, <5>2, EndsAt DEF AdoptCheck, InHand, Handles, Claiming
        <5> QED BY <5>1, <5>2
      <4> QED BY <3>5, <4>1, <4>2
    <3>6. CASE AdoptSave(p) \/ TakeOver(p)
      <4>1. [run[p] EXCEPT !.pid = p] \in Runs
        BY <3>6, RunChanges DEF AdoptSave, TakeOver, InHand
      <4> QED BY <3>1, <3>6, <4>1, EndsAt DEF AdoptSave, TakeOver, Handles, Claiming
    <3>7. CASE Resolve(p)
      <4>1. Saved \subseteq Runs
        BY DEF Saved, Types, Dirs
      <4>2. CASE End(p, "refused")
        BY <4>2, EndsAt DEF Handles, Claiming
      <4>3. CASE ~End(p, "refused")
        <5>1. PICK r \in Saved : run' = [run EXCEPT ![p] = r] /\ Goto(p, "taking")
          BY <3>7, <4>3 DEF Resolve
        <5> QED BY <4>1, <5>1, EndsAt DEF Types, Handles, Claiming
      <4> QED BY <4>2, <4>3
    <3>8. CASE Disturb(p) \/ Bury(p) \/ Buried(p) \/ Make(p) \/ GiveUp(p)
      <4>1. Claims(p) => index[p] < Len(claims(p))
        BY DEF Claims
      <4> QED BY <3>0, <3>8, <4>1, EndsAt DEF Disturb, Bury, Buried, Make, GiveUp, InHand, Handles,
                                            Claiming
    <3>9. CASE FirstSave(p)
      <4>1. CASE Fail(p)
        BY <3>1, <4>1 DEF Handles, Claiming
      <4>2. CASE ~Fail(p)
        <5>1. saves < MaxSaves /\ Save(p, NewRun(p), dir[claims(p)[1]].adopting) /\ Goto(p, "driving")
          BY <3>9, <4>2 DEF FirstSave, NewRun
        <5> QED BY <5>1, NewRunTypes, EndsAt DEF Claiming
      <4> QED BY <4>1, <4>2
    <3>10. ASSUME NEW stage \in Stage, Progress(p, stage)
           PROVE  pc'[p] \notin Claiming /\ (pc'[p] \in Handles => run'[p] \in Runs)
      <4>1. [run[p] EXCEPT !.stage = stage] \in Runs
        BY <3>10, RunChanges DEF Progress, InHand
      <4> QED BY <3>1, <3>10, <4>1, EndsAt DEF Progress, Handles, Claiming
    <3>11. CASE Stop(p) \/ Clear(p) \/ Cleared(p) \/ Die(p)
      <4>1. pc'[p] \in Handles => run' = run /\ pc[p] \in Handles
        <5>1. CASE Stop(p)
          BY <3>1, <5>1, EndsAt DEF Stop, Handles
        <5>2. CASE Clear(p)
          BY <3>1, <5>2, EndsAt DEF Clear, Handles
        <5>3. CASE Cleared(p)
          BY <5>3, ClearedEnds DEF Handles
        <5>4. CASE Die(p)
          BY <3>1, <5>4, EndsAt DEF Die, Handles
        <5> QED BY <3>11, <5>1, <5>2, <5>3, <5>4
      <4>2. pc'[p] \notin Claiming
        <5>1. CASE Stop(p)
          BY <3>1, <5>1, EndsAt DEF Stop, Claiming
        <5>2. CASE Clear(p)
          BY <3>1, <5>2, EndsAt DEF Clear, Claiming
        <5>3. CASE Cleared(p)
          BY <5>3, ClearedEnds DEF Claiming
        <5>4. CASE Die(p)
          BY <3>1, <5>4, EndsAt DEF Die, Claiming
        <5> QED BY <3>11, <5>1, <5>2, <5>3, <5>4
      <4> QED BY <4>1, <4>2 DEF InHand, Handles
    <3> QED BY <1>1, <3>2, <3>3, <3>4, <3>5, <3>6, <3>7, <3>8, <3>9, <3>10, <3>11 DEF Step
  <2>2. ASSUME NEW q \in Process, q # p
        PROVE  /\ pc'[q] \in Handles => run'[q] \in Runs
               /\ pc'[q] \in Claiming => index'[q] < Len(claims(q)')
    <3>1. Untouched(q) /\ task' = task
      BY <1>1, <2>2, Alone
    <3> QED BY <3>1 DEF InHand, Untouched, Handles, Claiming, claims
  <2> QED BY <2>1, <2>2 DEF InHand, Handles, Claiming
<1>2. CASE Wait \/ (\E n \in Name : Vanish(n)) \/ UNCHANGED vars
    BY <1>2 DEF Wait, Vanish, vars, InHand, claims
<1> QED BY <1>1, <1>2 DEF Next

Keeps == {"judging", "dropping", "burial", "failed", "dead"}

LEMMA AsideKept ==
  ASSUME Types, Aside, [Next]_vars
  PROVE  Aside'
<1>1. ASSUME NEW p \in Process, Step(p) \/ Die(p)
      PROVE  Aside'
  <2>1. pc'[p] \notin Keeps => tomb'[p] = NoDir
    <3>1. (Fail(p) \/ Gone(p)) => tomb' = tomb /\ pc'[p] \in {"failed", "admitting"}
      BY EndsAt DEF Fail, Gone
    <3>2. CASE Read(p) \/ Admitted(p) \/ (\E r \in seen[p] : Admit(p, r))
      BY <3>2, EndsAt DEF Read, Admitted, Admit, Keeps, Aside
    <3>3. CASE TakeAside(p) \/ PutBack(p) \/ Condemn(p)
      BY <3>1, <3>3, EndsAt DEF TakeAside, PutBack, Condemn, Keeps, Aside, Types
    <3>4. CASE DropClaim(p) \/ DropRun(p)
      BY <3>4, EndsAt DEF DropClaim, DropRun, Keeps, Types
    <3>5. CASE AdoptLock(p) \/ AdoptCheck(p) \/ AdoptSave(p) \/ Resolve(p) \/ TakeOver(p)
      BY <3>1, <3>5, EndsAt DEF AdoptLock, AdoptCheck, AdoptSave, Resolve, TakeOver, Keeps, Aside
    <3>6. CASE Bury(p) \/ Buried(p)
      BY <3>6, EndsAt DEF Bury, Buried, Keeps, Aside, Types
    <3>7. CASE Disturb(p) \/ Make(p) \/ GiveUp(p)
      BY <3>7, EndsAt DEF Disturb, Make, Makes, Claims, GiveUp, Keeps, Aside
    <3>8. CASE FirstSave(p) \/ (\E stage \in Stage : Progress(p, stage)) \/ Stop(p)
      BY <3>1, <3>8, EndsAt DEF FirstSave, Progress, Stop, Keeps, Aside
    <3>9. CASE Clear(p) \/ Cleared(p) \/ Die(p)
      BY <3>9, EndsAt DEF Clear, Cleared, Die, Keeps, Aside
    <3> QED BY <1>1, <3>2, <3>3, <3>4, <3>5, <3>6, <3>7, <3>8, <3>9 DEF Step
  <2>2. ASSUME NEW q \in Process, q # p
        PROVE  pc'[q] \notin Keeps => tomb'[q] = NoDir
    BY <1>1, <2>2, Alone DEF Untouched, Aside, Keeps
  <2> QED BY <2>1, <2>2 DEF Aside, Keeps
<1>2. CASE Wait \/ (\E n \in Name : Vanish(n)) \/ UNCHANGED vars
    BY <1>2 DEF Wait, Vanish, vars, Aside
<1> QED BY <1>1, <1>2 DEF Next

-----------------------------------------------------------------------------
(* What a step does to the saved states: some go, one is moved, or one is  *)
(* written. *)

Fades ==
    /\ saves' = saves
    /\ \A n \in Name : dir'[n].state \in {dir[n].state, NoRun}
    /\ \A q \in Process : tomb'[q].state \in {tomb[q].state, NoRun}

Aways(p, n) ==
    /\ saves' = saves
    /\ tomb' = [tomb EXCEPT ![p] = dir[n]] /\ dir' = [dir EXCEPT ![n] = NoDir]

Returns(p, n) ==
    /\ saves' = saves
    /\ dir' = [dir EXCEPT ![n] = tomb[p]] /\ tomb' = [tomb EXCEPT ![p] = NoDir]

Writes(r, b) == saves < MaxSaves /\ saves' = saves + 1 /\ Store(r, b) /\ tomb' = tomb

Numbered == Single /\ Dated

LEMMA FadesKeep ==
  ASSUME Types, Numbered, Fades
  PROVE  Numbered' /\ \A r \in Runs : Matches(r) => Matches(r)'
<1>1. /\ \A n \in Name : \A k : Holds(dir[n], k)' => Holds(dir[n], k) /\ dir'[n].state = dir[n].state
      /\ \A q \in Process : \A k : Holds(tomb[q], k)' => Holds(tomb[q], k) /\ tomb'[q].state = tomb[q].state
    BY DEF Fades, Holds
<1>2. Single'
    BY <1>1 DEF Single, Numbered, Fades
<1>3. Dated'
    BY DEF Dated, Numbered, Fades
<1>4. \A r \in Runs : Matches(r) => Matches(r)'
    BY <1>1 DEF Matches, Fades, Holds
<1> QED BY <1>2, <1>3, <1>4 DEF Numbered

LEMMA AwaysKeep ==
  ASSUME Types, Numbered, NEW p \in Process, NEW n \in Name, Aways(p, n)
  PROVE  Numbered' /\ \A r \in Runs : Matches(r) => Matches(r)'
<1>1. /\ tomb'[p] = dir[n] /\ dir'[n].state = NoRun
      /\ \A m \in Name \ {n} : dir'[m] = dir[m]
      /\ \A q \in Process \ {p} : tomb'[q] = tomb[q]
      /\ saves' = saves
    BY DirTypes DEF Aways, Types
<1>2. \A m \in Name : dir'[m].state # NoRun => m # n /\ dir'[m] = dir[m]
    BY <1>1
<1>3. \A m, k \in Name : \A s \in 1 .. saves' : Holds(dir[m], s)' /\ Holds(dir[k], s)' => m = k
    BY <1>1, <1>2 DEF Numbered, Single, Holds
<1>4. \A q, k \in Process : \A s \in 1 .. saves' : Holds(tomb[q], s)' /\ Holds(tomb[k], s)' => q = k
    BY <1>1 DEF Numbered, Single, Holds
<1>5. \A m \in Name : \A q \in Process : \A s \in 1 .. saves' : ~(Holds(dir[m], s)' /\ Holds(tomb[q], s)')
    BY <1>1, <1>2 DEF Numbered, Single, Holds
<1>6. Dated'
    BY <1>1, <1>2 DEF Numbered, Dated
<1>7. \A r \in Runs : Matches(r) => Matches(r)'
    BY <1>1, <1>2 DEF Matches, Holds
<1> QED BY <1>3, <1>4, <1>5, <1>6, <1>7 DEF Numbered, Single

LEMMA ReturnsKeep ==
  ASSUME Types, Numbered, NEW p \in Process, NEW n \in Name, Returns(p, n)
  PROVE  Numbered' /\ \A r \in Runs : Matches(r) => Matches(r)'
<1>1. /\ dir'[n] = tomb[p] /\ tomb'[p].state = NoRun
      /\ \A m \in Name \ {n} : dir'[m] = dir[m]
      /\ \A q \in Process \ {p} : tomb'[q] = tomb[q]
      /\ saves' = saves
    BY DirTypes DEF Returns, Types
<1>2. \A q \in Process : tomb'[q].state # NoRun => q # p /\ tomb'[q] = tomb[q]
    BY <1>1
<1>3. \A m, k \in Name : \A s \in 1 .. saves' : Holds(dir[m], s)' /\ Holds(dir[k], s)' => m = k
    BY <1>1 DEF Numbered, Single, Holds
<1>4. \A q, k \in Process : \A s \in 1 .. saves' : Holds(tomb[q], s)' /\ Holds(tomb[k], s)' => q = k
    BY <1>1, <1>2 DEF Numbered, Single, Holds
<1>5. \A m \in Name : \A q \in Process : \A s \in 1 .. saves' : ~(Holds(dir[m], s)' /\ Holds(tomb[q], s)')
    BY <1>1, <1>2 DEF Numbered, Single, Holds
<1>a. Dated
    BY DEF Numbered
<1>b. \A m \in Name : dir'[m].state # NoRun => dir'[m].state.saved <= saves'
    BY <1>a, <1>1 DEF Dated
<1>c. \A q \in Process : tomb'[q].state # NoRun => tomb'[q].state.saved <= saves'
    BY <1>a, <1>1, <1>2 DEF Dated
<1>6. Dated'
    BY <1>b, <1>c DEF Dated
<1>7. \A r \in Runs : Matches(r) => Matches(r)'
    BY <1>1, <1>2 DEF Matches, Holds
<1> QED BY <1>3, <1>4, <1>5, <1>6, <1>7 DEF Numbered, Single

(* The number of a save was never used before.                             *)
LEMMA WritesKeep ==
  ASSUME Types, Numbered, NEW r \in Runs, NEW b \in BOOLEAN, Writes(r, b)
  PROVE  Numbered' /\ \A x \in Runs : Matches(x) => Matches(x)'
<1> DEFINE n == Bottom(r)
<1>0. n \in Name /\ saves \in Nat /\ saves + 1 \in 1 .. MaxSaves
    BY RunFields DEF Types, Writes
<1>1. /\ dir'[n].state # NoRun /\ dir'[n].state.saved = saves + 1
      /\ \A m \in Name \ {n} : dir'[m] = dir[m]
      /\ tomb' = tomb /\ saves' = saves + 1
  <2>1. [r EXCEPT !.saved = saves + 1] \in Runs /\ [r EXCEPT !.saved = saves + 1].saved = saves + 1
    BY <1>0, RunChanges
  <2>2. dir[n] \in Dirs /\ dir \in [Name -> Dirs]
    BY <1>0 DEF Types
  <2>3. dir'[n].state = [r EXCEPT !.saved = saves + 1]
    BY <1>0, <2>2 DEF Writes, Store, Dirs
  <2>4. \A m \in Name \ {n} : dir'[m] = dir[m]
    BY <1>0, <2>2 DEF Writes, Store
  <2> QED BY <2>1, <2>3, <2>4 DEF Writes
<1> HIDE DEF n
<1>2. /\ \A m \in Name : dir[m].state # NoRun => dir[m].state.saved \in Nat /\ dir[m].state.saved < saves + 1
      /\ \A q \in Process : tomb[q].state # NoRun => tomb[q].state.saved \in Nat /\ tomb[q].state.saved < saves + 1
  <2>1. \A m \in Name : dir[m].state # NoRun => dir[m].state \in Runs
    BY DEF Types, Dirs
  <2>2. \A q \in Process : tomb[q].state # NoRun => tomb[q].state \in Runs
    BY DEF Types, Dirs
  <2> QED BY <1>0, <2>1, <2>2, RunFields DEF Numbered, Dated
<1>3. \A m, k \in Name : \A s \in 1 .. saves' : Holds(dir[m], s)' /\ Holds(dir[k], s)' => m = k
  <2> SUFFICES ASSUME NEW m \in Name, NEW k \in Name, NEW s \in 1 .. saves',
                      Holds(dir[m], s)', Holds(dir[k], s)', m # k
               PROVE  FALSE
    OBVIOUS
  <2>1. CASE m = n \/ k = n
    BY <1>1, <1>2, <2>1 DEF Holds
  <2>2. CASE m # n /\ k # n
    <3>1. Holds(dir[m], s) /\ Holds(dir[k], s)
      BY <1>1, <2>2 DEF Holds
    <3>2. s \in 1 .. saves
      BY <1>0, <1>1, <1>2, <3>1 DEF Holds
    <3> QED BY <3>1, <3>2 DEF Numbered, Single
  <2> QED BY <2>1, <2>2
<1>4. \A q, k \in Process : \A s \in 1 .. saves' : Holds(tomb[q], s)' /\ Holds(tomb[k], s)' => q = k
  <2> SUFFICES ASSUME NEW q \in Process, NEW k \in Process, NEW s \in 1 .. saves',
                      Holds(tomb[q], s)', Holds(tomb[k], s)'
               PROVE  q = k
    OBVIOUS
  <2>1. Holds(tomb[q], s) /\ Holds(tomb[k], s)
    BY <1>1 DEF Holds
  <2>2. s \in 1 .. saves
    BY <1>0, <1>1, <1>2, <2>1 DEF Holds
  <2> QED BY <2>1, <2>2 DEF Numbered, Single
<1>5. \A m \in Name : \A q \in Process : \A s \in 1 .. saves' : ~(Holds(dir[m], s)' /\ Holds(tomb[q], s)')
  <2> SUFFICES ASSUME NEW m \in Name, NEW q \in Process, NEW s \in 1 .. saves',
                      Holds(dir[m], s)', Holds(tomb[q], s)'
               PROVE  FALSE
    OBVIOUS
  <2>1. Holds(tomb[q], s)
    BY <1>1 DEF Holds
  <2>2. s \in 1 .. saves /\ s # saves + 1
    BY <1>0, <1>1, <1>2, <2>1 DEF Holds
  <2>3. Holds(dir[m], s)
    BY <1>1, <2>2 DEF Holds
  <2> QED BY <2>1, <2>2, <2>3 DEF Numbered, Single
<1>6. Dated'
    BY <1>0, <1>1, <1>2 DEF Dated
<1>7. ASSUME NEW x \in Runs, Matches(x)
      PROVE  Matches(x)'
  <2>1. x.saved \in Nat /\ x.saved <= saves
    BY <1>7, RunFields DEF Matches
  <2> QED BY <1>0, <1>1, <1>7, <2>1 DEF Matches, Holds
<1> QED BY <1>3, <1>4, <1>5, <1>6, <1>7 DEF Numbered, Single

Effects ==
    \/ Fades
    \/ \E p \in Process, n \in Name : Aways(p, n) \/ Returns(p, n)
    \/ \E r \in Runs, b \in BOOLEAN : Writes(r, b)

LEMMA EffectsKeep ==
  ASSUME Types, Numbered, Effects
  PROVE  Numbered' /\ \A r \in Runs : Matches(r) => Matches(r)'
BY FadesKeep, AwaysKeep, ReturnsKeep, WritesKeep DEF Effects

LEMMA Still == ASSUME UNCHANGED <<dir, tomb, saves>> PROVE Fades
BY DEF Fades

(* A directory that is removed, or written to but for its state.           *)
LEMMA FadesAt ==
  ASSUME Types, NEW n \in Name, NEW d, dir' = [dir EXCEPT ![n] = d], d.state \in {dir[n].state, NoRun},
         UNCHANGED <<tomb, saves>>
  PROVE  Fades
BY DEF Fades, Types

LEMMA Unlocks ==
  ASSUME Types, NEW n \in Name, NEW b \in BOOLEAN, UNCHANGED <<tomb, saves>>,
         \/ dir' = [dir EXCEPT ![n] = [@ EXCEPT !.adopting = b, !.old = FALSE]]
         \/ dir' = [dir EXCEPT ![n] = [@ EXCEPT !.adopting = b]]
  PROVE  Fades
<1>1. dir[n] \in Dirs
    BY DEF Types
<1>2. /\ [dir[n] EXCEPT !.adopting = b, !.old = FALSE].state = dir[n].state
      /\ [dir[n] EXCEPT !.adopting = b].state = dir[n].state
    BY <1>1 DEF Dirs
<1> QED BY <1>2, FadesAt

LEMMA StepEffects ==
  ASSUME Types, InHand, NEW p \in Process, Step(p)
  PROVE  Effects
<1>1. (Fail(p) \/ Gone(p)) => Fades
    BY Still DEF Fail, Gone
<1>2. pc[p] \in Handles => run[p] \in Runs /\ Bottom(run[p]) \in Name
    BY RunFields DEF InHand, Handles
<1>3. CASE Read(p) \/ Admitted(p) \/ (\E r \in seen[p] : Admit(p, r)) \/ Condemn(p) \/ Resolve(p)
           \/ Disturb(p) \/ Cleared(p)
    BY <1>3, Still DEF Read, Admitted, Admit, Condemn, Resolve, Disturb, Cleared, Effects
<1>4. CASE TakeAside(p)
  <2>1. pc[p] \in Handles
    BY <1>4 DEF TakeAside, Handles
  <2>2. Gone(p) \/ Aways(p, Bottom(run[p]))
    BY <1>4 DEF TakeAside, Erase, Aways
  <2> QED BY <1>1, <1>2, <2>1, <2>2 DEF Effects
<1>5. CASE PutBack(p)
  <2>1. pc[p] \in Handles
    BY <1>5 DEF PutBack, Handles
  <2>2. Returns(p, Bottom(run[p])) \/ UNCHANGED <<dir, tomb, saves>>
    BY <1>5 DEF PutBack, Returns
  <2> QED BY <1>2, <2>1, <2>2, Still DEF Effects
<1>6. CASE DropClaim(p) \/ Clear(p)
  <2>1. pc[p] \in Handles
    BY <1>6 DEF DropClaim, Clear, Handles
  <2>2. run[p].claims[index[p] + 1] \in Name
    <3>1. index[p] \in Nat /\ index[p] < Len(run[p].claims)
      BY <1>6 DEF DropClaim, Clear, Types
    <3> QED BY <1>2, <2>1, <3>1, RunFields
  <2>3. dir' = [dir EXCEPT ![run[p].claims[index[p] + 1]] = NoDir] /\ UNCHANGED <<tomb, saves>>
    BY <1>6 DEF DropClaim, Clear, Erase
  <2> QED BY <2>2, <2>3, FadesAt, DirTypes DEF Effects
<1>7. CASE DropRun(p)
  <2>1. tomb' = [tomb EXCEPT ![p] = NoDir] /\ dir' = dir /\ saves' = saves
    BY <1>7 DEF DropRun
  <2> QED BY <2>1, DirTypes DEF Effects, Fades, Types
<1>8. CASE AdoptLock(p)
  <2>1. pc[p] \in Handles
    BY <1>8 DEF AdoptLock, Handles
  <2>2. \/ Gone(p) \/ Fail(p)
        \/ /\ dir' = [dir EXCEPT ![Bottom(run[p])] = [@ EXCEPT !.adopting = TRUE, !.old = FALSE]]
           /\ UNCHANGED <<tomb, saves>>
    BY <1>8 DEF AdoptLock
  <2> QED BY <1>1, <1>2, <2>1, <2>2, Unlocks DEF Effects
<1>9. CASE AdoptCheck(p)
  <2>1. pc[p] \in Handles
    BY <1>9 DEF AdoptCheck, Handles
  <2>2. /\ UNCHANGED <<tomb, saves>>
        /\ dir' = dir \/ dir' = [dir EXCEPT ![Bottom(run[p])] = [@ EXCEPT !.adopting = FALSE]]
    BY <1>9 DEF AdoptCheck, Unlock
  <2> QED BY <1>2, <2>1, <2>2, Still, Unlocks DEF Effects
<1>10. CASE AdoptSave(p) \/ TakeOver(p)
  <2>1. pc[p] \in Handles
    BY <1>10 DEF AdoptSave, TakeOver, Handles
  <2>2. [run[p] EXCEPT !.pid = p] \in Runs /\ dir[Bottom(run[p])].adopting \in BOOLEAN
    BY <1>2, <2>1, RunChanges DEF Types, Dirs
  <2>3. Fail(p) \/ \E b \in BOOLEAN : Writes([run[p] EXCEPT !.pid = p], b)
    BY <1>10, <2>2 DEF AdoptSave, TakeOver, Save, Writes
  <2> QED BY <1>1, <2>2, <2>3 DEF Effects
<1>11. CASE Bury(p) \/ Buried(p)
  <2>1. Wanted(p) \in Name
    BY <1>11, WantedName DEF Bury, Buried, InHand
  <2>2. CASE Bury(p)
    BY <2>1, <2>2, Still DEF Bury, Erase, Aways, Effects
  <2>3. CASE Buried(p)
    <3>1. CASE UNCHANGED <<dir, tomb>>
      BY <2>3, <3>1, Still DEF Buried, Effects
    <3>2. CASE Returns(p, Wanted(p))
      BY <2>1, <3>2 DEF Effects
    <3>3. CASE ~UNCHANGED <<dir, tomb>> /\ ~Returns(p, Wanted(p))
      <4>1. dir' = dir /\ tomb' = [tomb EXCEPT ![p] = NoDir] /\ saves' = saves
        BY <2>1, <2>3, <3>3 DEF Buried, Returns, Types
      <4> QED BY <4>1, DirTypes DEF Effects, Fades, Types
    <3> QED BY <3>1, <3>2, <3>3
  <2> QED BY <1>11, <2>2, <2>3
<1>12. CASE Make(p)
  <2>1. Wanted(p) \in Name
    <3>1. index[p] < Len(claims(p))
      BY <1>12 DEF Make, Makes, Claims, InHand
    <3> QED BY <3>1, WantedName
  <2> DEFINE d == NewDir(IF index[p] = 0 THEN NoName ELSE claims(p)[1])
  <2>2. d.state = NoRun
    BY DirTypes, TaskTypes
  <2>3. dir' = [dir EXCEPT ![Wanted(p)] = d] /\ UNCHANGED <<tomb, saves>>
    BY <1>12 DEF Make
  <2> QED BY <2>1, <2>2, <2>3, FadesAt DEF Effects
<1>13. CASE GiveUp(p)
    BY <1>13, DirTypes DEF GiveUp, Fades, Effects
<1>14. CASE FirstSave(p)
  <2>1. Fail(p) \/ Writes(NewRun(p), dir[claims(p)[1]].adopting)
    BY <1>14 DEF FirstSave, NewRun, Save, Writes
  <2> QED BY <1>1, <2>1, NewRunTypes DEF Effects, Writes
<1>15. ASSUME NEW stage \in Stage, Progress(p, stage)
       PROVE  Effects
  <2>1. pc[p] \in Handles
    BY <1>15 DEF Progress, Handles
  <2>2. [run[p] EXCEPT !.stage = stage] \in Runs /\ dir[Bottom(run[p])].adopting \in BOOLEAN
    BY <1>2, <2>1, RunChanges DEF Types, Dirs
  <2>3. Fail(p) \/ Writes([run[p] EXCEPT !.stage = stage], dir[Bottom(run[p])].adopting)
    BY <1>15 DEF Progress, Save, Writes
  <2> QED BY <1>1, <2>2, <2>3 DEF Effects
<1>16. CASE Stop(p)
  <2>1. pc[p] \in Handles
    BY <1>16 DEF Stop, Handles
  <2>2. [run[p] EXCEPT !.stage = "conflict"] \in Runs /\ dir[Bottom(run[p])].adopting \in BOOLEAN
    BY <1>2, <2>1, RunChanges DEF Types, Dirs, Stage
  <2>3. Fail(p) \/ Writes([run[p] EXCEPT !.stage = "conflict"], dir[Bottom(run[p])].adopting)
    BY <1>16 DEF Stop, Writes
  <2> QED BY <1>1, <2>2, <2>3 DEF Effects
<1> QED BY <1>3, <1>4, <1>5, <1>6, <1>7, <1>8, <1>9, <1>10, <1>11, <1>12, <1>13, <1>14, <1>15, <1>16
        DEF Step

LEMMA NextEffects ==
  ASSUME Types, InHand, [Next]_vars
  PROVE  Effects
<1>1. CASE \E p \in Process : Die(p)
    BY <1>1, Still DEF Die, Effects
<1>2. CASE Wait
  <2>1. \A n \in Name : dir'[n].state = dir[n].state
    <3> SUFFICES ASSUME NEW n \in Name PROVE dir'[n].state = dir[n].state
      OBVIOUS
    <3>1. dir[n] \in Dirs /\ dir'[n] = [dir[n] EXCEPT !.old = dir[n].made]
      BY <1>2 DEF Wait, Types
    <3> QED BY <3>1 DEF Dirs
  <2> QED BY <1>2, <2>1 DEF Wait, Fades, Effects
<1>3. CASE (\E n \in Name : Vanish(n)) \/ UNCHANGED vars
    BY <1>3, Still DEF Vanish, vars, Effects
<1> QED BY <1>1, <1>2, <1>3, StepEffects DEF Next

-----------------------------------------------------------------------------
(* What is read is what is there, and stays so. *)

LEMMA SavedMatch ==
  ASSUME Types, Numbered, NEW r \in Saved
  PROVE  r \in Runs /\ Matches(r)
<1>1. PICK n \in Name : r = dir[n].state /\ r # NoRun
    BY DEF Saved
<1>2. r \in Runs
    BY <1>1 DEF Types, Dirs
<1>3. r.saved \in 1 .. saves
    BY <1>1, <1>2, RunFields DEF Numbered, Dated, Types
<1>4. Holds(dir[n], r.saved)
    BY <1>1 DEF Holds
<1> QED BY <1>1, <1>2, <1>3, <1>4 DEF Matches, Numbered, Single

LEMMA ReadingTypes ==
  ASSUME Types, InHand, NEW p \in Process, NEW r \in Readings(p)
  PROVE  r \in Runs
BY DEF Readings, Types, InHand

(* A step reads what is saved, or passes on what was read.                 *)
LEMMA ReadingsPass ==
  ASSUME Types, InHand, NEW p \in Process, Step(p) \/ Die(p)
  PROVE  Readings(p)' \subseteq Readings(p) \cup Saved
<1>0. \A how : End(p, how) /\ how \in Ended => Readings(p)' = {}
    BY EndsAt DEF Readings, Ended
<1>1. \A b : Onward(p, b) => Readings(p)' \subseteq Readings(p)
    BY EndsAt DEF Readings
<1>2. (Fail(p) \/ Gone(p)) => Readings(p)' \subseteq Readings(p)
    BY <1>0, <1>1 DEF Fail, Gone, Ended
<1>3. CASE Read(p)
  <2>1. seen'[p] = Saved /\ pc'[p] = "admitting"
    BY <1>3, EndsAt DEF Read, Types
  <2> QED BY <2>1 DEF Readings
<1>4. CASE Admitted(p)
  <2>1. seen' = seen /\ pc'[p] \in {"idle", "claiming"}
    BY <1>4, EndsAt DEF Admitted
  <2> QED BY <2>1 DEF Readings
<1>5. ASSUME NEW r \in seen[p], Admit(p, r)
      PROVE  Readings(p)' \subseteq Readings(p)
  <2>1. CASE End(p, "refused")
    BY <1>0, <2>1 DEF Ended
  <2>2. CASE ~End(p, "refused")
    <3>1. seen'[p] = seen[p] \ {r} /\ pc[p] = "admitting"
      BY <1>5, <2>2 DEF Admit, Types
    <3>2. CASE pc' = pc
      BY <3>1, <3>2 DEF Readings
    <3>3. CASE pc' # pc
      <4>1. run' = [run EXCEPT ![p] = r]
        BY <1>5, <2>2, <3>3 DEF Admit
      <4>2. run'[p] = r
        BY <4>1 DEF Types
      <4> QED BY <3>1, <4>2 DEF Readings
    <3> QED BY <3>2, <3>3
  <2> QED BY <2>1, <2>2
<1>6. CASE TakeAside(p) \/ Condemn(p) \/ DropClaim(p)
  <2>1. CASE Gone(p)
    BY <1>2, <2>1
  <2>2. CASE ~Gone(p)
    <3>1. UNCHANGED <<seen, run>> /\ pc[p] \in {"renaming", "judging", "dropping"}
      BY <1>6, <2>2 DEF TakeAside, Condemn, DropClaim
    <3> QED BY <3>1 DEF Readings
  <2> QED BY <2>1, <2>2
<1>7. CASE PutBack(p)
    BY <1>0, <1>7 DEF PutBack, Ended
<1>8. CASE DropRun(p)
  <2>1. Onward(p, FALSE)
    BY <1>8 DEF DropRun
  <2>2. seen' = seen /\ pc'[p] = "admitting"
    BY <2>1 DEF Onward, Goto, Types
  <2> QED BY <2>2 DEF Readings
<1>9. CASE AdoptLock(p) \/ AdoptCheck(p) \/ AdoptSave(p)
  <2>1. CASE Fail(p) \/ Gone(p) \/ End(p, "refused") \/ Onward(p, TRUE)
    BY <1>0, <1>1, <1>2, <2>1 DEF Ended
  <2>2. CASE ~(Fail(p) \/ Gone(p) \/ End(p, "refused") \/ Onward(p, TRUE))
    <3>1. seen' = seen /\ (Goto(p, "adopting") \/ Goto(p, "signing") \/ Goto(p, "driving"))
      BY <1>9, <2>2 DEF AdoptLock, AdoptCheck, AdoptSave
    <3> QED BY <3>1, EndsAt DEF Readings
  <2> QED BY <2>1, <2>2
<1>10. CASE Resolve(p) \/ TakeOver(p)
  <2>1. CASE Fail(p) \/ End(p, "refused")
    BY <1>0, <1>2, <2>1 DEF Ended
  <2>2. CASE ~(Fail(p) \/ End(p, "refused"))
    <3>1. seen' = seen /\ (Goto(p, "taking") \/ Goto(p, "driving"))
      BY <1>10, <2>2 DEF Resolve, TakeOver
    <3> QED BY <3>1, EndsAt DEF Readings
  <2> QED BY <2>1, <2>2
<1>11. CASE Disturb(p) \/ Bury(p) \/ Buried(p) \/ Make(p) \/ GiveUp(p)
  <2>1. CASE End(p, "failed") \/ End(p, "refused")
    BY <1>0, <2>1 DEF Ended
  <2>2. CASE ~(End(p, "failed") \/ End(p, "refused"))
    <3>1. /\ seen' = seen
          /\ Goto(p, "burying") \/ Goto(p, "burial") \/ Goto(p, "making") \/ Goto(p, "claiming")
      BY <1>11, <2>2 DEF Disturb, Bury, Buried, Make, GiveUp
    <3> QED BY <3>1, EndsAt DEF Readings
  <2> QED BY <2>1, <2>2
<1>12. CASE FirstSave(p) \/ Stop(p) \/ \E stage \in Stage : Progress(p, stage)
  <2>1. CASE Fail(p) \/ End(p, "stopped")
    BY <1>0, <1>2, <2>1 DEF Ended
  <2>2. CASE ~(Fail(p) \/ End(p, "stopped"))
    <3>1. seen' = seen /\ pc'[p] = "driving"
      BY <1>12, <2>2, EndsAt DEF FirstSave, Stop, Progress
    <3> QED BY <3>1 DEF Readings
  <2> QED BY <2>1, <2>2
<1>13. CASE Clear(p)
    BY <1>13, EndsAt DEF Clear, Readings
<1>14. CASE Cleared(p)
  <2>1. End(p, "done") \/ (Onward(p, TRUE) /\ seen' = seen)
    BY <1>14 DEF Cleared, Onward
  <2>2. pc'[p] \in {"admitting", "done"}
    BY <1>14, ClearedEnds
  <2> QED BY <1>0, <2>1, <2>2 DEF Readings, Ended
<1>15. CASE Die(p)
    BY <1>0, <1>15 DEF Die, Ended
<1> QED BY <1>3, <1>4, <1>5, <1>6, <1>7, <1>8, <1>9, <1>10, <1>11, <1>12, <1>13, <1>14, <1>15 DEF Step

LEMMA ExactKept ==
  ASSUME Types, InHand, Numbered, Exact, [Next]_vars
  PROVE  Numbered' /\ Exact'
<1>1. Numbered' /\ \A r \in Runs : Matches(r) => Matches(r)'
    BY NextEffects, EffectsKeep
<1>2. ASSUME NEW q \in Process, NEW r \in Readings(q)'
      PROVE  r \in Runs /\ Matches(r)
  <2>1. CASE r \in Readings(q)
    BY <2>1, ReadingTypes DEF Exact
  <2>2. CASE r \in Saved
    BY <2>2, SavedMatch
  <2>3. ASSUME NEW p \in Process, Step(p) \/ Die(p)
        PROVE  r \in Readings(q) \/ r \in Saved
    <3>1. CASE q = p
      BY <1>2, <2>3, <3>1, ReadingsPass
    <3>2. CASE q # p
      BY <1>2, <2>3, <3>2, Alone DEF Untouched, Readings
    <3> QED BY <3>1, <3>2
  <2>4. CASE Wait \/ (\E n \in Name : Vanish(n)) \/ UNCHANGED vars
    BY <1>2, <2>4, <2>1 DEF Wait, Vanish, vars, Readings
  <2> QED BY <2>1, <2>2, <2>3, <2>4 DEF Next
<1> QED BY <1>1, <1>2 DEF Exact

-----------------------------------------------------------------------------
(* What is dropped was read, and may be. *)

Doomed == {"renaming", "judging", "dropping"}

LEMMA ReclaimedMayGo ==
  ASSUME NEW p \in Process, NEW r \in Runs, Reclaimed(p, r), Spared(r)
  PROVE  Settled(r)
BY DEF Reclaimed, Spared, Ignored

(* A process comes to take aside what it found reclaimable, and goes on    *)
(* with it.                                                                *)
LEMMA ComesToDrop ==
  ASSUME Types, InHand, NEW p \in Process, Step(p) \/ Die(p), pc'[p] \in Doomed
  PROVE  \/ pc'[p] = "renaming" /\ \E r \in Runs : Reclaimed(p, r) /\ run'[p] = r
         \/ pc[p] \in Doomed /\ run' = run
<1>0. \A how : End(p, how) => pc'[p] = how
    BY EndsAt
<1>1. \A b : ~Onward(p, b)
    BY EndsAt DEF Doomed
<1>2. ~Fail(p) /\ ~Gone(p) /\ ~End(p, "refused") /\ ~End(p, "failed")
    BY <1>0, <1>1 DEF Fail, Gone, Doomed
<1>3. CASE \E r \in seen[p] : Admit(p, r)
  <2>1. PICK r \in seen[p] : Admit(p, r)
    BY <1>3
  <2>2. pc[p] = "admitting" /\ r \in Runs
    BY <2>1 DEF Admit, Types
  <2>3. \/ pc' = pc
        \/ Reclaimed(p, r) /\ Goto(p, "renaming") /\ run' = [run EXCEPT ![p] = r]
        \/ Goto(p, "locking")
    BY <1>2, <2>1 DEF Admit
  <2> QED BY <2>2, <2>3, EndsAt DEF Doomed, Types
<1>4. CASE Read(p) \/ Admitted(p)
    BY <1>4, EndsAt DEF Read, Admitted, Doomed
<1>5. CASE TakeAside(p) \/ Condemn(p) \/ DropClaim(p)
    BY <1>2, <1>5 DEF TakeAside, Condemn, DropClaim, Doomed
<1>6. CASE PutBack(p) \/ DropRun(p) \/ AdoptCheck(p)
    BY <1>0, <1>1, <1>2, <1>6, EndsAt DEF PutBack, DropRun, AdoptCheck, Doomed
<1>7. CASE AdoptLock(p) \/ AdoptSave(p) \/ Resolve(p) \/ TakeOver(p)
    BY <1>2, <1>7, EndsAt DEF AdoptLock, AdoptSave, Resolve, TakeOver, Doomed
<1>8. CASE Disturb(p) \/ Bury(p) \/ Buried(p) \/ Make(p) \/ GiveUp(p)
    BY <1>2, <1>8, EndsAt DEF Disturb, Bury, Buried, Make, GiveUp, Doomed
<1>9. CASE FirstSave(p) \/ Stop(p) \/ Clear(p) \/ Die(p)
    BY <1>2, <1>0, <1>9, EndsAt DEF FirstSave, Stop, Clear, Die, Doomed
<1>10. CASE (\E stage \in Stage : Progress(p, stage)) \/ Cleared(p)
    BY <1>2, <1>10, ClearedEnds DEF Progress, Doomed
<1> QED BY <1>3, <1>4, <1>5, <1>6, <1>7, <1>8, <1>9, <1>10 DEF Step

(* What is dropped has been looked at.                                     *)
LEMMA DropsAsRead ==
  ASSUME Types, InHand, Condemned, NEW p \in Process, Step(p) \/ Die(p), pc'[p] = "dropping"
  PROVE  AsRead(p)'
<1>0. pc[p] \in Doomed /\ run' = run
    BY ComesToDrop DEF Doomed
<1>1. Condemn(p) \/ DropClaim(p)
  <2>1. ~Fail(p) /\ ~Gone(p) /\ ~End(p, "refused") /\ ~End(p, "failed") /\ ~Onward(p, FALSE)
    BY EndsAt DEF Fail, Gone, Onward, Goto, Types
  <2>2. ~TakeAside(p) /\ ~PutBack(p) /\ ~DropRun(p)
    BY <2>1, EndsAt DEF TakeAside, PutBack, DropRun
  <2>3. ~Die(p)
    BY EndsAt DEF Die
  <2> QED BY <1>0, <2>2, <2>3 DEF Step, Doomed, Read, Admitted, Admit, AdoptLock, AdoptCheck, AdoptSave, Resolve,
                            TakeOver, Disturb, Bury, Buried, Make, Makes, Claims, GiveUp, FirstSave,
                            Progress, Stop, Clear, Cleared
<1>2. tomb' = tomb /\ AsRead(p)
    BY <1>1 DEF Condemn, DropClaim, Condemned
<1> QED BY <1>0, <1>2 DEF AsRead

LEMMA CondemnedKept ==
  ASSUME Types, InHand, Condemned, [Next]_vars
  PROVE  Condemned'
<1>1. gone \subseteq gone'
  <2>1. ASSUME NEW p \in Process, Step(p) \/ Die(p)
        PROVE  gone' = gone
    BY <2>1 DEF Step, Die, Read, Admitted, Admit, TakeAside, PutBack, Condemn, DropClaim, DropRun, Gone,
                Fail, AdoptLock, AdoptCheck, AdoptSave, Resolve, TakeOver, Disturb, Bury, Buried,
                Make, GiveUp, FirstSave, Progress, Stop, Clear, Cleared, time
  <2> QED BY <2>1 DEF Next, Wait, Vanish, vars, time
<1>2. task' = task
  <2>1. ASSUME NEW p \in Process, Step(p) \/ Die(p)
        PROVE  task' = task
    BY <2>1 DEF Step, Die, Read, Admitted, Admit, TakeAside, PutBack, Condemn, DropClaim, DropRun, Gone,
                Fail, AdoptLock, AdoptCheck, AdoptSave, Resolve, TakeOver, Disturb, Bury, Buried,
                Make, GiveUp, FirstSave, Progress, Stop, Clear, Cleared
  <2> QED BY <2>1 DEF Next, Wait, Vanish, vars
<1>3. \A r : Settled(r) => Settled(r)'
    BY <1>1 DEF Settled
<1>4. \A r : Spared(r)' = Spared(r)
    BY <1>2 DEF Spared, command
<1>5. ASSUME NEW q \in Process, pc[q] \in Doomed, pc'[q] = pc[q], run'[q] = run[q], tomb'[q] = tomb[q]
      PROVE  /\ Spared(run[q])' => Settled(run[q])'
             /\ pc'[q] = "dropping" => AsRead(q)'
  <2>1. /\ Spared(run[q]) => Settled(run[q])
        /\ pc[q] = "dropping" => AsRead(q)
    BY <1>5 DEF Condemned, Doomed
  <2> QED BY <1>1, <1>2, <1>5, <2>1 DEF Spared, Settled, AsRead, command
<1>6. ASSUME NEW p \in Process, Step(p) \/ Die(p)
      PROVE  Condemned'
  <2>1. pc'[p] \in Doomed => (Spared(run[p])' => Settled(run[p])')
    <3> SUFFICES ASSUME pc'[p] \in Doomed, Spared(run[p])' PROVE Settled(run[p])'
      OBVIOUS
    <3>1. CASE \E r \in Runs : Reclaimed(p, r) /\ run'[p] = r
      <4>1. PICK r \in Runs : Reclaimed(p, r) /\ run'[p] = r
        BY <3>1
      <4>2. Spared(r)
        BY <1>2, <4>1 DEF Spared, command
      <4> QED BY <1>1, <4>1, <4>2, ReclaimedMayGo DEF Settled
    <3>2. CASE pc[p] \in Doomed /\ run' = run
      <4>1. Spared(run[p])
        BY <1>2, <3>2 DEF Spared, command
      <4> QED BY <1>1, <3>2, <4>1 DEF Condemned, Doomed, Settled
    <3> QED BY <1>6, <3>1, <3>2, ComesToDrop
  <2>2. pc'[p] = "dropping" => AsRead(p)'
    BY <1>6, DropsAsRead
  <2>3. ASSUME NEW q \in Process, q # p, pc'[q] \in Doomed
        PROVE  /\ Spared(run[q])' => Settled(run[q])'
               /\ pc'[q] = "dropping" => AsRead(q)'
    BY <1>5, <1>6, <2>3, Alone DEF Untouched
  <2> QED BY <2>1, <2>2, <2>3 DEF Condemned, Doomed
<1>7. CASE Wait \/ (\E n \in Name : Vanish(n)) \/ UNCHANGED vars
  <2>1. UNCHANGED <<pc, run, tomb>>
    BY <1>7 DEF Wait, Vanish, vars
  <2> QED BY <1>5, <2>1 DEF Condemned, Doomed
<1> QED BY <1>6, <1>7 DEF Next

-----------------------------------------------------------------------------
(* The invariant, and what it gives. *)

LEMMA Inductive == IInv /\ [Next]_vars => IInv'
<1> SUFFICES ASSUME IInv, [Next]_vars PROVE IInv'
    OBVIOUS
<1>1. Types' /\ InHand' /\ Aside' /\ Condemned'
    BY TypesKept, InHandKept, AsideKept, CondemnedKept DEF IInv
<1>2. Numbered' /\ Exact'
    BY ExactKept DEF IInv, Numbered
<1> QED BY <1>1, <1>2 DEF IInv, Numbered

\* The saved states of the run directories are numbered and each in one place,
\* and what a process has in hand is what it read (stackrebase.go:1120-1150,
\* 5680-5770, 5892).
THEOREM Invariance == Spec => []IInv
<1> QED BY Initially, Inductive, PTL DEF Spec

\* The types hold, and a process that is not over holds nothing it took aside
\* but what it is deciding about (stackrebase.go:1123, 5741).
THEOREM TypeCorrect == Spec => []TypeOK
<1>1. IInv => TypeOK
  <2> SUFFICES ASSUME IInv PROVE TypeOK
    OBVIOUS
  <2>1. /\ dir \in [Name -> Dirs] /\ tomb \in [Process -> Dirs]
        /\ saves \in 0 .. MaxSaves /\ stale \subseteq 1 .. saves /\ gone \subseteq Name
    BY DEF IInv, Types
  <2>2. ASSUME NEW p \in Process
        PROVE  /\ run[p] \in Runs \cup {NoRun} /\ seen[p] \subseteq Runs
               /\ tomb[p].made => pc[p] \in Ended \cup {"judging", "dropping", "burial"}
    BY DirTypes DEF IInv, Types, Aside, Ended
  <2> QED BY <2>1, <2>2 DEF TypeOK
<1> QED BY <1>1, Invariance, PTL

\* Of the callers that reclaim one run, only one gets as far as dropping it
\* (stackrebase.go:1120-1145).
THEOREM ReclaimsOnce == Spec => []OneReclaims
<1>1. IInv => OneReclaims
  <2> SUFFICES ASSUME IInv, NEW p \in Process, pc[p] = "dropping"
               PROVE  /\ \A q \in Process : pc[q] = "dropping" /\ run[q].saved = run[p].saved => q = p
                      /\ \A r \in Saved : r.saved # run[p].saved
    BY DEF OneReclaims
  <2>1. ASSUME NEW q \in Process, pc[q] = "dropping"
        PROVE  Holds(tomb[q], run[q].saved) /\ run[q].saved \in 1 .. saves
    <3>1. run[q] \in Runs /\ run[q] \in Readings(q) /\ AsRead(q)
      BY <2>1 DEF IInv, InHand, Readings, Condemned
    <3>2. run[q].saved <= saves /\ run[q].saved \in 1 .. MaxSaves
      BY <3>1, RunFields DEF IInv, Exact, Matches
    <3> QED BY <3>1, <3>2 DEF AsRead, Holds, IInv, Types
  <2>2. \A q \in Process : pc[q] = "dropping" /\ run[q].saved = run[p].saved => q = p
    BY <2>1 DEF IInv, Single
  <2>3. \A n \in Name : ~Holds(dir[n], run[p].saved)
    BY <2>1 DEF IInv, Single
  <2> QED BY <2>2, <2>3 DEF Saved, Holds
<1> QED BY <1>1, Invariance, PTL

\* No run that may have moved a branch still there is removed by one who took
\* it aside for what it was before (stackrebase.go:1131-1137, 5758-5765).
THEOREM MovedSpared == Spec => ReclaimSparesMoved
<1>1. ASSUME IInv, [Next]_vars, NEW o \in Process, tomb[o].state # NoRun,
             Spared(tomb[o].state), ~Settled(tomb[o].state)
      PROVE  \/ \E n \in Name : dir'[n].state = tomb[o].state
             \/ \E p \in Process : tomb'[p].state = tomb[o].state
  <2>0. Types /\ InHand /\ Aside /\ Exact /\ Condemned
    BY <1>1 DEF IInv
  <2>1. CASE tomb'[o] = tomb[o]
    BY <2>1
  <2>2. CASE tomb'[o] # tomb[o]
    <3>1. Step(o)
      <4>1. ASSUME NEW p \in Process, Step(p) \/ Die(p), p # o
            PROVE  FALSE
        BY <2>0, <2>2, <4>1, Alone DEF Untouched
      <4>2. ~Die(o) /\ ~Wait /\ ~(\E n \in Name : Vanish(n)) /\ ~UNCHANGED vars
        BY <2>2 DEF Die, Wait, Vanish, vars
      <4> QED BY <1>1, <4>1, <4>2 DEF Next
    <3>2. pc[o] \in {"judging", "dropping", "burial", "failed", "dead"}
      BY <1>1, <2>0, DirTypes DEF Aside
    <3>3. PutBack(o) \/ DropRun(o) \/ Buried(o)
      <4>1. ~TakeAside(o) /\ ~Bury(o)
        BY <3>2 DEF TakeAside, Bury
      <4>2. (Fail(o) \/ Gone(o)) => tomb' = tomb
        BY DEF Fail, Gone
      <4> QED BY <2>2, <3>1, <4>1, <4>2 DEF Step, Read, Admitted, Admit, Condemn, DropClaim, AdoptLock,
                 AdoptCheck, AdoptSave, Resolve, TakeOver, Disturb, Make, GiveUp, FirstSave,
                 Progress, Stop, Clear, Cleared
    <3>4. CASE PutBack(o)
      <4>1. Bottom(run[o]) \in Name
        BY <2>0, <3>4, RunFields DEF PutBack, InHand
      <4>2. dir' = [dir EXCEPT ![Bottom(run[o])] = tomb[o]]
        BY <2>2, <3>4 DEF PutBack
      <4> QED BY <2>0, <4>1, <4>2 DEF Types
    <3>5. CASE DropRun(o)
      <4>1. run[o] \in Runs /\ run[o] \in Readings(o) /\ AsRead(o) /\ (Spared(run[o]) => Settled(run[o]))
        BY <2>0, <3>5 DEF DropRun, InHand, Readings, Condemned
      <4>2. tomb[o].state = run[o]
        BY <2>0, <4>1, RunFields DEF Exact, Matches, AsRead, Holds
      <4> QED BY <1>1, <4>1, <4>2
    <3>6. CASE Buried(o)
      <4>1. Wanted(o) \in Name
        BY <2>0, <3>6, WantedName DEF Buried, InHand
      <4>2. dir' = [dir EXCEPT ![Wanted(o)] = tomb[o]]
        BY <1>1, <2>2, <3>6 DEF Buried
      <4> QED BY <2>0, <4>1, <4>2 DEF Types
    <3> QED BY <3>3, <3>4, <3>5, <3>6
  <2> QED BY <2>1, <2>2
<1>2. IInv /\ [Next]_vars => [MovedStand]_vars
  <2> SUFFICES ASSUME IInv, [Next]_vars, NEW o \in Process, tomb[o].state # NoRun,
                      Spared(tomb[o].state), ~Settled(tomb[o].state), NEW r, r = tomb[o].state
               PROVE  OnDisk(r)'
    BY DEF MovedStand, Spared
  <2>1. \/ \E n \in Name : dir'[n].state = r
        \/ \E p \in Process : tomb'[p].state = r
    BY <1>1
  <2> QED BY <2>1 DEF OnDisk
<1> QED BY <1>2, Invariance, PTL DEF Spec, ReclaimSparesMoved
===============================================================================
