-------------------------------- MODULE PRStore --------------------------------
(***************************************************************************)
(* The machine-wide view of a repository's pull requests                   *)
(* (internal/prstate/prstate.go): many processes read and poll it through  *)
(* one state file, which only `commit' writes, under a file lock, and      *)
(* lease files, which readers renew without the lock.  No process holds    *)
(* the lock across a request, so requests land in any order.               *)
(*                                                                         *)
(* A pull request is as much as the store tells apart: its head (a number, *)
(* greater for a later push), whether the queue has landed it, and when    *)
(* its record was polled.  Every reading of the clock is an instant of its *)
(* own.                                                                    *)
(***************************************************************************)
EXTENDS Integers, FiniteSets, Functions

CONSTANTS
    Process,      \* processes of the machine
    PR, Lane,     \* pull requests and branch prefixes
    Under,        \* the pull requests on branches under each prefix
    Wants,        \* what a read may ask for
    Outcomes,     \* how a request to GitHub may end
    Graphite,     \* whether Graphite answers with it
    Queue,        \* TRUE if a queue lands pull requests
    Lag,          \* TRUE if GitHub's API may lag behind a push
    Interval,     \* MinInterval
    ReadBudget, PollBudget, PushLag, LeaseTTL, KeepFor,
    Limit,        \* how long a refusal lasts (ProbeEvery, a quota's reset)
    Epoch,        \* the first instant; Never is far before it
    MaxTime,      \* bound on the clock
    MaxHead       \* bound on pushes

Never == 0

ASSUME SetAssumption   == /\ Under \in [Lane -> SUBSET PR]
                          /\ IsFiniteSet(PR) /\ IsFiniteSet(Lane)
                          /\ Outcomes \subseteq {"ok", "low", "limited", "error"}
                          /\ Graphite \subseteq BOOLEAN
ASSUME TimeAssumption  == /\ {Interval, ReadBudget, PollBudget, PushLag} \subseteq Nat \ {0}
                          /\ {LeaseTTL, KeepFor, Limit} \subseteq Nat \ {0}
                          /\ MaxTime \in Nat /\ Epoch \in 0 .. MaxTime /\ MaxHead \in Nat \ {0}
                          /\ \A d \in {Interval, LeaseTTL, KeepFor, PushLag} : d < Epoch
                          /\ PushLag <= LeaseTTL
ASSUME WantAssumption  == Wants \subseteq
                            [prs : SUBSET PR, lanes : SUBSET Lane, maxAge : Nat \ {0},
                             after : BOOLEAN, patient : BOOLEAN]

VARIABLES
  clock,
  \* GitHub.
    heads,      \* the head of each pull request, 0 for one that does not exist
    shown,      \* the head the API shows
    squashed,   \* the pull requests the queue has landed
  \* The cache directory.
    file,       \* state.json
    lease,      \* the times of the lease files, Never for one that is absent
  \* The processes.
    pc,         \* where each is
    want,       \* what its read wants
    asked,      \* when its read began
    now,        \* when it last read the clock
    waited,     \* its read has slept
    wake,       \* when its sleep ends
    over,       \* its read has spent its budget
    job,        \* the request it sends
    reply,      \* what GitHub answered
    answer,     \* what its read returned
  \* Observations.
    pushes,     \* the last push recorded for each pull request
    lacked      \* the pull requests each read or push found lacking

github == <<heads, shown, squashed>>
read   == <<want, asked, now, waited, wake, over>>
sent   == <<job, reply>>
past   == <<pushes, lacked>>
vars   == <<clock, github, file, lease, pc, read, sent, answer, past>>

-----------------------------------------------------------------------------
(* The state file. *)

NoBackoff == [since |-> Never, probeAt |-> Never]
NoRecord  == [head |-> 0, settled |-> FALSE, unknown |-> FALSE, seen |-> Never,
              polledAt |-> Never, pushedHead |-> 0, pushedAt |-> Never]
EmptyFile == [attemptedAt |-> Never, polledAt |-> Never, failure |-> Never,
              backoff |-> NoBackoff, rest |-> NoBackoff,
              prs |-> <<>>, lanes |-> <<>>]

(* A refusal at `t', counted from `since'. *)
Refused(since, t) == [since |-> since, probeAt |-> t + Limit]

Limited(st) == st.backoff # NoBackoff

Was(prs, n) == IF n \in DOMAIN prs THEN prs[n] ELSE NoRecord

Pushed(rec) == rec.pushedAt > rec.polledAt

\* Mutant: a record answers whatever poll it comes from.
PRFreshEarlier(st, n, maxAge, after, at) ==
    /\ n \in DOMAIN st.prs
    /\ ~Pushed(st.prs[n]) /\ at - st.prs[n].polledAt < maxAge

PRFresh(st, n, maxAge, after, at) ==
    /\ n \in DOMAIN st.prs
    /\ LET rec == st.prs[n]
       IN  /\ ~Pushed(rec)
           /\ rec.polledAt >= after
           /\ rec.unknown => at - rec.polledAt < Interval
           /\ rec.settled \/ at - rec.polledAt < maxAge

LaneFresh(st, l, maxAge, after, at) ==
    /\ l \in DOMAIN st.lanes
    /\ at - st.lanes[l].polledAt < maxAge
    /\ \A n \in st.lanes[l].prs : PRFresh(st, n, maxAge, after, at)

Fresh(st, w, at) ==
    /\ \A n \in w.prs   : PRFresh(st, n, w.maxAge, w.after, at)
    /\ \A l \in w.lanes : LaneFresh(st, l, w.maxAge, w.after, at)

Members(st, lanes) == UNION {st.lanes[l].prs : l \in lanes \cap DOMAIN st.lanes}

(* A record, however old, for everything `w' names. *)
Covers(st, w) ==
    /\ w.lanes \subseteq DOMAIN st.lanes
    /\ \A n \in w.prs \cup Members(st, w.lanes) :
         /\ n \in DOMAIN st.prs
         /\ st.prs[n].polledAt # Never /\ st.prs[n].polledAt >= w.after

Known(st, w) == w.lanes \subseteq DOMAIN st.lanes

Unanswered(st, w, at) ==
    {n \in w.prs \cup Members(st, w.lanes) : ~PRFresh(st, n, w.maxAge, w.after, at)}

(* The pull requests no poll has read since their last push, when they are *)
(* all that keeps `st' from answering.                                     *)
Unpolled(st, w, at) ==
    LET unread == {n \in w.prs : n \notin DOMAIN st.prs \/ Pushed(st.prs[n])}
    IN  IF /\ st.attemptedAt # Never
           /\ \A l \in w.lanes : LaneFresh(st, l, w.maxAge, Never, at)
           /\ \A n \in w.prs \ unread : PRFresh(st, n, w.maxAge, w.after, at)
        THEN unread ELSE {}

\* Mutant: a claimed poll reads only what it has records of.
ClaimedKnown(st, w, t) ==
    [prs |-> {n \in w.prs \cap DOMAIN st.prs : ~PRFresh(st, n, Interval, w.after, t)},
     lanes |-> w.lanes]

(* What a poll claimed at `t' reads: what its reader wants and what was    *)
(* leased since the claim before it.                                       *)
Claimed(st, w, t) ==
    LET recent(at) == at > st.attemptedAt /\ t - at < LeaseTTL
        lanes == w.lanes \cup {l \in Lane : recent(lease.lanes[l])}
        prs   == w.prs \cup {n \in PR : recent(lease.prs[n])} \cup Members(st, lanes)
    IN  [prs   |-> {n \in prs : ~PRFresh(st, n, Interval, w.after, t)},
         lanes |-> {l \in lanes : l \in DOMAIN st.lanes => t - st.lanes[l].polledAt >= Interval}]

(* The lane members a poll claimed at `t' discovered. *)
Unread(st, lanes, t) ==
    {n \in Members(st, lanes) : Was(st.prs, n).polledAt < t /\ ~Was(st.prs, n).settled}

\* Mutant: the push is forgotten as soon as a poll lands.
BesideNothing(rec, was, t) == [rec EXCEPT !.polledAt = t]

(* A record read at `t', with the push it does not show yet. *)
Beside(rec, was, t) ==
    LET kept == was.pushedHead # 0 /\ rec.head # was.pushedHead /\ t - was.pushedAt < PushLag
    IN  [rec EXCEPT !.polledAt = t,
                    !.pushedHead = IF kept THEN was.pushedHead ELSE 0,
                    !.pushedAt = IF kept THEN was.pushedAt ELSE Never]

(* The missing pull requests no later poll or push knows of. *)
Gone(prs, p, t) ==
    {n \in p.missing : Was(prs, n).polledAt <= t /\ Was(prs, n).pushedAt <= t}

\* Mutant: the last poll to land wins.
MergeAll(prs, p, t) ==
    [n \in (DOMAIN prs \cup DOMAIN p.prs) \ Gone(prs, p, t) |->
        IF n \in DOMAIN p.prs THEN Beside(p.prs[n], Was(prs, n), t) ELSE prs[n]]

Merge(prs, p, t) ==
    LET taken == {n \in DOMAIN p.prs : Was(prs, n).polledAt <= t}
    IN  [n \in (DOMAIN prs \cup taken) \ Gone(prs, p, t) |->
            IF n \in taken THEN Beside(p.prs[n], Was(prs, n), t) ELSE prs[n]]

(* The lanes of `p' no later poll has read. *)
Listed(st, p, t) ==
    {l \in DOMAIN p.lanes : l \in DOMAIN st.lanes => st.lanes[l].polledAt <= t}

Expired(at, t) == at # Never /\ t - at >= LeaseTTL

AbsorbLeases(st, p, t) ==
    LET found == UNION {p.lanes[l] : l \in Listed(st, p, t)}
        raised(n) == IF n \in found /\ lease.prs[n] < t THEN t ELSE lease.prs[n]
    IN  [prs   |-> [n \in PR |-> IF n \in Gone(st.prs, p, t) \/ Expired(raised(n), t)
                                 THEN Never ELSE raised(n)],
         lanes |-> [l \in Lane |-> IF Expired(lease.lanes[l], t) THEN Never ELSE lease.lanes[l]]]

Absorb(st, p, t) ==
    LET newest == st.polledAt <= t
        merged == Merge(st.prs, p, t)
        kept   == {n \in DOMAIN merged :
                     AbsorbLeases(st, p, t).prs[n] # Never \/ t - merged[n].polledAt < KeepFor}
        listed == Listed(st, p, t)
        lanes  == {l \in DOMAIN st.lanes \cup listed : ~Expired(lease.lanes[l], t)}
    IN  [st EXCEPT
          !.polledAt = IF newest THEN t ELSE @,
          !.prs = [n \in kept |-> merged[n]],
          !.lanes = [l \in lanes |-> IF l \in listed
                                     THEN [prs |-> p.lanes[l], polledAt |-> t]
                                     ELSE st.lanes[l]],
          !.backoff = IF newest /\ @.since <= t
                      THEN IF p.outcome = "low" THEN Refused(t, p.at) ELSE NoBackoff
                      ELSE @]

Verdict(st, w, at) ==
    IF ~(w.prs \subseteq DOMAIN st.prs) THEN "missing"
    ELSE IF Limited(st) /\ ~Fresh(st, w, at) THEN "limited" ELSE "ok"

(* What the reader finds of its want in the state it is given. *)
View(st, w) ==
    [kind  |-> "ok",
     prs   |-> Restrict(st.prs, (w.prs \cup Members(st, w.lanes)) \cap DOMAIN st.prs),
     lanes |-> Restrict(st.lanes, w.lanes \cap DOMAIN st.lanes)]

-----------------------------------------------------------------------------
(* The steps of a read. *)

NoWant   == [prs |-> {}, lanes |-> {}, maxAge |-> Interval, after |-> Never, patient |-> TRUE]
NoJob    == [prs |-> {}, lanes |-> {}, kind |-> "none", cause |-> "ok"]
NoReply  == [outcome |-> "none", at |-> Never, prs |-> <<>>, missing |-> {}, lanes |-> <<>>]
NoAnswer == [kind |-> "none", prs |-> <<>>, lanes |-> <<>>]

Init ==
    /\ clock = Epoch
    /\ heads \in [PR -> {0, 1}]
    /\ shown = heads
    /\ squashed = {}
    /\ file = EmptyFile
    /\ lease = [prs |-> [n \in PR |-> Never], lanes |-> [l \in Lane |-> Never]]
    /\ pc = [p \in Process |-> "idle"]
    /\ want = [p \in Process |-> NoWant]
    /\ asked = [p \in Process |-> Never]
    /\ now = [p \in Process |-> Never]
    /\ waited = [p \in Process |-> FALSE]
    /\ wake = [p \in Process |-> Never]
    /\ over = [p \in Process |-> FALSE]
    /\ job = [p \in Process |-> NoJob]
    /\ reply = [p \in Process |-> NoReply]
    /\ answer = [p \in Process |-> NoAnswer]
    /\ pushes = [n \in PR |-> [head |-> 0, stamp |-> Never, shown |-> FALSE, lacked |-> FALSE]]
    /\ lacked = [p \in Process |-> {}]

Go(p, step) == pc' = [pc EXCEPT ![p] = step]

Tick == clock < MaxTime /\ clock' = clock + 1

(* Process `p' reads the clock, and keeps the instant while it needs it.   *)
Stamp(p) ==
    now' = [now EXCEPT ![p] = IF pc'[p] \in {"probe", "claim", "poll", "mark"}
                              THEN clock' ELSE Never]

\* Mutant: a lease file is stamped with the lease's end.
RenewedUntil(prs, lanes, t) ==
    [prs   |-> [n \in PR |-> IF n \in prs THEN t + LeaseTTL ELSE lease.prs[n]],
     lanes |-> [l \in Lane |-> IF l \in lanes THEN t + LeaseTTL ELSE lease.lanes[l]]]

Renewed(prs, lanes, t) ==
    [prs   |-> [n \in PR |-> IF n \in prs THEN t ELSE lease.prs[n]],
     lanes |-> [l \in Lane |-> IF l \in lanes THEN t ELSE lease.lanes[l]]]

(* The read's own deadline, which the caller's context outlives. *)
Late(p, t) == ~over[p] /\ t >= asked[p] + ReadBudget

(* The deadline of the request under way. *)
Overdue(p) ==
    IF job[p].kind \in {"claim", "more", "over"}
    THEN clock >= now[p] + PollBudget
    ELSE Late(p, clock)

(* Return to `readFor': an error past the budget goes on to `overBudget'.  *)
(* The stale view that goes with an error is left out.                     *)
Return(p, kind, st, late) ==
    \/ /\ kind = "ok"
       /\ Go(p, "done")
       /\ answer' = [answer EXCEPT ![p] = View(st, want[p])]
       /\ UNCHANGED job
    \/ /\ kind # "ok" /\ late
       /\ Go(p, "over")
       /\ job' = [job EXCEPT ![p] = [NoJob EXCEPT !.cause = kind]]
       /\ UNCHANGED answer
    \/ /\ kind # "ok" /\ ~late
       /\ Go(p, "done")
       /\ answer' = [answer EXCEPT ![p].kind = kind]
       /\ UNCHANGED job

Send(p, j) ==
    /\ Go(p, "poll")
    /\ job' = [job EXCEPT ![p] = j]
    /\ UNCHANGED answer

(* Fall back to REST for what `st' does not answer. *)
Degrade(p, st, t, late, cause) ==
    LET prs == Unanswered(st, want[p], asked[p])
        refused == late \/ t < st.rest.probeAt \/ ~Known(st, want[p])
    IN  \/ refused /\ Return(p, cause, st, late)
        \/ /\ ~refused /\ prs = {}
           /\ Return(p, Verdict(st, want[p], asked[p]), st, late)
        \/ /\ ~refused /\ prs # {}
           /\ Send(p, [prs |-> prs, lanes |-> {}, kind |-> "rest", cause |-> cause])

(* What a read does with a state that does not answer it and is not backed *)
(* off: poll what no poll has read, wait for the next poll, or claim it.   *)
Decide(p, st, t, late, slept) ==
    LET unpolled == IF st.failure = Never THEN Unpolled(st, want[p], asked[p]) ELSE {}
        next     == st.attemptedAt + Interval
        early    == t < next \/ (slept /\ st.failure # Never)
        shared   == st.attemptedAt >= asked[p]
    IN  \/ /\ unpolled # {}
           /\ Send(p, [prs |-> unpolled, lanes |-> {}, kind |-> "own", cause |-> "ok"])
           /\ wake' = [wake EXCEPT ![p] = Never]
        \/ /\ unpolled = {} /\ early /\ st.failure # Never
           /\ Degrade(p, st, t, late, "failed")
           /\ wake' = [wake EXCEPT ![p] = Never]
        \/ /\ unpolled = {} /\ early /\ st.failure = Never
           /\ ~want[p].patient /\ Covers(st, want[p])
           /\ Return(p, "ok", st, FALSE)
           /\ wake' = [wake EXCEPT ![p] = Never]
        \/ /\ unpolled = {} /\ early /\ st.failure = Never
           /\ want[p].patient \/ ~Covers(st, want[p])
           /\ Go(p, IF shared THEN "watch" ELSE "sleep")
           /\ wake' = [wake EXCEPT ![p] = IF shared THEN Never ELSE next]
           /\ UNCHANGED <<job, answer>>
        \/ /\ unpolled = {} /\ ~early
           /\ Go(p, "claim")
           /\ UNCHANGED <<job, answer>>
           /\ wake' = [wake EXCEPT ![p] = Never]

(* GitHub lacks the pull request, or has said so to a poll that is under way. *)
Lacking(n) == heads[n] = 0 \/ \E q \in Process : n \in reply[q].missing

(* Read or Peek begins. *)
Begin(p, w) ==
    /\ pc[p] = "idle"
    /\ Tick
    /\ want' = [want EXCEPT ![p] = [w EXCEPT !.after = IF w.after THEN clock' ELSE Never]]
    /\ asked' = [asked EXCEPT ![p] = clock']
    /\ lease' = Renewed(w.prs, w.lanes, clock')
    /\ Go(p, "look")
    /\ lacked' = [lacked EXCEPT ![p] =
         {n \in w.prs \cup UNION {Under[l] : l \in w.lanes} : Lacking(n)}]
    /\ UNCHANGED <<github, file, now, waited, wake, over, sent, answer, pushes>>

(* The read loads the state, at once or when it has slept, and is         *)
(* answered, refused or sent on.                                           *)
Look(p) ==
    /\ Tick
    /\ \/ pc[p] = "look" /\ UNCHANGED waited
       \/ /\ pc[p] \in {"sleep", "watch"} /\ clock' >= wake[p]
          /\ waited' = [waited EXCEPT ![p] = TRUE]
    /\ \/ /\ Fresh(file, want[p], asked[p])
          /\ Return(p, "ok", file, FALSE)
          /\ wake' = [wake EXCEPT ![p] = Never]
       \/ /\ ~Fresh(file, want[p], asked[p])
          /\ Limited(file) /\ clock' < file.backoff.probeAt
          /\ Degrade(p, file, clock', Late(p, clock'), "limited")
          /\ wake' = [wake EXCEPT ![p] = Never]
       \/ /\ ~Fresh(file, want[p], asked[p])
          /\ Limited(file) /\ clock' >= file.backoff.probeAt
          /\ Go(p, "probe")
          /\ UNCHANGED <<job, answer>>
          /\ wake' = [wake EXCEPT ![p] = Never]
       \/ /\ ~Fresh(file, want[p], asked[p])
          /\ ~Limited(file)
          /\ Decide(p, file, clock', Late(p, clock'), waited'[p])
    /\ Stamp(p)
    /\ UNCHANGED <<github, file, lease, want, asked, over, reply, past>>

(* The cheap request that tests whether a refusal lifted has ended. *)
Probe(p, outcome) ==
    /\ pc[p] = "probe"
    /\ LET st == [file EXCEPT !.backoff =
                    IF outcome = "ok" THEN NoBackoff
                    ELSE IF outcome = "low" THEN Refused(now[p], clock)
                    ELSE Refused(IF Limited(file) THEN @.since ELSE now[p], now[p])]
       IN  \/ /\ outcome = "error"
              /\ Return(p, "failed", file, Late(p, clock))
              /\ UNCHANGED <<file, wake>>
           \/ /\ outcome \in {"limited", "low"}
              /\ file' = st
              /\ Degrade(p, st, now[p], Late(p, clock), "limited")
              /\ UNCHANGED wake
           \/ /\ outcome = "ok"
              /\ file' = st
              /\ Decide(p, st, now[p], Late(p, clock), waited[p])
    /\ UNCHANGED <<clock, github, lease, want, asked, now, waited, over, reply, past>>

(* The budget ends the sleep. *)
Cut(p) ==
    /\ pc[p] = "sleep" /\ Late(p, clock)
    /\ Go(p, "over")
    /\ job' = [job EXCEPT ![p].cause = "failed"]
    /\ UNCHANGED <<clock, github, file, lease, read, reply, answer, past>>

\* Mutants: the claim trusts what was loaded before the lock.
DueUnspaced(p)  == ~Fresh(file, want[p], asked[p]) /\ ~Limited(file)
DueUnlimited(p) == ~Fresh(file, want[p], asked[p]) /\ now[p] >= file.attemptedAt + Interval

(* Under the lock the next poll is still to be claimed. *)
Due(p) ==
    /\ ~Fresh(file, want[p], asked[p])
    /\ ~Limited(file)
    /\ now[p] >= file.attemptedAt + Interval

(* Claim the next poll, unless another process has. *)
Claim(p) ==
    /\ pc[p] = "claim"
    /\ LET req == Claimed(file, want[p], now[p])
       IN  \/ /\ Due(p)
              /\ file' = [file EXCEPT !.attemptedAt = now[p], !.failure = Never]
              /\ Send(p, [prs |-> req.prs, lanes |-> req.lanes, kind |-> "claim", cause |-> "ok"])
           \/ /\ ~Due(p)
              /\ Go(p, "look")
              /\ UNCHANGED <<file, job, answer>>
    /\ UNCHANGED <<clock, github, lease, read, reply, past>>

(* The budget is spent: poll just what the read wants, or degrade. *)
Over(p) ==
    /\ pc[p] = "over"
    /\ Tick
    /\ over' = [over EXCEPT ![p] = TRUE]
    /\ LET prs   == Unanswered(file, want[p], asked[p])
           polls == Known(file, want[p]) /\ prs # {} /\ file.failure = Never /\ ~Limited(file)
       IN  \/ polls /\ Send(p, [prs |-> prs, lanes |-> {}, kind |-> "over", cause |-> job[p].cause])
           \/ ~polls /\ Degrade(p, file, clock', FALSE, job[p].cause)
    /\ Stamp(p)
    /\ UNCHANGED <<github, file, lease, want, asked, waited, wake, reply, past>>

(* A record as GitHub shows it now; `unknown' if Graphite did not answer. *)
Shown(n, unknown) ==
    [NoRecord EXCEPT !.head = shown[n], !.settled = n \in squashed /\ ~unknown,
                     !.unknown = unknown, !.seen = clock]

(* GitHub answers the pages of a request, all or some, or refuses it. *)
Serve(p, outcome, graphite) ==
    /\ pc[p] = "poll"
    /\ Overdue(p) => outcome = "error"
    /\ job[p].kind = "rest" => outcome # "low"
    /\ LET there == {n \in job[p].prs : shown[n] # 0}
           ok    == outcome \in {"ok", "low"}
       IN  \E kept \in SUBSET there :
             /\ ok => kept = there
             /\ reply' = [reply EXCEPT ![p] =
                  [outcome |-> outcome, at |-> clock,
                   prs |-> [n \in kept |-> Shown(n, ~graphite)],
                   missing |-> IF ok THEN job[p].prs \ there ELSE {},
                   lanes |-> [l \in IF ok THEN job[p].lanes ELSE {} |->
                                {n \in Under[l] : shown[n] # 0 /\ n \notin squashed}]]]
    /\ Go(p, "land")
    /\ UNCHANGED <<clock, github, file, lease, read, job, answer, past>>

\* Mutant: any claimed poll that fails is blamed, overtaken or not.
BlamedAlways(p, t) == job[p].kind \in {"claim", "more"} /\ ~Overdue(p)

(* A poll that failed on its own is what the next readers are told of. *)
Blamed(p, t) ==
    /\ job[p].kind \in {"claim", "more"}
    /\ ~Overdue(p)
    /\ file.attemptedAt = t

(* The state file once a poll begun at `t' has been committed. *)
Landed(p, t) ==
    LET r == reply[p]
        s == IF r.outcome = "limited" THEN [file EXCEPT !.backoff = Refused(t, t)]
             ELSE IF Blamed(p, t) THEN [file EXCEPT !.failure = t] ELSE file
    IN  IF r.outcome \in {"ok", "low"} THEN Absorb(file, r, t)
        ELSE [s EXCEPT !.prs = Merge(@, r, t)]

(* The error of a poll, with the one that sent an over-budget read to it. *)
Cause(p) ==
    IF reply[p].outcome = "limited" THEN "limited"
    ELSE IF job[p].cause = "ok" THEN "failed" ELSE job[p].cause

(* The pushes a landed poll has shown. *)
Noted(prs) ==
    pushes' = [n \in PR |-> [pushes[n] EXCEPT
                 !.shown = @ \/ (n \in DOMAIN prs /\ prs[n].head >= pushes[n].head)]]

(* A poll lands under the lock, and its reader goes on. *)
Land(p) ==
    /\ pc[p] = "land" /\ job[p].kind # "rest"
    /\ LET t  == now[p]
           ok == reply[p].outcome \in {"ok", "low"}
           st == Landed(p, t)
           unread == IF job[p].kind = "claim" /\ ~Limited(st)
                     THEN Unread(st, job[p].lanes, t) ELSE {}
       IN  /\ file' = st
           /\ lease' = IF ok THEN AbsorbLeases(file, reply[p], t) ELSE lease
           /\ \/ /\ ~ok
                 /\ Degrade(p, st, t, Late(p, clock), Cause(p))
              \/ /\ ok /\ unread # {}
                 /\ Send(p, [prs |-> unread, lanes |-> {}, kind |-> "more", cause |-> "ok"])
              \/ /\ ok /\ unread = {}
                 /\ Return(p, Verdict(st, want[p], asked[p]), st, Late(p, clock))
           /\ Noted(st.prs)
    /\ reply' = [reply EXCEPT ![p] = NoReply]
    /\ UNCHANGED <<clock, github, read, lacked>>

(* What REST answered lands. *)
LandRest(p) ==
    /\ pc[p] = "land" /\ job[p].kind = "rest"
    /\ LET t  == now[p]
           ok == reply[p].outcome \in {"ok", "low"}
           st == [file EXCEPT !.prs = Merge(@, reply[p], t), !.rest = NoBackoff]
       IN  \/ /\ ok
              /\ file' = st
              /\ lease' = [lease EXCEPT !.prs =
                   [n \in PR |-> IF n \in Gone(file.prs, reply[p], t) THEN Never ELSE @[n]]]
              /\ Return(p, Verdict(st, want[p], asked[p]), st, Late(p, clock))
           \/ /\ ~ok
              /\ file' = IF reply[p].outcome = "limited"
                         THEN [file EXCEPT !.rest = Refused(t, t)] ELSE file
              /\ UNCHANGED lease
              /\ Return(p, job[p].cause, file, Late(p, clock))
    /\ Noted(file'.prs)
    /\ reply' = [reply EXCEPT ![p] = NoReply]
    /\ UNCHANGED <<clock, github, read, lacked>>

(* The lock is not had before the request's deadline: what it read is lost. *)
Miss(p) ==
    /\ pc[p] = "land" /\ Overdue(p)
    /\ \/ /\ job[p].kind = "rest"
          /\ Return(p, "failed", EmptyFile, Late(p, clock))
       \/ /\ job[p].kind # "rest"
          /\ Degrade(p, EmptyFile, now[p], Late(p, clock), Cause(p))
    /\ reply' = [reply EXCEPT ![p] = NoReply]
    /\ UNCHANGED <<clock, github, file, lease, read, past>>

(* The caller has its answer, gives up, or dies. *)
Leave(p) ==
    /\ pc[p] # "idle"
    /\ Go(p, "idle")
    /\ want' = [want EXCEPT ![p] = NoWant]
    /\ asked' = [asked EXCEPT ![p] = Never]
    /\ now' = [now EXCEPT ![p] = Never]
    /\ waited' = [waited EXCEPT ![p] = FALSE]
    /\ wake' = [wake EXCEPT ![p] = Never]
    /\ over' = [over EXCEPT ![p] = FALSE]
    /\ job' = [job EXCEPT ![p] = NoJob]
    /\ reply' = [reply EXCEPT ![p] = NoReply]
    /\ answer' = [answer EXCEPT ![p] = NoAnswer]
    /\ lacked' = [lacked EXCEPT ![p] = {}]
    /\ UNCHANGED <<clock, github, file, lease, pushes>>

-----------------------------------------------------------------------------
(* Pushes. *)

(* Process `p' pushes the branch of pull request `n'.  A branch is pushed  *)
(* by one process of the machine at a time.                                *)
GitPush(p, n) ==
    /\ pc[p] = "idle" /\ heads[n] # 0 /\ heads[n] < MaxHead /\ n \notin squashed
    /\ \A q \in Process : pc[q] \in {"pushed", "mark"} => n \notin job[q].prs
    /\ heads' = [heads EXCEPT ![n] = @ + 1]
    /\ shown' = IF Lag THEN shown ELSE heads'
    /\ job' = [job EXCEPT ![p] = [NoJob EXCEPT !.prs = {n}]]
    /\ Go(p, "pushed")
    /\ lacked' = [lacked EXCEPT ![p] = {m \in {n} : Lacking(m)}]
    /\ UNCHANGED <<clock, squashed, file, lease, read, reply, answer, pushes>>

(* Pushed renews the leases ... *)
Renew(p) ==
    /\ pc[p] = "pushed"
    /\ Tick
    /\ lease' = Renewed(job[p].prs, {}, clock')
    /\ Go(p, "mark")
    /\ Stamp(p)
    /\ UNCHANGED <<github, file, want, asked, waited, wake, over, sent, answer, past>>

(* ... and records the head under the lock. *)
Mark(p) ==
    /\ pc[p] = "mark"
    /\ LET t     == now[p]
           taken == {n \in job[p].prs : Was(file.prs, n).pushedAt <= t}
       IN  /\ file' = [file EXCEPT !.prs =
                [n \in DOMAIN @ \cup taken |->
                   IF n \in taken
                   THEN [Was(@, n) EXCEPT !.pushedHead = heads[n], !.pushedAt = t]
                   ELSE @[n]]]
           /\ pushes' = [n \in PR |-> IF n \in taken
                                      THEN [head |-> heads[n], stamp |-> t, shown |-> FALSE,
                                            lacked |-> n \in lacked[p]]
                                      ELSE pushes[n]]
    /\ Go(p, "done")
    /\ job' = [job EXCEPT ![p] = NoJob]
    /\ UNCHANGED <<clock, github, lease, read, reply, answer, lacked>>

-----------------------------------------------------------------------------
(* The rest of the world. *)

(* GitHub's API catches up with a push. *)
Show(n) ==
    /\ shown[n] # heads[n]
    /\ shown' = [shown EXCEPT ![n] = heads[n]]
    /\ UNCHANGED <<clock, heads, squashed, file, lease, pc, read, sent, answer, past>>

(* A pull request is opened, or landed by the queue. *)
OpenPR(n) ==
    /\ heads[n] = 0
    /\ heads' = [heads EXCEPT ![n] = 1]
    /\ shown' = [shown EXCEPT ![n] = 1]
    /\ UNCHANGED <<clock, squashed, file, lease, pc, read, sent, answer, past>>

Squash(n) ==
    /\ Queue /\ heads[n] # 0 /\ n \notin squashed
    /\ squashed' = squashed \cup {n}
    /\ UNCHANGED <<clock, heads, shown, file, lease, pc, read, sent, answer, past>>

TimePasses ==
    /\ clock < MaxTime
    /\ clock' = clock + 1
    /\ UNCHANGED <<github, file, lease, pc, read, sent, answer, past>>

Step(p) ==
    \/ \E w \in Wants : Begin(p, w)
    \/ Look(p) \/ Cut(p) \/ Claim(p) \/ Over(p)
    \/ \E o \in Outcomes : Probe(p, o)
    \/ \E o \in Outcomes, g \in Graphite : Serve(p, o, g)
    \/ Land(p) \/ LandRest(p) \/ Miss(p)
    \/ \E n \in PR : GitPush(p, n)
    \/ Renew(p) \/ Mark(p)

World ==
    \/ \E n \in PR : Show(n) \/ OpenPR(n) \/ Squash(n)
    \/ TimePasses

(* A caller that has its answer does nothing more here: it leaves first.   *)
Next ==
    \/ \E p \in Process : Leave(p)
    \/ /\ \A p \in Process : pc[p] # "done"
       /\ World \/ \E p \in Process : Step(p)

Spec == Init /\ [][Next]_vars

-----------------------------------------------------------------------------
(* Properties. *)

Instant == {Never} \cup Epoch .. MaxTime

Backoffs == [since : Instant, probeAt : {Never} \cup Epoch .. MaxTime + Limit]
Records  == [head : 0 .. MaxHead, settled : BOOLEAN, unknown : BOOLEAN, seen : Instant,
             polledAt : Instant, pushedHead : 0 .. MaxHead, pushedAt : Instant]
Listings == [prs : SUBSET PR, polledAt : Instant]

(* The state file and the leases hold what the code can read back. *)
TypeOK ==
    /\ clock \in Epoch .. MaxTime
    /\ {file.attemptedAt, file.polledAt, file.failure} \subseteq Instant
    /\ {file.backoff, file.rest} \subseteq Backoffs
    /\ DOMAIN file.prs \subseteq PR /\ \A n \in DOMAIN file.prs : file.prs[n] \in Records
    /\ DOMAIN file.lanes \subseteq Lane /\ \A l \in DOMAIN file.lanes : file.lanes[l] \in Listings
    /\ lease \in [prs : [PR -> Instant], lanes : [Lane -> Instant]]

Answered(p, kind) == pc[p] = "done" /\ answer[p].kind = kind

(* It was answered while the leases it took hold.                         *)
Prompt(p) == clock < asked[p] + LeaseTTL

MaxAge(w) == IF w.maxAge > Interval THEN w.maxAge ELSE Interval

(* A read that is answered was told of each pull request it names as       *)
(* GitHub showed it no earlier than After and, if it is patient, within    *)
(* its MaxAge or MinInterval (prstate.go:343, 25, 70), whichever process   *)
(* polled it and in whatever order polls landed.  Not counted are the ones *)
(* GitHub lacked, and how old the record of one the queue has landed is,   *)
(* which no longer changes.                                                *)
AnswersAreRecent ==
    \A p \in Process : Answered(p, "ok") /\ Prompt(p) =>
      \A n \in want[p].prs \ lacked[p] :
        /\ n \in DOMAIN answer[p].prs
        /\ answer[p].prs[n].seen >= want[p].after
        /\ want[p].patient /\ n \notin squashed =>
             answer[p].prs[n].seen > asked[p] - MaxAge(want[p])

(* A patient read that is answered was told of listings of its lanes no    *)
(* older than its MaxAge (prstate.go:343).                                 *)
ListingsAreRecent ==
    \A p \in Process : Answered(p, "ok") /\ want[p].patient =>
      \A l \in want[p].lanes :
        /\ l \in DOMAIN answer[p].lanes
        /\ answer[p].lanes[l].polledAt > asked[p] - want[p].maxAge

(* Each pull request that the lanes a read wants list comes with a record  *)
(* (prstate.go:343, 61).                                                   *)
MembersAreRead ==
    \A p \in Process : Answered(p, "ok") =>
      \A l \in DOMAIN answer[p].lanes : \A n \in answer[p].lanes[l].prs :
        n \in DOMAIN answer[p].prs /\ answer[p].prs[n].polledAt # Never

(* A read that says the repository lacks a pull request was right when it  *)
(* asked, or was told so by GitHub through a poll under way (MissingError),*)
(* though polls that did not find it land after ones that did.             *)
MissingIsTrue ==
    \A p \in Process : Answered(p, "missing") /\ Prompt(p) => lacked[p] \cap want[p].prs # {}

Head(rec) == IF rec.pushedHead # 0 THEN rec.pushedHead ELSE rec.head

(* Once a push is recorded, reads are told of it, or of a later one, until *)
(* a poll that shows it has landed or GitHub has had PushLag to show it    *)
(* (prstate.go:439), whatever polls were in flight, but for one that had   *)
(* been told that there is no such pull request.                           *)
PushesStand ==
    \A p \in Process : Answered(p, "ok") =>
      \A n \in DOMAIN answer[p].prs :
        clock < pushes[n].stamp + PushLag /\ ~pushes[n].shown /\ ~pushes[n].lacked
          => Head(answer[p].prs[n]) >= pushes[n].head

(* ... and also once a poll that shows it has landed.                      *)
PushesLast ==
    \A p \in Process : Answered(p, "ok") =>
      \A n \in DOMAIN answer[p].prs :
        clock < pushes[n].stamp + PushLag => Head(answer[p].prs[n]) >= pushes[n].head

(* The failure on file is that of the last poll claimed (Failure), never   *)
(* of one that another claim has overtaken.                                *)
FailureIsLatest == file.failure # Never => file.failure = file.attemptedAt

(* Polls are claimed MinInterval apart, whoever claims them.               *)
ClaimsAreSpaced ==
    [][file'.attemptedAt # file.attemptedAt
         => file'.attemptedAt >= file.attemptedAt + Interval]_file

(* An older poll that lands late never replaces a newer record or listing. *)
NothingAges ==
    [][/\ \A n \in DOMAIN file.prs \cap DOMAIN file'.prs :
            file'.prs[n].polledAt >= file.prs[n].polledAt
       /\ \A l \in DOMAIN file.lanes \cap DOMAIN file'.lanes :
            file'.lanes[l].polledAt >= file.lanes[l].polledAt]_file

(* Nothing asks GraphQL for pull requests before ProbeAt (Backoff), by any *)
(* of the ways a read comes to ask.                                        *)
RefusalsAreHeeded ==
    [][\A p \in Process :
         pc[p] # "poll" /\ pc'[p] = "poll" /\ job'[p].kind # "rest"
           => ~Limited(file') \/ clock' >= file'.backoff.probeAt]_vars

(* A lane read that wants nothing polled before a given instant lists the  *)
(* pull requests that were open by then (cli/ship.go:2836).                *)
OpenIsListed ==
    \A p \in Process : Answered(p, "ok") /\ want[p].after # Never =>
      \A l \in want[p].lanes :
        Under[l] \ (lacked[p] \cup squashed) \subseteq answer[p].lanes[l].prs
=============================================================================
