----------------------------- MODULE PRStoreProofs -----------------------------
(***************************************************************************)
(* The pull request store, for any number of processes, pull requests and  *)
(* lanes and any reading of the clock: its types, whose failure is on      *)
(* file, when polls are claimed, what a refusal stops and what an older    *)
(* poll may not replace.                                                   *)
(***************************************************************************)
EXTENDS PRStore, TLAPS

Stamps == Epoch .. MaxTime

PRRecords    == UNION {[D -> Records] : D \in SUBSET PR}
LaneListings == UNION {[D -> Listings] : D \in SUBSET Lane}
LaneMembers  == UNION {[D -> SUBSET PR] : D \in SUBSET Lane}

Files == [attemptedAt : Instant, polledAt : Instant, failure : Instant,
          backoff : Backoffs, rest : Backoffs, prs : PRRecords, lanes : LaneListings]
LeaseFiles == [prs : [PR -> Instant], lanes : [Lane -> Instant]]
Replies == [outcome : {"none", "ok", "low", "limited", "error"}, at : Instant,
            prs : PRRecords, missing : SUBSET PR, lanes : LaneMembers]

LEMMA Times ==
    /\ Never \in Nat /\ Never = 0 /\ Epoch \in Nat \ {0} /\ MaxTime \in Nat /\ MaxHead \in Nat \ {0}
    /\ Interval \in Nat \ {0} /\ LeaseTTL \in Nat \ {0} /\ Limit \in Nat \ {0} /\ Interval < Epoch
    /\ Stamps \subseteq Instant /\ Instant \subseteq Nat /\ Never \in Instant /\ Epoch \in Stamps
    /\ Never \notin Stamps
BY TimeAssumption DEF TimeAssumption, Never, Stamps, Instant

LEMMA RecordsPartial ==
    ASSUME NEW f PROVE f \in PRRecords <=> DOMAIN f \subseteq PR /\ f \in [DOMAIN f -> Records]
BY DEF PRRecords

LEMMA ListingsPartial ==
    ASSUME NEW f PROVE f \in LaneListings <=> DOMAIN f \subseteq Lane /\ f \in [DOMAIN f -> Listings]
BY DEF LaneListings

LEMMA MembersPartial ==
    ASSUME NEW f PROVE f \in LaneMembers <=> DOMAIN f \subseteq Lane /\ f \in [DOMAIN f -> SUBSET PR]
BY DEF LaneMembers

LEMMA EmptyPartial == <<>> \in PRRecords /\ <<>> \in LaneListings /\ <<>> \in LaneMembers
<1>1. DOMAIN <<>> = {} /\ \A T : <<>> \in [{} -> T]
    OBVIOUS
<1> QED BY <1>1, RecordsPartial, ListingsPartial, MembersPartial

LEMMA NoRecordType == NoRecord \in Records
BY Times DEF NoRecord, Records

LEMMA WasType ==
    ASSUME NEW prs \in PRRecords, NEW n PROVE Was(prs, n) \in Records
BY NoRecordType, RecordsPartial DEF Was

LEMMA BesideType ==
    ASSUME NEW rec \in Records, NEW was \in Records, NEW t \in Instant
    PROVE  /\ Beside(rec, was, t) \in Records
           /\ Beside(rec, was, t).polledAt = t
<1> DEFINE kept == was.pushedHead # 0 /\ rec.head # was.pushedHead /\ t - was.pushedAt < PushLag
<1>1. 0 \in 0 .. MaxHead /\ Never \in Instant
    BY Times
<1>2. CASE kept
    BY <1>2 DEF Beside, Records
<1>3. CASE ~kept
    BY <1>1, <1>3 DEF Beside, Records
<1> QED BY <1>2, <1>3

(* What a merge keeps: types, and that no record is older than it was. *)
LEMMA MergeType ==
    ASSUME NEW prs \in PRRecords, NEW r \in Replies, NEW t \in Instant
    PROVE  Merge(prs, r, t) \in PRRecords
<1> DEFINE taken == {n \in DOMAIN r.prs : Was(prs, n).polledAt <= t}
           D == (DOMAIN prs \cup taken) \ Gone(prs, r, t)
           val(n) == IF n \in taken THEN Beside(r.prs[n], Was(prs, n), t) ELSE prs[n]
<1>1. r.prs \in PRRecords
    BY DEF Replies
<1>2. D \subseteq PR
    BY <1>1, RecordsPartial
<1>3. ASSUME NEW n \in D PROVE val(n) \in Records
    BY <1>1, RecordsPartial, WasType, BesideType
<1>4. Merge(prs, r, t) = [n \in D |-> val(n)]
    BY DEF Merge
<1> HIDE DEF D, val
<1>5. [n \in D |-> val(n)] \in [D -> Records] /\ DOMAIN [n \in D |-> val(n)] = D
    BY <1>3
<1> QED BY <1>2, <1>4, <1>5, RecordsPartial

LEMMA MergeNewer ==
    ASSUME NEW prs \in PRRecords, NEW r \in Replies, NEW t \in Instant,
           NEW n \in DOMAIN prs \cap DOMAIN Merge(prs, r, t)
    PROVE  Merge(prs, r, t)[n].polledAt >= prs[n].polledAt
<1>1. /\ r.prs \in PRRecords /\ prs[n] \in Records /\ prs[n].polledAt \in Nat /\ t \in Nat
      /\ Was(prs, n) = prs[n]
    BY RecordsPartial, Times DEF Replies, Records, Was
<1>2. CASE n \in DOMAIN r.prs /\ prs[n].polledAt <= t
  <2>1. r.prs[n] \in Records
      BY <1>1, <1>2, RecordsPartial
  <2>2. Merge(prs, r, t)[n] = Beside(r.prs[n], prs[n], t)
      BY <1>1, <1>2 DEF Merge
  <2>3. Beside(r.prs[n], prs[n], t).polledAt = t
      BY <1>1, <2>1, BesideType
  <2> QED BY <1>1, <1>2, <2>2, <2>3
<1>3. CASE ~(n \in DOMAIN r.prs /\ prs[n].polledAt <= t)
  <2>1. Merge(prs, r, t)[n] = prs[n]
      BY <1>1, <1>3 DEF Merge
  <2> QED BY <1>1, <2>1
<1> QED BY <1>2, <1>3

LEMMA GoneRecords ==
    ASSUME NEW prs \in PRRecords, NEW D, D \subseteq DOMAIN prs
    PROVE  [n \in D |-> prs[n]] \in PRRecords
BY RecordsPartial

LEMMA RefusedType ==
    ASSUME NEW since \in Instant, NEW t \in Stamps
    PROVE  Refused(since, t) \in Backoffs
BY Times DEF Refused, Backoffs, Stamps

LEMMA NoBackoffType == NoBackoff \in Backoffs
BY Times DEF NoBackoff, Backoffs

(* What landing a poll makes of the lanes and the state.                   *)
LEMMA AbsorbType ==
    ASSUME NEW st \in Files, NEW r \in Replies, NEW t \in Instant,
           t \in Stamps, r.at \in Stamps
    PROVE  Absorb(st, r, t) \in Files
<1> DEFINE prs == Absorb(st, r, t).prs
           lanes == Absorb(st, r, t).lanes
           listed == Listed(st, r, t)
<1>1. /\ st.prs \in PRRecords /\ st.lanes \in LaneListings /\ r.lanes \in LaneMembers
      /\ st.polledAt \in Instant /\ st.backoff \in Backoffs
    BY DEF Files, Replies
<1>2. Merge(st.prs, r, t) \in PRRecords
    BY <1>1, MergeType
<1>3. prs \in PRRecords
  <2> DEFINE merged == Merge(st.prs, r, t)
             kept == {n \in DOMAIN merged :
                        AbsorbLeases(st, r, t).prs[n] # Never \/ t - merged[n].polledAt < KeepFor}
  <2>1. prs = [n \in kept |-> merged[n]]
      BY DEF Absorb, Files
  <2>2. kept \subseteq DOMAIN merged
      OBVIOUS
  <2> HIDE DEF kept, merged, prs
  <2> QED BY <1>2, <2>1, <2>2, GoneRecords DEF merged
<1>4. lanes \in LaneListings
  <2> DEFINE D == {l \in DOMAIN st.lanes \cup listed : ~Expired(lease.lanes[l], t)}
             val(l) == IF l \in listed THEN [prs |-> r.lanes[l], polledAt |-> t] ELSE st.lanes[l]
  <2>1. lanes = [l \in D |-> val(l)]
      BY DEF Absorb, Files
  <2>2. D \subseteq Lane
      BY <1>1, ListingsPartial, MembersPartial DEF Listed
  <2>3. ASSUME NEW l \in D PROVE val(l) \in Listings
      BY <1>1, ListingsPartial, MembersPartial DEF Listed, Listings
  <2> HIDE DEF D, val, lanes
  <2>4. lanes \in [D -> Listings] /\ DOMAIN lanes = D
      BY <2>1, <2>3
  <2> QED BY <2>2, <2>4, ListingsPartial
<1>5. /\ Absorb(st, r, t).polledAt \in Instant
      /\ Absorb(st, r, t).backoff \in Backoffs
  <2>1. Refused(t, r.at) \in Backoffs
      BY RefusedType
  <2> QED BY <1>1, <2>1, NoBackoffType DEF Absorb, Files
<1>6. Absorb(st, r, t) = [st EXCEPT !.polledAt = Absorb(st, r, t).polledAt, !.prs = prs,
                                    !.lanes = lanes, !.backoff = Absorb(st, r, t).backoff]
    BY DEF Absorb, Files
<1> HIDE DEF prs, lanes
<1> QED BY <1>3, <1>4, <1>5, <1>6 DEF Files

LEMMA AbsorbNewer ==
    ASSUME NEW st \in Files, NEW r \in Replies, NEW t \in Instant
    PROVE  /\ \A n \in DOMAIN st.prs \cap DOMAIN Absorb(st, r, t).prs :
                Absorb(st, r, t).prs[n].polledAt >= st.prs[n].polledAt
           /\ \A l \in DOMAIN st.lanes \cap DOMAIN Absorb(st, r, t).lanes :
                Absorb(st, r, t).lanes[l].polledAt >= st.lanes[l].polledAt
           /\ Absorb(st, r, t).failure = st.failure
           /\ Absorb(st, r, t).attemptedAt = st.attemptedAt
<1>1. st.prs \in PRRecords /\ st.lanes \in LaneListings /\ t \in Nat
    BY Times DEF Files
<1>2. ASSUME NEW n \in DOMAIN st.prs \cap DOMAIN Absorb(st, r, t).prs
      PROVE  Absorb(st, r, t).prs[n].polledAt >= st.prs[n].polledAt
  <2>1. n \in DOMAIN Merge(st.prs, r, t) /\ Absorb(st, r, t).prs[n] = Merge(st.prs, r, t)[n]
      BY <1>2 DEF Absorb, Files
  <2> QED BY <1>1, <1>2, <2>1, MergeNewer
<1>3. ASSUME NEW l \in DOMAIN st.lanes \cap DOMAIN Absorb(st, r, t).lanes
      PROVE  Absorb(st, r, t).lanes[l].polledAt >= st.lanes[l].polledAt
  <2>1. st.lanes[l].polledAt \in Nat
      BY <1>1, <1>3, ListingsPartial, Times DEF Listings
  <2>2. Absorb(st, r, t).lanes[l] = IF l \in Listed(st, r, t)
                                    THEN [prs |-> r.lanes[l], polledAt |-> t] ELSE st.lanes[l]
      BY <1>3 DEF Absorb, Files
  <2> QED BY <1>1, <1>3, <2>1, <2>2 DEF Listed
<1>4. Absorb(st, r, t).failure = st.failure /\ Absorb(st, r, t).attemptedAt = st.attemptedAt
    BY DEF Absorb, Files
<1> QED BY <1>2, <1>3, <1>4

LEMMA AbsorbLeasesType ==
    ASSUME NEW st, NEW r, NEW t \in Instant, lease \in LeaseFiles
    PROVE  AbsorbLeases(st, r, t) \in LeaseFiles
<1> DEFINE found == UNION {r.lanes[l] : l \in Listed(st, r, t)}
           raised(n) == IF n \in found /\ lease.prs[n] < t THEN t ELSE lease.prs[n]
           pr(n) == IF n \in Gone(st.prs, r, t) \/ Expired(raised(n), t) THEN Never ELSE raised(n)
           lane(l) == IF Expired(lease.lanes[l], t) THEN Never ELSE lease.lanes[l]
<1>1. \A n \in PR : pr(n) \in Instant
    BY Times DEF LeaseFiles
<1>2. \A l \in Lane : lane(l) \in Instant
    BY Times DEF LeaseFiles
<1>3. AbsorbLeases(st, r, t) = [prs |-> [n \in PR |-> pr(n)], lanes |-> [l \in Lane |-> lane(l)]]
    BY DEF AbsorbLeases
<1> HIDE DEF pr, lane
<1> QED BY <1>1, <1>2, <1>3 DEF LeaseFiles

-----------------------------------------------------------------------------
(* The type invariant. *)

Places == {"idle", "look", "sleep", "watch", "probe", "claim", "poll", "land", "over",
           "pushed", "mark", "done"}
Causes == {"ok", "failed", "limited", "missing"}
Jobs   == [prs : SUBSET PR, lanes : SUBSET Lane, cause : Causes,
           kind : {"none", "claim", "more", "own", "over", "rest"}]
WantsRead == [prs : SUBSET PR, lanes : SUBSET Lane, maxAge : Nat,
              after : Instant, patient : BOOLEAN]

GitHubType  == heads \in [PR -> 0 .. MaxHead] /\ shown \in [PR -> 0 .. MaxHead]
StoreType   == file \in Files /\ lease \in LeaseFiles
ProcessType == /\ pc \in [Process -> Places] /\ want \in [Process -> WantsRead]
               /\ job \in [Process -> Jobs]
NowType     == /\ now \in [Process -> Instant]
               /\ \A p \in Process :
                    pc[p] \in {"probe", "claim", "poll", "land", "mark"} => now[p] \in Stamps
ReplyType   == /\ reply \in [Process -> Replies]
               /\ \A p \in Process : reply[p].outcome = "none" \/ reply[p].at \in Stamps
               /\ \A p \in Process : pc[p] = "land" => reply[p].outcome # "none"

TypeInv == /\ clock \in Stamps
           /\ GitHubType /\ StoreType /\ ProcessType /\ NowType /\ ReplyType

LEMMA TypeInit == Init => TypeInv
<1> SUFFICES ASSUME Init PROVE TypeInv
    OBVIOUS
<1>1. GitHubType
  <2>1. {0, 1} \subseteq 0 .. MaxHead
      BY Times
  <2>2. heads \in [PR -> {0, 1}] /\ shown = heads
      BY DEF Init
  <2> QED BY <2>1, <2>2 DEF GitHubType
<1>2. StoreType
  <2>1. EmptyFile \in Files
      BY Times, EmptyPartial, NoBackoffType DEF Files, EmptyFile
  <2>2. lease \in LeaseFiles
      BY Times DEF Init, LeaseFiles
  <2> QED BY <2>1, <2>2 DEF Init, StoreType
<1>3. ProcessType
    BY Times, TimeAssumption
    DEF Init, ProcessType, NoWant, NoJob, WantsRead, Jobs, Causes, Places, TimeAssumption
<1>4. NowType
    BY Times DEF Init, NowType
<1>5. ReplyType
    BY Times, EmptyPartial DEF Init, ReplyType, NoReply, Replies
<1> QED BY <1>1, <1>2, <1>3, <1>4, <1>5, Times DEF TypeInv, Init

LEMMA TypeCorrectness == TypeInv => TypeOK
<1> SUFFICES ASSUME TypeInv PROVE TypeOK
    OBVIOUS
<1>1. /\ clock \in Epoch .. MaxTime /\ {file.attemptedAt, file.polledAt, file.failure} \subseteq Instant
      /\ {file.backoff, file.rest} \subseteq Backoffs /\ lease \in LeaseFiles
      /\ file.prs \in PRRecords /\ file.lanes \in LaneListings
    BY DEF TypeInv, StoreType, Files, Stamps
<1> QED BY <1>1, RecordsPartial, ListingsPartial DEF TypeOK, LeaseFiles

(* Where the steps of a read lead. *)
Move(p, S) == (\E s \in S : pc' = [pc EXCEPT ![p] = s]) /\ job' \in [Process -> Jobs]

LEMMA MembersType ==
    ASSUME NEW st, st.lanes \in LaneListings, NEW ls PROVE Members(st, ls) \subseteq PR
BY ListingsPartial DEF Members, Listings

LEMMA UnansweredType ==
    ASSUME NEW st, st.lanes \in LaneListings, NEW w \in WantsRead, NEW at
    PROVE  Unanswered(st, w, at) \subseteq PR
BY MembersType DEF Unanswered, WantsRead

LEMMA VerdictType == ASSUME NEW st, NEW w, NEW at PROVE Verdict(st, w, at) \in Causes
BY DEF Verdict, Causes

LEMMA ReturnMoves ==
    ASSUME ProcessType, NEW p \in Process, NEW kind \in Causes, NEW st, NEW late,
           Return(p, kind, st, late)
    PROVE  Move(p, {"done", "over"})
<1>1. [NoJob EXCEPT !.cause = kind] \in Jobs
    BY DEF NoJob, Jobs, Causes
<1> QED BY <1>1 DEF Return, Go, Move, ProcessType

LEMMA SendMoves ==
    ASSUME ProcessType, NEW p \in Process, NEW j \in Jobs, Send(p, j)
    PROVE  Move(p, {"poll"}) /\ job'[p] = j
BY DEF Send, Go, Move, ProcessType

LEMMA DegradeMoves ==
    ASSUME ProcessType, NEW p \in Process, NEW st, st.lanes \in LaneListings, NEW t, NEW late,
           NEW cause \in Causes, Degrade(p, st, t, late, cause)
    PROVE  Move(p, {"done", "over", "poll"}) /\ (pc'[p] = "poll" => job'[p].kind = "rest")
<1> DEFINE prs == Unanswered(st, want[p], asked[p])
           rest == [prs |-> prs, lanes |-> {}, kind |-> "rest", cause |-> cause]
           verdict == Verdict(st, want[p], asked[p])
<1>1. verdict \in Causes
    BY VerdictType
<1>2. rest \in Jobs
    BY UnansweredType DEF ProcessType, Jobs
<1>3. Return(p, cause, st, late) \/ Return(p, verdict, st, late) \/ Send(p, rest)
    BY DEF Degrade
<1> HIDE DEF verdict, rest, prs
<1>4. CASE Return(p, cause, st, late) \/ Return(p, verdict, st, late)
  <2>1. Move(p, {"done", "over"})
      BY <1>1, <1>4, ReturnMoves
  <2> QED BY <2>1 DEF Move, ProcessType
<1>5. CASE Send(p, rest)
  <2>1. Move(p, {"poll"}) /\ job'[p] = rest
      BY <1>2, <1>5, SendMoves
  <2> QED BY <2>1 DEF Move, rest
<1> QED BY <1>3, <1>4, <1>5

LEMMA DecideMoves ==
    ASSUME ProcessType, NEW p \in Process, NEW st, st.lanes \in LaneListings, NEW t, NEW late,
           NEW slept, Decide(p, st, t, late, slept)
    PROVE  Move(p, {"done", "over", "poll", "sleep", "watch", "claim"})
<1> DEFINE unpolled == IF st.failure = Never THEN Unpolled(st, want[p], asked[p]) ELSE {}
           own == [prs |-> unpolled, lanes |-> {}, kind |-> "own", cause |-> "ok"]
<1>1. own \in Jobs
  <2>1. Unpolled(st, want[p], asked[p]) \subseteq PR
      BY DEF Unpolled, ProcessType, WantsRead
  <2> QED BY <2>1 DEF Jobs, Causes
<1>2. \/ Send(p, own)
      \/ Degrade(p, st, t, late, "failed")
      \/ Return(p, "ok", st, FALSE)
      \/ \E s \in {"sleep", "watch", "claim"} : Go(p, s) /\ UNCHANGED job
    BY DEF Decide
<1> HIDE DEF own, unpolled
<1>3. CASE Send(p, own)
  <2>1. Move(p, {"poll"})
      BY <1>1, <1>3, SendMoves
  <2> QED BY <2>1 DEF Move
<1>4. CASE Degrade(p, st, t, late, "failed")
  <2>1. Move(p, {"done", "over", "poll"})
      BY <1>4, DegradeMoves DEF Causes
  <2> QED BY <2>1 DEF Move
<1>5. CASE Return(p, "ok", st, FALSE)
  <2>1. Move(p, {"done", "over"})
      BY <1>5, ReturnMoves DEF Causes
  <2> QED BY <2>1 DEF Move
<1>6. CASE \E s \in {"sleep", "watch", "claim"} : Go(p, s) /\ UNCHANGED job
    BY <1>6 DEF Go, Move, ProcessType
<1> QED BY <1>2, <1>3, <1>4, <1>5, <1>6

LEMMA StampType ==
    ASSUME NowType, clock' \in Stamps, NEW p \in Process, NEW s, s # "land",
           pc \in [Process -> Places], pc' = [pc EXCEPT ![p] = s], Stamp(p)
    PROVE  NowType'
BY Times DEF NowType, Stamp

LEMMA NowKept ==
    ASSUME NowType, NEW p \in Process, NEW s, now' = now,
           pc \in [Process -> Places], pc' = [pc EXCEPT ![p] = s],
           s \in {"probe", "claim", "poll", "land", "mark"} => now[p] \in Stamps
    PROVE  NowType'
BY DEF NowType

LEMMA ReplyKept ==
    ASSUME ReplyType, NEW p \in Process, NEW s, s # "land", reply' = reply,
           pc \in [Process -> Places], pc' = [pc EXCEPT ![p] = s]
    PROVE  ReplyType'
BY DEF ReplyType

LEMMA ReplyDropped ==
    ASSUME ReplyType, NEW p \in Process, NEW s, s # "land", reply' = [reply EXCEPT ![p] = NoReply],
           pc \in [Process -> Places], pc' = [pc EXCEPT ![p] = s]
    PROVE  ReplyType'
<1>1. NoReply \in Replies /\ NoReply.outcome = "none"
    BY Times, EmptyPartial DEF NoReply, Replies
<1> QED BY <1>1 DEF ReplyType

LEMMA Ticks == ASSUME clock \in Stamps, Tick PROVE clock' \in Stamps
BY Times, TimeAssumption DEF Tick, Stamps, TimeAssumption

LEMMA RenewedType ==
    ASSUME lease \in LeaseFiles, NEW prs, NEW lanes, NEW t \in Instant
    PROVE  Renewed(prs, lanes, t) \in LeaseFiles
BY DEF Renewed, LeaseFiles

(* The steps, one by one. *)
LEMMA BeginType ==
    ASSUME TypeInv, NEW p \in Process, NEW w \in Wants, Begin(p, w) PROVE TypeInv'
<1> USE DEF TypeInv
<1>1. clock' \in Stamps
    BY Ticks DEF Begin
<1>2. GitHubType'
    BY DEF Begin, GitHubType, github
<1>3. StoreType'
    BY <1>1, RenewedType, Times DEF Begin, StoreType
<1>4. ProcessType'
  <2>1. [w EXCEPT !.after = IF w.after THEN clock' ELSE Never] \in WantsRead
      BY <1>1, Times, WantAssumption DEF WantsRead, WantAssumption
  <2> QED BY <2>1 DEF Begin, Go, ProcessType, Places, sent
<1>5. NowType'
    BY NowKept DEF Begin, Go, ProcessType
<1>6. ReplyType'
    BY ReplyKept DEF Begin, Go, ProcessType, sent
<1> QED BY <1>1, <1>2, <1>3, <1>4, <1>5, <1>6

LEMMA LookType == ASSUME TypeInv, NEW p \in Process, Look(p) PROVE TypeInv'
<1> USE DEF TypeInv
<1>1. clock' \in Stamps
    BY Ticks DEF Look
<1>2. GitHubType' /\ StoreType'
    BY DEF Look, GitHubType, StoreType, github
<1>3. Move(p, {"done", "over", "poll", "sleep", "watch", "claim", "probe"})
  <2>1. file.lanes \in LaneListings
      BY DEF StoreType, Files
  <2>2. CASE Return(p, "ok", file, FALSE)
    <3>1. Move(p, {"done", "over"})
        BY <2>2, ReturnMoves DEF Causes
    <3> QED BY <3>1 DEF Move
  <2>3. CASE Degrade(p, file, clock', Late(p, clock'), "limited")
    <3>1. Move(p, {"done", "over", "poll"})
        BY <2>1, <2>3, DegradeMoves DEF Causes
    <3> QED BY <3>1 DEF Move
  <2>4. CASE Go(p, "probe") /\ UNCHANGED job
      BY <2>4 DEF Go, Move, ProcessType
  <2>5. CASE Decide(p, file, clock', Late(p, clock'), waited'[p])
    <3>1. Move(p, {"done", "over", "poll", "sleep", "watch", "claim"})
        BY <2>1, <2>5, DecideMoves
    <3> QED BY <3>1 DEF Move
  <2> QED BY <2>2, <2>3, <2>4, <2>5 DEF Look
<1>4. PICK s \in {"done", "over", "poll", "sleep", "watch", "claim", "probe"} :
        pc' = [pc EXCEPT ![p] = s]
    BY <1>3 DEF Move
<1>5. ProcessType'
    BY <1>3, <1>4 DEF Look, Move, ProcessType, Places
<1>6. NowType'
    BY <1>1, <1>4, StampType DEF Look, ProcessType
<1>7. ReplyType'
    BY <1>4, ReplyKept DEF Look, ProcessType
<1> QED BY <1>1, <1>2, <1>5, <1>6, <1>7

LEMMA ProbeType ==
    ASSUME TypeInv, NEW p \in Process, NEW o \in Outcomes, Probe(p, o) PROVE TypeInv'
<1> USE DEF TypeInv
<1> DEFINE since == IF Limited(file) THEN file.backoff.since ELSE now[p]
           st == [file EXCEPT !.backoff = IF o = "ok" THEN NoBackoff
                                          ELSE IF o = "low" THEN Refused(now[p], clock)
                                          ELSE Refused(since, now[p])]
<1>1. now[p] \in Stamps /\ now[p] \in Instant /\ clock' \in Stamps
    BY Times DEF Probe, NowType
<1>2. st \in Files
  <2>1. since \in Instant
      BY <1>1 DEF StoreType, Files, Backoffs
  <2> HIDE DEF since
  <2>2. Refused(now[p], clock) \in Backoffs /\ Refused(since, now[p]) \in Backoffs
      BY <1>1, <2>1, RefusedType
  <2> QED BY <2>2, NoBackoffType DEF StoreType, Files
<1>3. st.lanes = file.lanes /\ file.lanes \in LaneListings
    BY DEF StoreType, Files
<1>4. \/ Return(p, "failed", file, Late(p, clock)) /\ file' = file
      \/ Degrade(p, st, now[p], Late(p, clock), "limited") /\ file' = st
      \/ Decide(p, st, now[p], Late(p, clock), waited[p]) /\ file' = st
    BY DEF Probe
<1> HIDE DEF st
<1>5. StoreType'
    BY <1>2, <1>4 DEF Probe, StoreType
<1>6. Move(p, {"done", "over", "poll", "sleep", "watch", "claim"})
  <2>1. CASE Return(p, "failed", file, Late(p, clock))
    <3>1. Move(p, {"done", "over"})
        BY <2>1, ReturnMoves DEF Causes
    <3> QED BY <3>1 DEF Move
  <2>2. CASE Degrade(p, st, now[p], Late(p, clock), "limited")
    <3>1. Move(p, {"done", "over", "poll"})
        BY <1>3, <2>2, DegradeMoves DEF Causes
    <3> QED BY <3>1 DEF Move
  <2>3. CASE Decide(p, st, now[p], Late(p, clock), waited[p])
      BY <1>3, <2>3, DecideMoves
  <2> QED BY <1>4, <2>1, <2>2, <2>3
<1>7. PICK s \in {"done", "over", "poll", "sleep", "watch", "claim"} : pc' = [pc EXCEPT ![p] = s]
    BY <1>6 DEF Move
<1>8. ProcessType'
    BY <1>6, <1>7 DEF Probe, Move, ProcessType, Places
<1>9. NowType'
    BY <1>1, <1>7, NowKept DEF Probe, ProcessType
<1>10. ReplyType'
    BY <1>7, ReplyKept DEF Probe, ProcessType
<1> QED BY <1>1, <1>5, <1>8, <1>9, <1>10 DEF Probe, GitHubType, github

LEMMA CutType == ASSUME TypeInv, NEW p \in Process, Cut(p) PROVE TypeInv'
<1> USE DEF TypeInv
<1>1. ProcessType'
    BY DEF Cut, Go, ProcessType, Places, Jobs, Causes, read
<1>2. NowType'
    BY NowKept DEF Cut, Go, ProcessType, read
<1>3. ReplyType'
    BY ReplyKept DEF Cut, Go, ProcessType
<1> QED BY <1>1, <1>2, <1>3 DEF Cut, GitHubType, StoreType, github

LEMMA ClaimType == ASSUME TypeInv, NEW p \in Process, Claim(p) PROVE TypeInv'
<1> USE DEF TypeInv
<1> DEFINE req == Claimed(file, want[p], now[p])
           j == [prs |-> req.prs, lanes |-> req.lanes, kind |-> "claim", cause |-> "ok"]
<1>1. now[p] \in Stamps /\ now[p] \in Instant
    BY Times DEF Claim, NowType
<1>2. j \in Jobs
  <2>1. req.prs \subseteq PR /\ req.lanes \subseteq Lane
    <3>1. \A ls : Members(file, ls) \subseteq PR
        BY MembersType DEF StoreType, Files
    <3>2. want[p].prs \subseteq PR /\ want[p].lanes \subseteq Lane
        BY DEF ProcessType, WantsRead
    <3> QED BY <3>1, <3>2 DEF Claimed
  <2> HIDE DEF req
  <2> QED BY <2>1 DEF Jobs, Causes
<1>3. \/ /\ file' = [file EXCEPT !.attemptedAt = now[p], !.failure = Never]
         /\ Send(p, j)
      \/ Go(p, "look") /\ UNCHANGED <<file, job>>
    BY DEF Claim
<1> HIDE DEF j
<1>4. StoreType'
    BY <1>1, <1>3, Times DEF Claim, StoreType, Files
<1>5. Move(p, {"poll", "look"})
  <2>1. CASE Send(p, j)
    <3>1. Move(p, {"poll"})
        BY <1>2, <2>1, SendMoves
    <3> QED BY <3>1 DEF Move
  <2>2. CASE Go(p, "look") /\ UNCHANGED job
      BY <2>2 DEF Go, Move, ProcessType
  <2> QED BY <1>3, <2>1, <2>2
<1>6. PICK s \in {"poll", "look"} : pc' = [pc EXCEPT ![p] = s]
    BY <1>5 DEF Move
<1>7. ProcessType'
    BY <1>5, <1>6 DEF Claim, Move, ProcessType, Places, read
<1>8. NowType'
    BY <1>1, <1>6, NowKept DEF Claim, ProcessType, read
<1>9. ReplyType'
    BY <1>6, ReplyKept DEF Claim, ProcessType
<1> QED BY <1>4, <1>7, <1>8, <1>9 DEF Claim, GitHubType, github

LEMMA OverType == ASSUME TypeInv, NEW p \in Process, Over(p) PROVE TypeInv'
<1> USE DEF TypeInv
<1> DEFINE prs == Unanswered(file, want[p], asked[p])
           j == [prs |-> prs, lanes |-> {}, kind |-> "over", cause |-> job[p].cause]
<1>1. clock' \in Stamps
    BY Ticks DEF Over
<1>2. file.lanes \in LaneListings /\ job[p].cause \in Causes
    BY DEF StoreType, Files, ProcessType, Jobs
<1>3. j \in Jobs
    BY <1>2, UnansweredType DEF ProcessType, Jobs
<1>4. Send(p, j) \/ Degrade(p, file, clock', FALSE, job[p].cause)
    BY DEF Over
<1> HIDE DEF j
<1>5. Move(p, {"done", "over", "poll"})
  <2>1. CASE Send(p, j)
    <3>1. Move(p, {"poll"})
        BY <1>3, <2>1, SendMoves
    <3> QED BY <3>1 DEF Move
  <2>2. CASE Degrade(p, file, clock', FALSE, job[p].cause)
      BY <1>2, <2>2, DegradeMoves
  <2> QED BY <1>4, <2>1, <2>2
<1>6. PICK s \in {"done", "over", "poll"} : pc' = [pc EXCEPT ![p] = s]
    BY <1>5 DEF Move
<1>7. ProcessType'
    BY <1>5, <1>6 DEF Over, Move, ProcessType, Places
<1>8. NowType'
    BY <1>1, <1>6, StampType DEF Over, ProcessType
<1>9. ReplyType'
    BY <1>6, ReplyKept DEF Over, ProcessType
<1> QED BY <1>1, <1>7, <1>8, <1>9 DEF Over, GitHubType, StoreType, github

LEMMA ServeType ==
    ASSUME TypeInv, NEW p \in Process, NEW o \in Outcomes, NEW g \in Graphite, Serve(p, o, g)
    PROVE  TypeInv'
<1> USE DEF TypeInv
<1> DEFINE answers(kept) ==
             [outcome |-> o, at |-> clock,
              prs |-> [n \in kept |-> Shown(n, ~g)],
              missing |-> IF o \in {"ok", "low"} THEN job[p].prs \ {n \in job[p].prs : shown[n] # 0}
                          ELSE {},
              lanes |-> [l \in IF o \in {"ok", "low"} THEN job[p].lanes ELSE {} |->
                           {n \in Under[l] : shown[n] # 0 /\ n \notin squashed}]]
<1>1. job[p].prs \subseteq PR /\ job[p].lanes \subseteq Lane /\ o \in {"ok", "low", "limited", "error"}
    BY SetAssumption DEF ProcessType, Jobs, SetAssumption
<1>2. PICK kept \in SUBSET {n \in job[p].prs : shown[n] # 0} :
        reply' = [reply EXCEPT ![p] = answers(kept)]
    BY DEF Serve
<1>3. answers(kept) \in Replies
  <2>1. ASSUME NEW n \in PR PROVE Shown(n, ~g) \in Records
    <3>1. shown[n] \in 0 .. MaxHead /\ clock \in Instant
        BY Times DEF GitHubType
    <3> QED BY <3>1, NoRecordType, SetAssumption DEF Shown, Records, SetAssumption
  <2>2. [n \in kept |-> Shown(n, ~g)] \in PRRecords
      BY <1>1, <2>1, RecordsPartial
  <2>3. [l \in IF o \in {"ok", "low"} THEN job[p].lanes ELSE {} |->
            {n \in Under[l] : shown[n] # 0 /\ n \notin squashed}] \in LaneMembers
    <3> DEFINE D == IF o \in {"ok", "low"} THEN job[p].lanes ELSE {}
               on(l) == {n \in Under[l] : shown[n] # 0 /\ n \notin squashed}
    <3>1. D \subseteq Lane /\ \A l \in D : on(l) \subseteq PR
        BY <1>1, SetAssumption DEF SetAssumption
    <3> HIDE DEF D, on
    <3>2. [l \in D |-> on(l)] \in LaneMembers
        BY <3>1, MembersPartial
    <3> QED BY <3>2 DEF D, on
  <2> QED BY <1>1, <2>2, <2>3, Times DEF Replies
<1> HIDE DEF answers
<1>4. answers(kept).outcome = o /\ answers(kept).at = clock
    BY DEF answers
<1>5. pc' = [pc EXCEPT ![p] = "land"]
    BY DEF Serve, Go
<1>6. ReplyType'
    BY <1>1, <1>2, <1>3, <1>4, <1>5 DEF ReplyType, ProcessType
<1>7. ProcessType'
    BY <1>5 DEF Serve, ProcessType, Places, read
<1>8. NowType'
    BY <1>5, NowKept DEF Serve, ProcessType, NowType, read
<1> QED BY <1>6, <1>7, <1>8 DEF Serve, GitHubType, StoreType, github

LEMMA LandedType ==
    ASSUME TypeInv, NEW p \in Process, pc[p] = "land" PROVE Landed(p, now[p]) \in Files
<1> DEFINE r == reply[p]  t == now[p]
           s == IF r.outcome = "limited" THEN [file EXCEPT !.backoff = Refused(t, t)]
                ELSE IF Blamed(p, t) THEN [file EXCEPT !.failure = t] ELSE file
<1>1. /\ file \in Files /\ r \in Replies /\ t \in Stamps /\ t \in Instant /\ r.at \in Stamps
    BY Times DEF TypeInv, StoreType, NowType, ReplyType
<1>2. CASE r.outcome \in {"ok", "low"}
    BY <1>1, <1>2, AbsorbType DEF Landed
<1>3. CASE r.outcome \notin {"ok", "low"}
  <2>1. s \in Files
      BY <1>1, RefusedType DEF Files
  <2>2. s.prs \in PRRecords
      BY <2>1 DEF Files
  <2>3. Landed(p, t) = [s EXCEPT !.prs = Merge(s.prs, r, t)]
      BY <1>3 DEF Landed
  <2> HIDE DEF s, r, t
  <2>4. Merge(s.prs, r, t) \in PRRecords
      BY <1>1, <2>2, MergeType
  <2>5. [s EXCEPT !.prs = Merge(s.prs, r, t)] \in Files
      BY <2>1, <2>4 DEF Files
  <2> QED BY <2>3, <2>5 DEF t
<1> QED BY <1>2, <1>3

LEMMA LandType == ASSUME TypeInv, NEW p \in Process, Land(p) PROVE TypeInv'
<1> DEFINE t == now[p]
           st == Landed(p, t)
           unread == IF job[p].kind = "claim" /\ ~Limited(st) THEN Unread(st, job[p].lanes, t) ELSE {}
           more == [prs |-> unread, lanes |-> {}, kind |-> "more", cause |-> "ok"]
           verdict == Verdict(st, want[p], asked[p])
           late == Late(p, clock)
<1>1. /\ pc[p] = "land" /\ t \in Stamps /\ t \in Instant /\ reply[p].at \in Stamps
    BY Times DEF Land, TypeInv, NowType, ReplyType
<1>2. st \in Files
    BY <1>1, LandedType
<1>3. st.lanes \in LaneListings
    BY <1>2 DEF Files
<1>4. file' = st /\ (lease' = AbsorbLeases(file, reply[p], t) \/ lease' = lease)
    BY DEF Land
<1>5. StoreType'
    BY <1>1, <1>2, <1>4, AbsorbLeasesType DEF TypeInv, StoreType
<1>6. more \in Jobs
  <2>1. unread \subseteq PR
      BY <1>3, MembersType DEF Unread
  <2> HIDE DEF unread
  <2> QED BY <2>1 DEF Jobs, Causes
<1>7. Cause(p) \in Causes
    BY DEF Cause, TypeInv, ProcessType, Jobs, Causes
<1>8. \/ Degrade(p, st, t, late, Cause(p))
      \/ Send(p, more)
      \/ Return(p, verdict, st, late)
    BY DEF Land
<1>9. verdict \in Causes
    BY VerdictType
<1> HIDE DEF st, more, verdict, late, t
<1>10. Move(p, {"done", "over", "poll"})
  <2>1. CASE Degrade(p, st, t, late, Cause(p))
      BY <1>3, <1>7, <2>1, DegradeMoves DEF TypeInv
  <2>2. CASE Send(p, more)
    <3>1. Move(p, {"poll"})
        BY <1>6, <2>2, SendMoves DEF TypeInv
    <3> QED BY <3>1 DEF Move
  <2>3. CASE Return(p, verdict, st, late)
    <3>1. Move(p, {"done", "over"})
        BY <1>9, <2>3, ReturnMoves DEF TypeInv
    <3> QED BY <3>1 DEF Move
  <2> QED BY <1>8, <2>1, <2>2, <2>3
<1>11. PICK s \in {"done", "over", "poll"} : pc' = [pc EXCEPT ![p] = s]
    BY <1>10 DEF Move
<1>12. ProcessType'
    BY <1>10, <1>11 DEF Land, Move, TypeInv, ProcessType, Places, read
<1>13. NowType'
    BY <1>1, <1>11, NowKept DEF Land, TypeInv, ProcessType, read, t
<1>14. ReplyType'
    BY <1>11, ReplyDropped DEF Land, TypeInv, ProcessType
<1> QED BY <1>5, <1>12, <1>13, <1>14 DEF Land, TypeInv, GitHubType, github

LEMMA LandRestType == ASSUME TypeInv, NEW p \in Process, LandRest(p) PROVE TypeInv'
<1> DEFINE t == now[p]
           merged == Merge(file.prs, reply[p], t)
           st == [file EXCEPT !.prs = merged, !.rest = NoBackoff]
           verdict == Verdict(st, want[p], asked[p])
           late == Late(p, clock)
<1>1. /\ t \in Stamps /\ t \in Instant /\ file \in Files /\ reply[p] \in Replies
      /\ lease \in LeaseFiles
    BY Times DEF LandRest, TypeInv, NowType, ReplyType, StoreType
<1>2. st \in Files
  <2>1. merged \in PRRecords
      BY <1>1, MergeType DEF Files
  <2> HIDE DEF merged
  <2> QED BY <1>1, <2>1, NoBackoffType DEF Files
<1>3. StoreType'
  <2>1. file' \in Files
    <3>1. file' = st \/ file' = [file EXCEPT !.rest = Refused(t, t)] \/ file' = file
        BY DEF LandRest
    <3>2. Refused(t, t) \in Backoffs
        BY <1>1, RefusedType
    <3> HIDE DEF st
    <3> QED BY <1>1, <1>2, <3>1, <3>2 DEF Files
  <2>2. lease' \in LeaseFiles
    <3>1. \/ lease' = [lease EXCEPT !.prs = [n \in PR |->
                IF n \in Gone(file.prs, reply[p], t) THEN Never ELSE lease.prs[n]]]
          \/ lease' = lease
        BY DEF LandRest
    <3> QED BY <1>1, <3>1, Times DEF LeaseFiles
  <2> QED BY <2>1, <2>2 DEF StoreType
<1>4. job[p].cause \in Causes /\ verdict \in Causes
    BY VerdictType DEF TypeInv, ProcessType, Jobs
<1>5. Return(p, verdict, st, late) \/ Return(p, job[p].cause, file, late)
    BY DEF LandRest
<1> HIDE DEF st, verdict, late
<1>6. Move(p, {"done", "over"})
    BY <1>4, <1>5, ReturnMoves DEF TypeInv
<1>7. PICK s \in {"done", "over"} : pc' = [pc EXCEPT ![p] = s]
    BY <1>6 DEF Move
<1>8. ProcessType'
    BY <1>6, <1>7 DEF LandRest, Move, TypeInv, ProcessType, Places, read
<1>9. NowType'
    BY <1>7, NowKept DEF LandRest, TypeInv, ProcessType, read
<1>10. ReplyType'
    BY <1>7, ReplyDropped DEF LandRest, TypeInv, ProcessType
<1> QED BY <1>3, <1>8, <1>9, <1>10 DEF LandRest, TypeInv, GitHubType, github

LEMMA MissType == ASSUME TypeInv, NEW p \in Process, Miss(p) PROVE TypeInv'
<1>1. Move(p, {"done", "over", "poll"})
  <2>1. CASE Return(p, "failed", EmptyFile, Late(p, clock))
    <3>1. Move(p, {"done", "over"})
        BY <2>1, ReturnMoves DEF TypeInv, Causes
    <3> QED BY <3>1 DEF Move
  <2>2. CASE Degrade(p, EmptyFile, now[p], Late(p, clock), Cause(p))
    <3>1. EmptyFile.lanes \in LaneListings
        BY EmptyPartial DEF EmptyFile
    <3>2. Cause(p) \in Causes
        BY DEF Cause, TypeInv, ProcessType, Jobs, Causes
    <3> QED BY <2>2, <3>1, <3>2, DegradeMoves DEF TypeInv
  <2> QED BY <2>1, <2>2 DEF Miss
<1>2. PICK s \in {"done", "over", "poll"} : pc' = [pc EXCEPT ![p] = s]
    BY <1>1 DEF Move
<1>3. ProcessType'
    BY <1>1, <1>2 DEF Miss, Move, TypeInv, ProcessType, Places, read
<1>4. NowType'
  <2>1. now[p] \in Stamps
      BY DEF Miss, TypeInv, NowType
  <2> QED BY <1>2, <2>1, NowKept DEF Miss, TypeInv, ProcessType, read
<1>5. ReplyType'
    BY <1>2, ReplyDropped DEF Miss, TypeInv, ProcessType
<1> QED BY <1>3, <1>4, <1>5 DEF Miss, TypeInv, GitHubType, StoreType, github

LEMMA LeaveType == ASSUME TypeInv, NEW p \in Process, Leave(p) PROVE TypeInv'
<1> USE DEF TypeInv
<1>1. pc' = [pc EXCEPT ![p] = "idle"]
    BY DEF Leave, Go
<1>2. ProcessType'
  <2>1. NoWant \in WantsRead /\ NoJob \in Jobs
      BY Times, TimeAssumption DEF NoWant, NoJob, WantsRead, Jobs, Causes, TimeAssumption
  <2> QED BY <1>1, <2>1 DEF Leave, ProcessType, Places
<1>3. NowType'
    BY <1>1, Times DEF Leave, NowType, ProcessType
<1>4. ReplyType'
    BY <1>1, ReplyDropped DEF Leave, ProcessType
<1> QED BY <1>2, <1>3, <1>4 DEF Leave, GitHubType, StoreType, github

LEMMA GitPushType ==
    ASSUME TypeInv, NEW p \in Process, NEW n \in PR, GitPush(p, n) PROVE TypeInv'
<1> USE DEF TypeInv
<1>1. pc' = [pc EXCEPT ![p] = "pushed"]
    BY DEF GitPush, Go
<1>2. GitHubType'
  <2>1. heads[n] + 1 \in 0 .. MaxHead
      BY Times DEF GitPush, GitHubType
  <2> QED BY <2>1 DEF GitPush, GitHubType
<1>3. ProcessType'
    BY <1>1 DEF GitPush, ProcessType, Places, NoJob, Jobs, Causes, read
<1>4. NowType'
    BY <1>1, NowKept DEF GitPush, ProcessType, read
<1>5. ReplyType'
    BY <1>1, ReplyKept DEF GitPush, ProcessType
<1> QED BY <1>2, <1>3, <1>4, <1>5 DEF GitPush, StoreType

LEMMA RenewType == ASSUME TypeInv, NEW p \in Process, Renew(p) PROVE TypeInv'
<1> USE DEF TypeInv
<1>1. clock' \in Stamps
    BY Ticks DEF Renew
<1>2. pc' = [pc EXCEPT ![p] = "mark"]
    BY DEF Renew, Go
<1>3. StoreType'
    BY <1>1, RenewedType, Times DEF Renew, StoreType
<1>4. ProcessType'
    BY <1>2 DEF Renew, ProcessType, Places, sent
<1>5. NowType'
    BY <1>1, <1>2, StampType DEF Renew, ProcessType
<1>6. ReplyType'
    BY <1>2, ReplyKept DEF Renew, ProcessType, sent
<1> QED BY <1>1, <1>3, <1>4, <1>5, <1>6 DEF Renew, GitHubType, github

LEMMA MarkType == ASSUME TypeInv, NEW p \in Process, Mark(p) PROVE TypeInv'
<1> DEFINE t == now[p]
           taken == {n \in job[p].prs : Was(file.prs, n).pushedAt <= t}
           D == DOMAIN file.prs \cup taken
           val(n) == IF n \in taken
                     THEN [Was(file.prs, n) EXCEPT !.pushedHead = heads[n], !.pushedAt = t]
                     ELSE file.prs[n]
<1>1. /\ t \in Stamps /\ t \in Instant /\ file \in Files /\ file.prs \in PRRecords
      /\ job[p].prs \subseteq PR
    BY Times DEF Mark, TypeInv, NowType, StoreType, Files, ProcessType, Jobs
<1>2. D \subseteq PR
    BY <1>1, RecordsPartial
<1>3. ASSUME NEW n \in D PROVE val(n) \in Records
  <2>1. Was(file.prs, n) \in Records /\ heads[n] \in 0 .. MaxHead
      BY <1>1, <1>2, WasType DEF TypeInv, GitHubType
  <2>2. [Was(file.prs, n) EXCEPT !.pushedHead = heads[n], !.pushedAt = t] \in Records
      BY <1>1, <2>1 DEF Records
  <2>3. n \in DOMAIN file.prs => file.prs[n] \in Records
      BY <1>1, RecordsPartial
  <2> QED BY <2>2, <2>3
<1>4. file' = [file EXCEPT !.prs = [n \in D |-> val(n)]]
    BY DEF Mark
<1> HIDE DEF D, val
<1>5. StoreType'
  <2>1. [n \in D |-> val(n)] \in PRRecords
      BY <1>2, <1>3, RecordsPartial
  <2>2. file' \in Files
      BY <1>1, <1>4, <2>1 DEF Files
  <2> QED BY <2>2 DEF Mark, TypeInv, StoreType
<1>6. pc' = [pc EXCEPT ![p] = "done"]
    BY DEF Mark, Go
<1>7. ProcessType'
    BY <1>6 DEF Mark, TypeInv, ProcessType, Places, NoJob, Jobs, Causes, read
<1>8. NowType'
    BY <1>6, NowKept DEF Mark, TypeInv, ProcessType, read
<1>9. ReplyType'
    BY <1>6, ReplyKept DEF Mark, TypeInv, ProcessType
<1> QED BY <1>5, <1>7, <1>8, <1>9 DEF Mark, TypeInv, GitHubType, github

LEMMA WorldType == ASSUME TypeInv, World \/ UNCHANGED vars PROVE TypeInv'
<1> USE DEF TypeInv
<1>1. UNCHANGED <<file, lease, pc, want, now, job, reply>>
    BY DEF World, Show, OpenPR, Squash, TimePasses, vars, read, sent
<1>2. GitHubType' /\ clock' \in Stamps
  <2>1. ASSUME NEW n \in PR, Show(n) PROVE GitHubType' /\ clock' \in Stamps
      BY <2>1 DEF Show, GitHubType
  <2>2. ASSUME NEW n \in PR, OpenPR(n) PROVE GitHubType' /\ clock' \in Stamps
    <3>1. 1 \in 0 .. MaxHead
        BY Times
    <3> QED BY <2>2, <3>1 DEF OpenPR, GitHubType
  <2>3. ASSUME NEW n \in PR, Squash(n) PROVE GitHubType' /\ clock' \in Stamps
      BY <2>3 DEF Squash, GitHubType
  <2>4. CASE TimePasses
      BY <2>4, Ticks DEF TimePasses, Tick, GitHubType, github
  <2>5. CASE UNCHANGED vars
      BY <2>5 DEF vars, GitHubType, github
  <2> QED BY <2>1, <2>2, <2>3, <2>4, <2>5 DEF World
<1> QED BY <1>1, <1>2 DEF StoreType, ProcessType, NowType, ReplyType

LEMMA TypeStep == TypeInv /\ [Next]_vars => TypeInv'
<1> SUFFICES ASSUME TypeInv, [Next]_vars PROVE TypeInv'
    OBVIOUS
<1>1. CASE World \/ UNCHANGED vars
    BY <1>1, WorldType
<1>2. ASSUME NEW p \in Process, Leave(p) PROVE TypeInv'
    BY <1>2, LeaveType
<1>3. ASSUME NEW p \in Process, Step(p) PROVE TypeInv'
    BY <1>3, BeginType, LookType, CutType, ClaimType, OverType, ProbeType, ServeType, LandType,
       LandRestType, MissType, GitPushType, RenewType, MarkType DEF Step
<1> QED BY <1>1, <1>2, <1>3 DEF Next

(* Every variable that decides what a read does keeps its type: each       *)
(* record, listing, backoff and lease on file is one the code can read     *)
(* back, whatever processes poll, push, fail or die.                       *)
THEOREM Typing == Spec => []TypeInv
BY TypeInit, TypeStep, PTL DEF Spec

(* The state file and the leases hold what the code can read back.         *)
THEOREM TypeCorrect == Spec => []TypeOK
BY Typing, TypeCorrectness, PTL

-----------------------------------------------------------------------------
(* Failures, claims, refusals and landings. *)

(* The steps that write the state file, and what each writes of it.        *)
LEMMA FileSteps ==
    ASSUME TypeInv, [Next]_vars
    PROVE  \/ file' = file
           \/ \E p \in Process : Claim(p) /\ Due(p)
                /\ file' = [file EXCEPT !.attemptedAt = now[p], !.failure = Never]
           \/ \E b \in Backoffs, p \in Process, o \in Outcomes :
                Probe(p, o) /\ file' = [file EXCEPT !.backoff = b]
           \/ \E p \in Process : Land(p) /\ file' = Landed(p, now[p])
           \/ \E p \in Process : LandRest(p)
           \/ \E p \in Process : Mark(p)
<1>1. CASE World \/ UNCHANGED vars
    BY <1>1 DEF World, Show, OpenPR, Squash, TimePasses, vars
<1>2. ASSUME NEW p \in Process, Leave(p) PROVE file' = file
    BY <1>2 DEF Leave
<1>3. ASSUME NEW p \in Process, NEW o \in Outcomes, Probe(p, o)
      PROVE  file' = file \/ \E b \in Backoffs : file' = [file EXCEPT !.backoff = b]
  <2>1. TypeInv'
      BY <1>3, ProbeType
  <2>2. file'.backoff \in Backoffs /\ file \in Files
      BY <2>1 DEF TypeInv, StoreType, Files
  <2>3. file' = file \/ file' = [file EXCEPT !.backoff = file'.backoff]
    <3>1. \/ file' = file
          \/ \E b : file' = [file EXCEPT !.backoff = b]
        BY <1>3 DEF Probe
    <3> QED BY <2>2, <3>1 DEF Files
  <2> QED BY <2>2, <2>3
<1>4. ASSUME NEW p \in Process, Claim(p)
      PROVE  \/ file' = file
             \/ Due(p) /\ file' = [file EXCEPT !.attemptedAt = now[p], !.failure = Never]
    BY <1>4 DEF Claim
<1>5. ASSUME NEW p \in Process, Land(p) PROVE file' = Landed(p, now[p])
    BY <1>5 DEF Land
<1>6. ASSUME NEW p \in Process, (\E w \in Wants : Begin(p, w)) \/ Look(p) \/ Cut(p) \/ Over(p)
               \/ Miss(p) \/ (\E n \in PR : GitPush(p, n)) \/ Renew(p)
               \/ (\E o \in Outcomes, g \in Graphite : Serve(p, o, g))
      PROVE  file' = file
    BY <1>6 DEF Begin, Look, Cut, Over, Miss, GitPush, Renew, Serve
<1> QED BY <1>1, <1>2, <1>3, <1>4, <1>5, <1>6 DEF Next, Step

(* What landing a poll leaves of the claim and the records on file. *)
LEMMA LandedKeeps ==
    ASSUME TypeInv, NEW p \in Process, pc[p] = "land"
    PROVE  LET st == Landed(p, now[p])
           IN  /\ st.attemptedAt = file.attemptedAt
               /\ st.failure = file.failure \/ (st.failure = now[p] /\ file.attemptedAt = now[p])
               /\ \A n \in DOMAIN file.prs \cap DOMAIN st.prs :
                    st.prs[n].polledAt >= file.prs[n].polledAt
               /\ \A l \in DOMAIN file.lanes \cap DOMAIN st.lanes :
                    st.lanes[l].polledAt >= file.lanes[l].polledAt
<1> DEFINE t == now[p]  r == reply[p]  st == Landed(p, t)
           s == IF r.outcome = "limited" THEN [file EXCEPT !.backoff = Refused(t, t)]
                ELSE IF Blamed(p, t) THEN [file EXCEPT !.failure = t] ELSE file
<1>1. file \in Files /\ r \in Replies /\ t \in Instant
    BY Times DEF TypeInv, StoreType, NowType, ReplyType
<1>2. CASE r.outcome \in {"ok", "low"}
  <2>1. st = Absorb(file, r, t)
      BY <1>2 DEF Landed
  <2> HIDE DEF st, r, t
  <2>2. /\ st.attemptedAt = file.attemptedAt /\ st.failure = file.failure
        /\ \A n \in DOMAIN file.prs \cap DOMAIN st.prs :
             st.prs[n].polledAt >= file.prs[n].polledAt
        /\ \A l \in DOMAIN file.lanes \cap DOMAIN st.lanes :
             st.lanes[l].polledAt >= file.lanes[l].polledAt
      BY <1>1, <2>1, AbsorbNewer
  <2> QED BY <2>2 DEF st, t
<1>3. CASE r.outcome \notin {"ok", "low"}
  <2>1. st = [s EXCEPT !.prs = Merge(s.prs, r, t)]
      BY <1>3 DEF Landed
  <2>2. /\ s.prs = file.prs /\ s.lanes = file.lanes /\ s.attemptedAt = file.attemptedAt
        /\ s.failure = file.failure \/ (s.failure = t /\ file.attemptedAt = t)
        /\ DOMAIN s = DOMAIN file
      BY <1>1 DEF Blamed, Files
  <2>3. /\ st.prs = Merge(file.prs, r, t) /\ st.lanes = file.lanes
        /\ st.attemptedAt = s.attemptedAt /\ st.failure = s.failure
      BY <1>1, <2>1, <2>2 DEF Files
  <2>4. file.prs \in PRRecords /\ file.lanes \in LaneListings
      BY <1>1 DEF Files
  <2> HIDE DEF st, s, r, t
  <2>5. \A n \in DOMAIN file.prs \cap DOMAIN st.prs : st.prs[n].polledAt >= file.prs[n].polledAt
      BY <1>1, <2>3, <2>4, MergeNewer
  <2>6. \A l \in DOMAIN file.lanes : file.lanes[l].polledAt \in Nat
      BY <2>4, ListingsPartial, Times DEF Listings
  <2> QED BY <2>2, <2>3, <2>5, <2>6 DEF st, t
<1> QED BY <1>2, <1>3

(* What the other two steps leave of it. *)
LEMMA RestKeeps ==
    ASSUME TypeInv, NEW p \in Process, LandRest(p)
    PROVE  /\ file'.attemptedAt = file.attemptedAt /\ file'.failure = file.failure
           /\ file'.lanes = file.lanes
           /\ file'.prs = file.prs \/ file'.prs = Merge(file.prs, reply[p], now[p])
BY DEF LandRest, TypeInv, StoreType, Files

LEMMA MarkKeeps ==
    ASSUME TypeInv, NEW p \in Process, Mark(p)
    PROVE  /\ file'.attemptedAt = file.attemptedAt /\ file'.failure = file.failure
           /\ file'.lanes = file.lanes
           /\ \A n \in DOMAIN file.prs :
                n \in DOMAIN file'.prs /\ file'.prs[n].polledAt = file.prs[n].polledAt
<1> DEFINE t == now[p]
           taken == {n \in job[p].prs : Was(file.prs, n).pushedAt <= t}
           D == DOMAIN file.prs \cup taken
           val(n) == IF n \in taken
                     THEN [Was(file.prs, n) EXCEPT !.pushedHead = heads[n], !.pushedAt = t]
                     ELSE file.prs[n]
<1>1. file' = [file EXCEPT !.prs = [n \in D |-> val(n)]]
    BY DEF Mark
<1>2. ASSUME NEW n \in DOMAIN file.prs PROVE val(n).polledAt = file.prs[n].polledAt
  <2>1. file.prs[n] \in Records /\ Was(file.prs, n) = file.prs[n]
      BY <1>2, RecordsPartial DEF TypeInv, StoreType, Files, Was
  <2> QED BY <2>1 DEF Records
<1>3. DOMAIN file.prs \subseteq D
    OBVIOUS
<1> HIDE DEF D, val
<1> QED BY <1>1, <1>2, <1>3 DEF TypeInv, StoreType, Files

-----------------------------------------------------------------------------
LEMMA FailureInit == Init => FailureIsLatest
BY DEF Init, EmptyFile, FailureIsLatest

LEMMA FailureStep == TypeInv /\ FailureIsLatest /\ [Next]_vars => FailureIsLatest'
<1> SUFFICES ASSUME TypeInv, FailureIsLatest, [Next]_vars PROVE FailureIsLatest'
    OBVIOUS
<1> USE DEF FailureIsLatest
<1>1. file \in Files
    BY DEF TypeInv, StoreType
<1>2. ASSUME NEW p \in Process, Land(p), file' = Landed(p, now[p]) PROVE FailureIsLatest'
  <2>1. pc[p] = "land"
      BY <1>2 DEF Land
  <2> QED BY <1>2, <2>1, LandedKeeps
<1>3. ASSUME NEW p \in Process, LandRest(p) \/ Mark(p) PROVE FailureIsLatest'
    BY <1>3, RestKeeps, MarkKeeps
<1>4. ASSUME NEW t, file' = [file EXCEPT !.attemptedAt = t, !.failure = Never]
      PROVE  FailureIsLatest'
    BY <1>1, <1>4 DEF Files
<1>5. ASSUME NEW b, file' = [file EXCEPT !.backoff = b] PROVE FailureIsLatest'
    BY <1>1, <1>5 DEF Files
<1> QED BY <1>2, <1>3, <1>4, <1>5, FileSteps

(* The failure on file is always that of the last poll claimed: a poll     *)
(* that fails after another process has claimed the next one is not        *)
(* blamed, whatever the order the two land in.                             *)
THEOREM FailuresAreLatest == Spec => []FailureIsLatest
BY TypeInit, TypeStep, FailureInit, FailureStep, PTL DEF Spec

LEMMA ClaimStep ==
    ASSUME TypeInv, [Next]_vars
    PROVE  file'.attemptedAt # file.attemptedAt => file'.attemptedAt >= file.attemptedAt + Interval
<1>1. file \in Files
    BY DEF TypeInv, StoreType
<1>2. ASSUME NEW p \in Process, Land(p), file' = Landed(p, now[p])
      PROVE  file'.attemptedAt = file.attemptedAt
  <2>1. pc[p] = "land"
      BY <1>2 DEF Land
  <2> QED BY <1>2, <2>1, LandedKeeps
<1>3. ASSUME NEW p \in Process, LandRest(p) \/ Mark(p) PROVE file'.attemptedAt = file.attemptedAt
    BY <1>3, RestKeeps, MarkKeeps
<1>4. ASSUME NEW p \in Process, Due(p),
             file' = [file EXCEPT !.attemptedAt = now[p], !.failure = Never]
      PROVE  file'.attemptedAt >= file.attemptedAt + Interval
    BY <1>1, <1>4 DEF Files, Due
<1>5. ASSUME NEW b, file' = [file EXCEPT !.backoff = b] PROVE file'.attemptedAt = file.attemptedAt
    BY <1>1, <1>5 DEF Files
<1> QED BY <1>2, <1>3, <1>4, <1>5, FileSteps

(* Polls are claimed Interval apart, by however many processes: each claim *)
(* checks the file again under the lock, so that two processes that both   *)
(* found a poll due before it do not both claim one.                       *)
THEOREM ClaimsSpaced == Spec => ClaimsAreSpaced
<1>1. TypeInv /\ [Next]_vars
        => [file'.attemptedAt # file.attemptedAt
              => file'.attemptedAt >= file.attemptedAt + Interval]_file
    BY ClaimStep
<1> QED BY <1>1, Typing, PTL DEF Spec, ClaimsAreSpaced

LEMMA AgeStep ==
    ASSUME TypeInv, [Next]_vars
    PROVE  /\ \A n \in DOMAIN file.prs \cap DOMAIN file'.prs :
                file'.prs[n].polledAt >= file.prs[n].polledAt
           /\ \A l \in DOMAIN file.lanes \cap DOMAIN file'.lanes :
                file'.lanes[l].polledAt >= file.lanes[l].polledAt
<1> DEFINE Kept == /\ \A n \in DOMAIN file.prs \cap DOMAIN file'.prs :
                        file'.prs[n].polledAt >= file.prs[n].polledAt
                   /\ \A l \in DOMAIN file.lanes \cap DOMAIN file'.lanes :
                        file'.lanes[l].polledAt >= file.lanes[l].polledAt
<1>1. file \in Files /\ file.prs \in PRRecords /\ file.lanes \in LaneListings
    BY DEF TypeInv, StoreType, Files
<1>2. /\ \A n \in DOMAIN file.prs : file.prs[n].polledAt \in Nat
      /\ \A l \in DOMAIN file.lanes : file.lanes[l].polledAt \in Nat
    BY <1>1, RecordsPartial, ListingsPartial, Times DEF Records, Listings
<1>3. ASSUME file'.prs = file.prs, file'.lanes = file.lanes PROVE Kept
    BY <1>2, <1>3
<1>4. ASSUME NEW p \in Process, Land(p), file' = Landed(p, now[p]) PROVE Kept
  <2>1. pc[p] = "land"
      BY <1>4 DEF Land
  <2> QED BY <1>4, <2>1, LandedKeeps
<1>5. ASSUME NEW p \in Process, LandRest(p) PROVE Kept
  <2>1. reply[p] \in Replies /\ now[p] \in Instant
      BY DEF TypeInv, ReplyType, NowType
  <2> QED BY <1>1, <1>2, <1>5, <2>1, RestKeeps, MergeNewer
<1>6. ASSUME NEW p \in Process, Mark(p) PROVE Kept
    BY <1>2, <1>6, MarkKeeps
<1>7. ASSUME NEW t, file' = [file EXCEPT !.attemptedAt = t, !.failure = Never] PROVE Kept
    BY <1>1, <1>3, <1>7 DEF Files
<1>8. ASSUME NEW b, file' = [file EXCEPT !.backoff = b] PROVE Kept
    BY <1>1, <1>3, <1>8 DEF Files
<1> QED BY <1>3, <1>4, <1>5, <1>6, <1>7, <1>8, FileSteps

(* A record or listing that stays on file is never replaced by an older    *)
(* one, in whatever order the polls that read them land.                   *)
THEOREM NothingGrowsOld == Spec => NothingAges
<1>1. TypeInv /\ [Next]_vars
        => [/\ \A n \in DOMAIN file.prs \cap DOMAIN file'.prs :
                 file'.prs[n].polledAt >= file.prs[n].polledAt
            /\ \A l \in DOMAIN file.lanes \cap DOMAIN file'.lanes :
                 file'.lanes[l].polledAt >= file.lanes[l].polledAt]_file
    BY AgeStep
<1> QED BY <1>1, Typing, PTL DEF Spec, NothingAges

-----------------------------------------------------------------------------
(* Refusals. *)

(* If process `p' is about to ask GraphQL, a refusal on file has ended. *)
Heeds(p) == pc[p] # "poll" /\ pc'[p] = "poll" /\ job'[p].kind # "rest"
              => ~Limited(file') \/ clock' >= file'.backoff.probeAt

LEMMA StepsOne ==
    ASSUME NEW p \in Process, Step(p)
    PROVE  \E s : pc' = [pc EXCEPT ![p] = s]
<1>1. ASSUME NEW kind, NEW st, NEW late, Return(p, kind, st, late)
      PROVE  \E s : pc' = [pc EXCEPT ![p] = s]
    BY <1>1 DEF Return, Go
<1>2. ASSUME NEW j, Send(p, j) PROVE \E s : pc' = [pc EXCEPT ![p] = s]
    BY <1>2 DEF Send, Go
<1>3. ASSUME NEW st, NEW t, NEW late, NEW cause, Degrade(p, st, t, late, cause)
      PROVE  \E s : pc' = [pc EXCEPT ![p] = s]
    BY <1>1, <1>2, <1>3 DEF Degrade
<1>4. ASSUME NEW st, NEW t, NEW late, NEW slept, Decide(p, st, t, late, slept)
      PROVE  \E s : pc' = [pc EXCEPT ![p] = s]
    BY <1>1, <1>2, <1>3, <1>4 DEF Decide, Go
<1>5. CASE Look(p)
    BY <1>1, <1>3, <1>4, <1>5 DEF Look, Go
<1>6. ASSUME NEW o \in Outcomes, Probe(p, o) PROVE \E s : pc' = [pc EXCEPT ![p] = s]
    BY <1>1, <1>3, <1>4, <1>6 DEF Probe
<1>7. CASE Land(p)
    BY <1>1, <1>2, <1>3, <1>7 DEF Land
<1>8. CASE LandRest(p) \/ Miss(p)
    BY <1>1, <1>3, <1>8 DEF LandRest, Miss
<1>9. CASE Claim(p) \/ Over(p)
    BY <1>2, <1>3, <1>9 DEF Claim, Over, Go
<1>10. ASSUME \/ \E w \in Wants : Begin(p, w)
              \/ \E o \in Outcomes, g \in Graphite : Serve(p, o, g)
              \/ \E n \in PR : GitPush(p, n)
              \/ Cut(p) \/ Renew(p) \/ Mark(p)
       PROVE  \E s : pc' = [pc EXCEPT ![p] = s]
    BY <1>10 DEF Begin, Serve, GitPush, Cut, Renew, Mark, Go
<1> QED BY <1>5, <1>6, <1>7, <1>8, <1>9, <1>10 DEF Step

LEMMA ReturnHeeds ==
    ASSUME TypeInv, NEW p \in Process, NEW kind, NEW st, NEW late, Return(p, kind, st, late)
    PROVE  Heeds(p)
BY DEF Return, Go, Heeds, TypeInv, ProcessType

LEMMA DegradeHeeds ==
    ASSUME TypeInv, NEW p \in Process, NEW st, st.lanes \in LaneListings, NEW t, NEW late,
           NEW cause \in Causes, Degrade(p, st, t, late, cause)
    PROVE  Heeds(p)
BY DegradeMoves DEF Heeds, TypeInv

LEMMA StepHeeds ==
    ASSUME TypeInv, NEW p \in Process, Step(p) PROVE Heeds(p)
<1>1. file \in Files /\ file.lanes \in LaneListings
    BY DEF TypeInv, StoreType, Files
<1>2. CASE Look(p)
  <2>1. CASE Return(p, "ok", file, FALSE)
      BY <2>1, ReturnHeeds
  <2>2. CASE Degrade(p, file, clock', Late(p, clock'), "limited")
      BY <1>1, <2>2, DegradeHeeds DEF Causes
  <2>3. CASE Go(p, "probe")
      BY <2>3 DEF Go, Heeds, TypeInv, ProcessType
  <2>4. CASE ~Limited(file)
    <3>1. file' = file
        BY <1>2 DEF Look
    <3> QED BY <2>4, <3>1 DEF Heeds, Limited
  <2> QED BY <1>2, <2>1, <2>2, <2>3, <2>4 DEF Look
<1>3. ASSUME NEW o \in Outcomes, Probe(p, o) PROVE Heeds(p)
  <2> DEFINE st == [file EXCEPT !.backoff =
                      IF o = "ok" THEN NoBackoff
                      ELSE IF o = "low" THEN Refused(now[p], clock)
                      ELSE Refused(IF Limited(file) THEN file.backoff.since ELSE now[p], now[p])]
  <2>1. st.lanes = file.lanes
      BY <1>1 DEF Files
  <2>2. \/ Return(p, "failed", file, Late(p, clock))
        \/ Degrade(p, st, now[p], Late(p, clock), "limited")
        \/ o = "ok" /\ file' = st
      BY <1>3 DEF Probe
  <2>3. o = "ok" => st.backoff = NoBackoff
      BY <1>1 DEF Files
  <2> HIDE DEF st
  <2>4. CASE Return(p, "failed", file, Late(p, clock))
      BY <2>4, ReturnHeeds
  <2>5. CASE Degrade(p, st, now[p], Late(p, clock), "limited")
      BY <1>1, <2>1, <2>5, DegradeHeeds DEF Causes
  <2>6. CASE o = "ok" /\ file' = st
      BY <2>3, <2>6 DEF Heeds, Limited
  <2> QED BY <2>2, <2>4, <2>5, <2>6
<1>4. CASE Claim(p)
  <2>1. CASE Due(p) /\ file' = [file EXCEPT !.attemptedAt = now[p], !.failure = Never]
      BY <1>1, <2>1 DEF Due, Limited, Heeds, Files
  <2>2. CASE Go(p, "look")
      BY <2>2 DEF Go, Heeds, TypeInv, ProcessType
  <2> QED BY <1>4, <2>1, <2>2 DEF Claim
<1>5. CASE Over(p)
  <2>1. job[p].cause \in Causes
      BY DEF TypeInv, ProcessType, Jobs
  <2>2. CASE Degrade(p, file, clock', FALSE, job[p].cause)
      BY <1>1, <2>1, <2>2, DegradeHeeds
  <2>3. CASE ~Limited(file)
      BY <1>5, <2>3 DEF Over, Heeds, Limited
  <2> QED BY <1>5, <2>2, <2>3 DEF Over
<1>6. CASE Land(p)
  <2> DEFINE st == Landed(p, now[p])
             verdict == Verdict(st, want[p], asked[p])
             unread == IF job[p].kind = "claim" /\ ~Limited(st)
                       THEN Unread(st, job[p].lanes, now[p]) ELSE {}
  <2>1. pc[p] = "land" /\ file' = st
      BY <1>6 DEF Land
  <2>2. st.lanes \in LaneListings /\ Cause(p) \in Causes
    <3>1. st \in Files
        BY <2>1, LandedType
    <3> QED BY <3>1 DEF Files, Cause, TypeInv, ProcessType, Jobs, Causes
  <2>3. \/ Degrade(p, st, now[p], Late(p, clock), Cause(p))
        \/ unread # {}
        \/ Return(p, verdict, st, Late(p, clock))
      BY <1>6 DEF Land
  <2>4. unread # {} => ~Limited(st)
      OBVIOUS
  <2> HIDE DEF st, verdict, unread
  <2>5. CASE Degrade(p, st, now[p], Late(p, clock), Cause(p))
      BY <2>2, <2>5, DegradeHeeds
  <2>6. CASE Return(p, verdict, st, Late(p, clock))
      BY <2>6, ReturnHeeds
  <2>7. CASE unread # {}
      BY <2>1, <2>4, <2>7 DEF Heeds, Limited
  <2> QED BY <2>3, <2>5, <2>6, <2>7
<1>7. CASE LandRest(p)
    BY <1>7, ReturnHeeds DEF LandRest
<1>8. CASE Miss(p)
  <2>1. EmptyFile.lanes \in LaneListings /\ Cause(p) \in Causes
      BY EmptyPartial DEF EmptyFile, Cause, TypeInv, ProcessType, Jobs, Causes
  <2>2. CASE Return(p, "failed", EmptyFile, Late(p, clock))
      BY <2>2, ReturnHeeds
  <2>3. CASE Degrade(p, EmptyFile, now[p], Late(p, clock), Cause(p))
      BY <2>1, <2>3, DegradeHeeds
  <2> QED BY <1>8, <2>2, <2>3 DEF Miss
<1>9. ASSUME NEW s, s # "poll", Go(p, s) PROVE Heeds(p)
    BY <1>9 DEF Go, Heeds, TypeInv, ProcessType
<1>10. ASSUME \/ \E w \in Wants : Begin(p, w)
              \/ \E o \in Outcomes, g \in Graphite : Serve(p, o, g)
              \/ \E n \in PR : GitPush(p, n)
              \/ Cut(p) \/ Renew(p) \/ Mark(p)
       PROVE  Heeds(p)
    BY <1>9, <1>10 DEF Begin, Serve, GitPush, Cut, Renew, Mark
<1> QED BY <1>2, <1>3, <1>4, <1>5, <1>6, <1>7, <1>8, <1>10 DEF Step

LEMMA AllHeed == ASSUME TypeInv, [Next]_vars, NEW q \in Process PROVE Heeds(q)
<1>1. CASE World \/ UNCHANGED vars
    BY <1>1 DEF World, Show, OpenPR, Squash, TimePasses, vars, Heeds
<1>2. ASSUME NEW p \in Process, Leave(p) PROVE Heeds(q)
    BY <1>2 DEF Leave, Go, Heeds, TypeInv, ProcessType
<1>3. ASSUME NEW p \in Process, Step(p) PROVE Heeds(q)
  <2>1. CASE p = q
      BY <1>3, <2>1, StepHeeds
  <2>2. CASE p # q
      BY <1>3, <2>2, StepsOne DEF Heeds, TypeInv, ProcessType
  <2> QED BY <2>1, <2>2
<1> QED BY <1>1, <1>2, <1>3 DEF Next

(* Nothing asks GraphQL while a refusal on file stands: not a claim, when  *)
(* one has landed since its reader looked, nor a read over its budget, nor *)
(* the second request of a claimed poll, nor the one a probe lets go.      *)
THEOREM RefusalsHeeded == Spec => RefusalsAreHeeded
<1>1. TypeInv /\ [Next]_vars
        => [\A p \in Process :
              pc[p] # "poll" /\ pc'[p] = "poll" /\ job'[p].kind # "rest"
                => ~Limited(file') \/ clock' >= file'.backoff.probeAt]_vars
    BY AllHeed DEF Heeds
<1> QED BY <1>1, Typing, PTL DEF Spec, RefusalsAreHeeded
=============================================================================
