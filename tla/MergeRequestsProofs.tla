------------------------ MODULE MergeRequestsProofs ------------------------
(***************************************************************************)
(* Proofs about MergeRequests, for any heads, reviewers, handlers and      *)
(* bounds: the target branch loses nothing, a merged row is on it, and no  *)
(* merge puts a head on it twice.                                          *)
(***************************************************************************)
EXTENDS MergeRequests, FiniteSetTheorems, TLAPS

-----------------------------------------------------------------------------
(* The inductive invariant *)

\* Contained, and what MergedIsLanded says, of any target.
InHistory(t, n) ==
    UNION {Ancestors[t[i].head] : i \in {i \in 1..n : t[i].kept /\ t[i].head # "other"}}
LandedBy(t, h, n) == \E i \in 1..n : t[i].head # "other" /\ h \in Ancestors[t[i].head]

\* What a handler has read stays true while others run: a merge's view of the
\* target is a prefix of it, and what is about to be recorded is on it.
HandlerKnows(x, t) ==
    /\ x.pc \in {"fetch", "record"} => x.new # "gone"
    /\ x.pc = "review" => x.who \in Reviewers
    /\ x.pc = "gates" => x.tip <= Len(t)
    /\ x.pc = "cas" => x.tip <= Len(t) /\ x.head \notin InHistory(t, x.tip)
    /\ x.pc = "landed" => x.tip < Len(t)
    /\ x.pc = "mark" => x.tip < Len(t) /\ LandedBy(t, x.head, x.tip + 1)
HandlersKnow == \A p \in Procs : HandlerKnows(proc[p], target)

\* Each review, written or about to be, is a command that arrived.
Reviewing == {p \in Procs : proc[p].pc = "review"}
ReviewsCounted ==
    IsFiniteSet(Reviewing) /\ Len(reviews) + Cardinality(Reviewing) <= commands

MRInv == MRTypeOK /\ HandlersKnow /\ ReviewsCounted /\ MergedIsLanded /\ LandsOnce

-----------------------------------------------------------------------------
(* Targets that grow *)

Grows(s, t) == Len(s) <= Len(t) /\ \A i \in 1..Len(s) : t[i] = s[i]

LEMMA HistoryIsKept ==
    ASSUME NEW s \in Seq(Landing), NEW t \in Seq(Landing), Grows(s, t),
           NEW n \in Nat, n <= Len(s)
    PROVE  /\ InHistory(t, n) = InHistory(s, n)
           /\ \A h : LandedBy(s, h, n) => LandedBy(t, h, n)
<1>1. \A i \in 1..n : t[i] = s[i]
  BY DEF Grows
<1> QED
  BY <1>1 DEF InHistory, LandedBy

LEMMA GrowsRefl == ASSUME NEW s \in Seq(Landing) PROVE Grows(s, s)
BY DEF Grows

LEMMA GrowsByOne ==
    ASSUME NEW s \in Seq(Landing), NEW x \in Landing
    PROVE  /\ Append(s, x) \in Seq(Landing) /\ Grows(s, Append(s, x))
           /\ Len(Append(s, x)) = Len(s) + 1 /\ Append(s, x)[Len(s) + 1] = x
BY DEF Grows

LEMMA WholeSeq == ASSUME NEW s \in Seq(Landing) PROVE SubSeq(s, 1, Len(s)) = s
OBVIOUS

\* What a handler knows, it knows of any longer target.
LEMMA KnowsMore ==
    ASSUME NEW s \in Seq(Landing), NEW t \in Seq(Landing), Grows(s, t),
           NEW x \in Handler, HandlerKnows(x, s)
    PROVE  HandlerKnows(x, t)
<1>1. x.tip \in Nat /\ Len(s) \in Nat /\ Len(t) \in Nat /\ Len(s) <= Len(t)
  BY MRBoundsAssumption DEF Handler, Grows
<1>2. CASE x.pc = "cas"
  BY <1>1, <1>2, HistoryIsKept DEF HandlerKnows
<1>3. CASE x.pc = "mark"
  <2>1. x.tip + 1 \in Nat /\ x.tip + 1 <= Len(s) /\ LandedBy(s, x.head, x.tip + 1)
    BY <1>1, <1>3 DEF HandlerKnows
  <2>2. LandedBy(t, x.head, x.tip + 1)
    BY <2>1, HistoryIsKept
  <2> QED
    BY <1>1, <1>3, <2>1, <2>2 DEF HandlerKnows
<1> QED
  BY <1>1, <1>2, <1>3 DEF HandlerKnows

-----------------------------------------------------------------------------
(* A step of one handler *)

\* The variables one by one, without the handlers, the reviews, the target
\* and the count of commands.
Shape ==
    /\ source \in Heads \cup {"gone"} /\ headRef \in Heads /\ mr \in MRRow
    /\ queue \in {"none", "valid", "lapsed"}
    /\ checks \in [Heads -> {"", "success", "failure"}]
    /\ mutex \in Procs \cup {"free"} /\ crashes \in 0..MaxCrashes

TargetOK == target \in Seq(Landing) /\ Len(target) <= MaxTarget

LEMMA HandlersFollow ==
    ASSUME MRInv, NEW p \in Procs, NEW x \in Handler, proc' = [proc EXCEPT ![p] = x],
           TargetOK', Grows(target, target'), HandlerKnows(x, target')
    PROVE  proc' \in [Procs -> Handler] /\ HandlersKnow'
<1>1. proc \in [Procs -> Handler] /\ target \in Seq(Landing) /\ target' \in Seq(Landing)
  BY DEF MRInv, MRTypeOK, TargetOK
<1>2. /\ proc' \in [Procs -> Handler] /\ proc'[p] = x
      /\ \A q \in Procs : q # p => proc'[q] = proc[q] /\ proc[q] \in Handler
  BY <1>1
<1>3. \A q \in Procs : q # p => HandlerKnows(proc[q], target')
  BY <1>1, <1>2, KnowsMore DEF MRInv, HandlersKnow
<1>4. \A q \in Procs : HandlerKnows(proc'[q], target')
  BY <1>2, <1>3
<1> QED
  BY <1>2, <1>4 DEF HandlersKnow

\* Handlers that write no review leave the count.
LEMMA CountStays ==
    ASSUME MRInv, NEW p \in Procs, NEW x \in Handler, proc' = [proc EXCEPT ![p] = x],
           x.pc # "review", Len(reviews') = Len(reviews), commands' \in Nat,
           commands' >= commands
    PROVE  ReviewsCounted'
<1>1. /\ IsFiniteSet(Reviewing) /\ Len(reviews) + Cardinality(Reviewing) <= commands
      /\ Len(reviews) \in Nat /\ commands \in Nat /\ proc \in [Procs -> Handler]
  <2>1. reviews \in Seq(Review) /\ commands \in 0..MaxCommands /\ proc \in [Procs -> Handler]
    BY DEF MRInv, MRTypeOK
  <2>2. Len(reviews) \in Nat /\ commands \in Nat
    BY <2>1
  <2> QED
    BY <2>1, <2>2 DEF MRInv, ReviewsCounted
<1>2. Reviewing' \subseteq Reviewing
  <2>1. \A q \in Procs : proc'[q].pc = "review" => proc[q].pc = "review"
    BY <1>1
  <2> QED
    BY <2>1 DEF Reviewing
<1>3. /\ IsFiniteSet(Reviewing') /\ Cardinality(Reviewing') \in Nat
      /\ Cardinality(Reviewing) \in Nat /\ Cardinality(Reviewing') <= Cardinality(Reviewing)
  BY <1>1, <1>2, FS_Subset, FS_CardinalityType
<1> HIDE DEF Reviewing
<1> QED
  BY <1>1, <1>3 DEF ReviewsCounted

\* What has to be shown of a step that writes no review.
LEMMA StepInv ==
    ASSUME MRInv, NEW p \in Procs, NEW x \in Handler, proc' = [proc EXCEPT ![p] = x],
           HandlerKnows(x, target'), x.pc # "review", Shape',
           TargetOK', Grows(target, target'),
           reviews' \in Seq(Review), Len(reviews') = Len(reviews),
           commands' \in 0..MaxCommands, commands' >= commands,
           MergedIsLanded', LandsOnce'
    PROVE  MRInv'
<1>1. proc' \in [Procs -> Handler] /\ HandlersKnow'
  BY HandlersFollow
<1>2. ReviewsCounted'
  <2>1. commands' \in Nat
    OBVIOUS
  <2> QED
    BY <2>1, CountStays
<1>3. MRTypeOK'
  BY <1>1, MRBoundsAssumption DEF MRInv, MRTypeOK, Shape, TargetOK
<1> QED
  BY <1>1, <1>2, <1>3 DEF MRInv

\* A merged row stays landed while the target grows.
LEMMA RowStaysLanded ==
    ASSUME MRInv, TargetOK', Grows(target, target'),
           mr'.state = "merged" =>
             mr.state = "merged" /\ mr'.landing = mr.landing /\ mr'.as = mr.as
    PROVE  MergedIsLanded'
<1>1. SUFFICES ASSUME mr'.state = "merged" PROVE MergedIsLanded'
  BY DEF MergedIsLanded
<1>2. /\ mr.landing \in DOMAIN target /\ LandedBy(target, mr.as, mr.landing)
      /\ mr'.landing = mr.landing /\ mr'.as = mr.as
  BY <1>1 DEF MRInv, MergedIsLanded, LandedBy
<1>3. target \in Seq(Landing) /\ target' \in Seq(Landing)
  BY DEF MRInv, MRTypeOK, TargetOK
<1>4. mr.landing \in Nat /\ mr.landing <= Len(target) /\ mr.landing \in DOMAIN target'
  BY <1>2, <1>3 DEF Grows
<1>5. LandedBy(target', mr.as, mr.landing)
  BY <1>2, <1>3, <1>4, HistoryIsKept
<1> QED
  BY <1>2, <1>4, <1>5 DEF MergedIsLanded, LandedBy

\* What has to be shown of a step that leaves the target alone and merges
\* nothing.
LEMMA QuietInv ==
    ASSUME MRInv, NEW p \in Procs, NEW x \in Handler, proc' = [proc EXCEPT ![p] = x],
           HandlerKnows(x, target), x.pc # "review", UNCHANGED target, Shape',
           reviews' \in Seq(Review), Len(reviews') = Len(reviews),
           commands' = commands \/ Arrives,
           mr'.state = "merged" =>
             mr.state = "merged" /\ mr'.landing = mr.landing /\ mr'.as = mr.as
    PROVE  MRInv'
<1>1. TargetOK' /\ Grows(target, target')
  BY GrowsRefl DEF MRInv, MRTypeOK, TargetOK
<1>2. MergedIsLanded'
  BY <1>1, RowStaysLanded
<1>3. LandsOnce'
  BY DEF MRInv, LandsOnce
<1>4. commands' \in 0..MaxCommands /\ commands' >= commands
  <2>1. commands \in 0..MaxCommands
    BY DEF MRInv, MRTypeOK
  <2> QED
    BY <2>1, MRBoundsAssumption DEF Arrives
<1> QED
  BY <1>1, <1>2, <1>3, <1>4, StepInv

LEMMA Shapes ==
    ASSUME MRInv
    PROVE  /\ Shape /\ TargetOK /\ proc \in [Procs -> Handler] /\ commands \in 0..MaxCommands
           /\ reviews \in Seq(Review) /\ mr \in MRRow /\ headRef \in Heads
           /\ \A p \in Procs : proc[p] \in Handler /\ HandlerKnows(proc[p], target)
BY DEF MRInv, MRTypeOK, Shape, TargetOK, HandlersKnow

LEMMA IdleFacts ==
    /\ Idle \in Handler /\ Idle.pc = "idle" /\ FirstRow \in MRRow
    /\ \A t : HandlerKnows(Idle, t)
<1>1. FirstRow \in MRRow
  BY HeadsAssumption, MRBoundsAssumption DEF FirstRow, MRRow, MRState
<1>2. Idle \in Handler /\ Idle.pc = "idle"
  BY <1>1, HeadsAssumption, MRBoundsAssumption DEF Idle, Handler, Pc, Verdict
<1> QED
  BY <1>1, <1>2 DEF HandlerKnows

\* A handler that only moves on.
LEMMA GoFacts ==
    ASSUME MRInv, NEW p \in Procs, NEW pc \in Pc, Go(p, pc)
    PROVE  LET x == [proc[p] EXCEPT !.pc = pc]
           IN  /\ x \in Handler /\ x.pc = pc /\ proc' = [proc EXCEPT ![p] = x]
               /\ x.new = proc[p].new /\ x.tip = proc[p].tip /\ x.head = proc[p].head
               /\ x.snap = proc[p].snap /\ x.who = proc[p].who /\ x.by = proc[p].by
BY Shapes DEF Go, Handler

\* Where a handler may go knowing nothing.
Unaware == {"idle", "list", "gone", "reopen", "close", "enqueue", "attempt", "dequeue", "read"}

LEMMA KnowsNothing ==
    ASSUME NEW x, x.pc \in Unaware, NEW t
    PROVE  HandlerKnows(x, t) /\ x.pc # "review"
BY DEF HandlerKnows, Unaware

\* A command arrives, a push or a report among them, or a handler goes on
\* with nothing of the target in hand.
LEMMA UnawareInv ==
    ASSUME MRInv, NEW p \in Procs, NEW x \in Handler, proc' = [proc EXCEPT ![p] = x],
           x.pc \in Unaware, UNCHANGED target, Shape',
           reviews' \in Seq(Review), Len(reviews') = Len(reviews),
           commands' = commands \/ Arrives,
           mr'.state = "merged" =>
             mr.state = "merged" /\ mr'.landing = mr.landing /\ mr'.as = mr.as
    PROVE  MRInv'
<1>1. HandlerKnows(x, target) /\ x.pc # "review"
  BY KnowsNothing
<1> QED
  BY <1>1, QuietInv

LEMMA PushInv ==
    ASSUME MRInv, NEW p \in Procs, NEW h \in Heads \cup {"gone"}, NEW writer \in BOOLEAN,
           Push(p, h, writer)
    PROVE  MRInv'
<1> DEFINE x == [Idle EXCEPT !.pc = "list", !.new = h, !.writer = writer]
<1>1. /\ UNCHANGED <<headRef, mr, reviews, queue, checks, target, mutex, crashes>>
      /\ source' = h /\ Arrives /\ proc' = [proc EXCEPT ![p] = x]
  BY DEF Push, Start
<1>2. x \in Handler /\ x.pc = "list"
  BY IdleFacts DEF Handler, Pc
<1> HIDE DEF x
<1>3. Shape'
  BY <1>1, Shapes DEF Shape
<1> QED
  BY <1>1, <1>2, <1>3, Shapes, UnawareInv DEF Unaware

\* The handler goes where it needs to know nothing.
Rests(p) == \E x \in Handler : x.pc \in Unaware /\ proc' = [proc EXCEPT ![p] = x]

LEMMA RestsWhen ==
    ASSUME MRInv, NEW p \in Procs,
           \/ Return(p) \/ ThenAttempt(p) \/ proc' = [proc EXCEPT ![p] = Idle]
           \/ \E pc \in Unaware : Go(p, pc)
    PROVE  Rests(p)
<1>1. CASE proc' = [proc EXCEPT ![p] = Idle]
  BY <1>1, IdleFacts DEF Rests, Unaware
<1>2. ASSUME NEW pc \in Unaware, Go(p, pc) PROVE Rests(p)
  <2>1. pc \in Pc
    BY DEF Unaware, Pc
  <2> DEFINE x == [proc[p] EXCEPT !.pc = pc]
  <2>2. x \in Handler /\ x.pc = pc /\ proc' = [proc EXCEPT ![p] = x]
    BY <1>2, <2>1, GoFacts
  <2> HIDE DEF x
  <2> QED
    BY <2>2 DEF Rests
<1>3. CASE Return(p)
  BY <1>1, <1>3 DEF Return
<1>4. CASE ThenAttempt(p)
  BY <1>1, <1>2, <1>4 DEF ThenAttempt, Unaware
<1> QED
  BY <1>1, <1>2, <1>3, <1>4

LEMMA RestsInv ==
    ASSUME MRInv, NEW p \in Procs, Rests(p), UNCHANGED target, Shape',
           reviews' \in Seq(Review), Len(reviews') = Len(reviews),
           commands' = commands \/ Arrives,
           mr'.state = "merged" =>
             mr.state = "merged" /\ mr'.landing = mr.landing /\ mr'.as = mr.as
    PROVE  MRInv'
<1>1. PICK x \in Handler : x.pc \in Unaware /\ proc' = [proc EXCEPT ![p] = x]
  BY DEF Rests
<1> QED
  BY <1>1, UnawareInv

LEMMA PushListInv ==
    ASSUME MRInv, NEW p \in Procs, PushList(p)
    PROVE  MRInv'
<1>1. UNCHANGED <<source, headRef, mr, reviews, queue, checks, target, mutex, commands, crashes>>
  BY DEF PushList
<1>2. Shape'
  BY <1>1, Shapes DEF Shape
<1>3. CASE proc' = [proc EXCEPT ![p] = Idle]
  BY <1>1, <1>2, <1>3, Shapes, RestsWhen, RestsInv
<1>4. CASE mr.state \in {"open", "source_gone"}
  <2> DEFINE pc == IF proc[p].new = "gone" THEN "gone" ELSE "fetch"
             x == [proc[p] EXCEPT !.pc = pc, !.snap = mr, !.queued = queue # "none"]
  <2>1. proc' = [proc EXCEPT ![p] = x]
    BY <1>4, Shapes DEF PushList
  <2>2. x \in Handler /\ x.pc = pc /\ x.new = proc[p].new
    <3> DEFINE a == [proc[p] EXCEPT !.pc = pc]
               b == [a EXCEPT !.snap = mr]
    <3>1. a \in Handler /\ a.pc = pc /\ a.new = proc[p].new
      BY Shapes DEF Handler, Pc
    <3> HIDE DEF a
    <3>2. b \in Handler /\ b.pc = pc /\ b.new = proc[p].new
      BY <3>1, Shapes DEF Handler
    <3>3. x = [b EXCEPT !.queued = queue # "none"]
      BY Shapes DEF a, Handler
    <3> HIDE DEF b
    <3> QED
      BY <3>2, <3>3 DEF Handler
  <2> HIDE DEF x
  <2>3. HandlerKnows(x, target) /\ x.pc # "review"
    BY <2>2 DEF HandlerKnows
  <2> QED
    BY <1>1, <1>2, <2>1, <2>2, <2>3, Shapes, QuietInv
<1> QED
  BY <1>3, <1>4 DEF PushList

LEMMA SetMRStateFacts ==
    ASSUME MRInv, NEW s \in MRState, SetMRState(s)
    PROVE  mr' \in MRRow /\ mr'.state = s
<1> DEFINE a == [mr EXCEPT !.state = s]
<1>1. mr' = [a EXCEPT !.landing = 0]
  BY Shapes DEF SetMRState, MRRow
<1>2. a \in MRRow /\ a.state = s
  BY Shapes DEF MRRow
<1> HIDE DEF a
<1> QED
  BY <1>1, <1>2, MRBoundsAssumption DEF MRRow

LEMMA PushGoneInv ==
    ASSUME MRInv, NEW p \in Procs, PushGone(p)
    PROVE  MRInv'
<1>1. /\ UNCHANGED <<source, headRef, reviews, queue, checks, target, mutex, commands, crashes>>
      /\ SetMRState("source_gone") \/ mr' = mr
  BY DEF PushGone
<1>2. /\ mr' \in MRRow
      /\ mr'.state = "merged" => mr' = mr
  BY <1>1, Shapes, SetMRStateFacts DEF MRState
<1>3. Shape'
  BY <1>1, <1>2, Shapes DEF Shape
<1>4. Rests(p)
  BY RestsWhen DEF PushGone
<1> QED
  BY <1>1, <1>2, <1>3, <1>4, Shapes, RestsInv

LEMMA PushFetchInv ==
    ASSUME MRInv, NEW p \in Procs, PushFetch(p)
    PROVE  MRInv'
<1>1. /\ UNCHANGED <<source, mr, reviews, queue, checks, target, mutex, commands, crashes>>
      /\ proc[p].pc = "fetch"
  BY DEF PushFetch, At
<1>2. CASE headRef' = proc[p].new /\ Go(p, "record")
  <2> DEFINE x == [proc[p] EXCEPT !.pc = "record"]
  <2>1. /\ x \in Handler /\ x.pc = "record" /\ proc' = [proc EXCEPT ![p] = x]
        /\ x.new = proc[p].new
    BY <1>2, GoFacts DEF Pc
  <2> HIDE DEF x
  <2>2. x.new \in Heads
    BY <1>1, <2>1, Shapes DEF Handler, HandlerKnows
  <2>3. Shape'
    BY <1>1, <1>2, <2>1, <2>2, Shapes DEF Shape
  <2>4. HandlerKnows(x, target) /\ x.pc # "review"
    BY <1>1, <2>1, Shapes DEF HandlerKnows
  <2> QED
    BY <1>1, <2>1, <2>3, <2>4, Shapes, QuietInv
<1>3. CASE proc' = [proc EXCEPT ![p] = Idle] /\ UNCHANGED headRef
  <2>1. Shape'
    BY <1>1, <1>3, Shapes DEF Shape
  <2> QED
    BY <1>1, <1>3, <2>1, Shapes, RestsWhen, RestsInv
<1> QED
  BY <1>2, <1>3 DEF PushFetch

\* UpdateMRHead keeps every review a review, and how many there are.
LEMMA UpdateMRHeadFacts ==
    ASSUME MRInv, NEW h \in Heads, NEW sameDiff \in BOOLEAN, UpdateMRHead(h, sameDiff)
    PROVE  /\ mr' \in MRRow /\ mr'.state = mr.state
           /\ mr'.landing = mr.landing /\ mr'.as = mr.as
           /\ reviews' \in Seq(Review) /\ Len(reviews') = Len(reviews)
<1>1. /\ mr' \in MRRow /\ mr'.state = mr.state
      /\ mr'.landing = mr.landing /\ mr'.as = mr.as
  BY Shapes DEF UpdateMRHead, MRRow
<1> DEFINE new(r) == IF sameDiff /\ ~r.stale /\ r.head = mr.head
                     THEN [r EXCEPT !.head = h]
                     ELSE [r EXCEPT !.stale = @ \/ r.head # h]
<1>2. ASSUME NEW r \in Review PROVE new(r) \in Review
  <2>1. [r EXCEPT !.head = h] \in Review
    BY DEF Review
  <2>2. r.stale \in BOOLEAN /\ (r.stale \/ r.head # h) \in BOOLEAN
    BY DEF Review
  <2> DEFINE b == r.stale \/ r.head # h
  <2>3. [r EXCEPT !.stale = @ \/ r.head # h] = [r EXCEPT !.stale = b]
    BY DEF Review
  <2> HIDE DEF b
  <2>4. b \in BOOLEAN => [r EXCEPT !.stale = b] \in Review
    BY DEF Review
  <2> QED
    BY <2>1, <2>2, <2>3, <2>4 DEF b
<1>3. reviews' = [n \in DOMAIN reviews |-> new(reviews[n])]
  BY DEF UpdateMRHead
<1> HIDE DEF new
<1>4. /\ reviews \in Seq(Review) /\ Len(reviews) \in Nat /\ DOMAIN reviews = 1..Len(reviews)
      /\ \A n \in 1..Len(reviews) : reviews[n] \in Review
  BY Shapes
<1>5. reviews' \in [1..Len(reviews) -> Review]
  BY <1>2, <1>3, <1>4
<1>6. reviews' \in Seq(Review) /\ Len(reviews') = Len(reviews)
  BY <1>4, <1>5
<1> QED
  BY <1>1, <1>6

LEMMA PushRecordInv ==
    ASSUME MRInv, NEW p \in Procs, PushRecord(p)
    PROVE  MRInv'
<1> DEFINE h == proc[p].new
           was == proc[p].snap
           same == was.head # h /\ <<was.head, h>> \in SameDiff
<1>1. /\ UNCHANGED <<source, headRef, queue, checks, target, mutex, commands, crashes>>
      /\ proc[p].pc = "record" /\ UpdateMRHead(h, same)
      /\ Go(p, "reopen") \/ ThenAttempt(p)
  BY DEF PushRecord, At
<1>2. h \in Heads /\ same \in BOOLEAN
  BY <1>1, Shapes DEF Handler, HandlerKnows
<1> HIDE DEF h, was, same
<1>3. /\ mr' \in MRRow /\ mr'.state = mr.state
      /\ mr'.landing = mr.landing /\ mr'.as = mr.as
      /\ reviews' \in Seq(Review) /\ Len(reviews') = Len(reviews)
  BY <1>1, <1>2, UpdateMRHeadFacts
<1>4. Shape'
  BY <1>1, <1>3, Shapes DEF Shape
<1>5. Rests(p)
  BY <1>1, RestsWhen DEF Unaware
<1> QED
  BY <1>1, <1>3, <1>4, <1>5, RestsInv

LEMMA PushReopenInv ==
    ASSUME MRInv, NEW p \in Procs, PushReopen(p)
    PROVE  MRInv'
<1>1. UNCHANGED <<source, headRef, reviews, queue, checks, target, mutex, commands, crashes>>
  BY DEF PushReopen
<1>2. mr' \in MRRow /\ mr'.state = "open"
  BY SetMRStateFacts DEF PushReopen, MRState
<1>3. Shape'
  BY <1>1, <1>2, Shapes DEF Shape
<1>4. Rests(p)
  BY RestsWhen DEF PushReopen
<1> QED
  BY <1>1, <1>2, <1>3, <1>4, Shapes, RestsInv

-----------------------------------------------------------------------------
(* Reviews *)

LEMMA ReviewStartInv ==
    ASSUME MRInv, NEW p \in Procs, NEW u \in Reviewers, NEW v \in Verdict, ReviewStart(p, u, v)
    PROVE  MRInv'
<1> DEFINE x == [Idle EXCEPT !.pc = "review", !.snap = mr, !.who = u, !.verdict = v]
<1>1. /\ UNCHANGED <<source, headRef, mr, reviews, queue, checks, target, mutex, crashes>>
      /\ Arrives /\ proc[p].pc = "idle" /\ proc' = [proc EXCEPT ![p] = x]
  BY DEF ReviewStart, Start
<1>2. x \in Handler /\ x.pc = "review" /\ x.who = u
  BY IdleFacts, Shapes DEF Idle, Handler, Pc
<1> HIDE DEF x
<1>3. TargetOK' /\ Grows(target, target') /\ HandlerKnows(x, target')
  BY <1>1, <1>2, Shapes, GrowsRefl DEF TargetOK, HandlerKnows
<1>4. proc' \in [Procs -> Handler] /\ HandlersKnow'
  BY <1>1, <1>2, <1>3, HandlersFollow
<1>5. commands' = commands + 1 /\ commands' \in 0..MaxCommands /\ commands \in Nat
  BY <1>1, Shapes, MRBoundsAssumption DEF Arrives
<1>6. ReviewsCounted'
  <2>1. Reviewing' = Reviewing \cup {p} /\ p \notin Reviewing
    <3>1. \A q \in Procs : proc'[q].pc = "review" <=> proc[q].pc = "review" \/ q = p
      BY <1>1, <1>2, Shapes
    <3> QED
      BY <1>1, <3>1 DEF Reviewing
  <2>2. IsFiniteSet(Reviewing) /\ Len(reviews) + Cardinality(Reviewing) <= commands
    BY DEF MRInv, ReviewsCounted
  <2> HIDE DEF Reviewing
  <2>3. /\ IsFiniteSet(Reviewing') /\ Cardinality(Reviewing') = Cardinality(Reviewing) + 1
        /\ Cardinality(Reviewing) \in Nat
    BY <2>1, <2>2, FS_AddElement, FS_CardinalityType
  <2>4. Len(reviews) \in Nat
    BY Shapes
  <2> QED
    BY <1>1, <1>5, <2>2, <2>3, <2>4 DEF ReviewsCounted
<1>7. MRTypeOK'
  BY <1>1, <1>4, <1>5 DEF MRInv, MRTypeOK
<1>8. MergedIsLanded' /\ LandsOnce'
  BY <1>1 DEF MRInv, MergedIsLanded, LandsOnce
<1> QED
  BY <1>4, <1>6, <1>7, <1>8 DEF MRInv

LEMMA AddMRReviewInv ==
    ASSUME MRInv, NEW p \in Procs, AddMRReview(p)
    PROVE  MRInv'
<1> DEFINE x == [proc[p] EXCEPT !.pc = "attempt"]
           r == [by |-> proc[p].who, verdict |-> proc[p].verdict,
                 head |-> proc[p].snap.head, stale |-> FALSE]
<1>1. /\ UNCHANGED <<source, headRef, mr, queue, checks, target, mutex, commands, crashes>>
      /\ proc[p].pc = "review" /\ reviews' = Append(reviews, r) /\ Go(p, "attempt")
  BY DEF AddMRReview, At
<1>2. x \in Handler /\ x.pc = "attempt" /\ proc' = [proc EXCEPT ![p] = x]
  BY <1>1, GoFacts DEF Pc
<1>3. r \in Review
  <2>1. proc[p].who \in Reviewers /\ proc[p].verdict \in Verdict /\ proc[p].snap \in MRRow
    BY <1>1, Shapes DEF Handler, HandlerKnows
  <2> QED
    BY <2>1 DEF Review, MRRow
<1> HIDE DEF x, r
<1>4. HandlerKnows(x, target)
  BY <1>2 DEF HandlerKnows
<1>5. TargetOK' /\ Grows(target, target') /\ HandlerKnows(x, target')
  BY <1>1, <1>4, Shapes, GrowsRefl DEF TargetOK
<1>6. proc' \in [Procs -> Handler] /\ HandlersKnow'
  BY <1>2, <1>5, HandlersFollow
<1>7. /\ reviews' \in Seq(Review) /\ Len(reviews') = Len(reviews) + 1 /\ Len(reviews) \in Nat
  BY <1>1, <1>3, Shapes
<1>8. /\ IsFiniteSet(Reviewing') /\ Cardinality(Reviewing') = Cardinality(Reviewing) - 1
      /\ Cardinality(Reviewing) \in Nat /\ Cardinality(Reviewing') \in Nat
      /\ Len(reviews) + Cardinality(Reviewing) <= commands
  <2>1. Reviewing' = Reviewing \ {p} /\ p \in Reviewing
    <3>1. \A q \in Procs : proc'[q].pc = "review" <=> proc[q].pc = "review" /\ q # p
      BY <1>1, <1>2, Shapes
    <3> QED
      BY <1>1, <3>1 DEF Reviewing
  <2>2. IsFiniteSet(Reviewing) /\ Len(reviews) + Cardinality(Reviewing) <= commands
    BY DEF MRInv, ReviewsCounted
  <2> HIDE DEF Reviewing
  <2> QED
    BY <2>1, <2>2, FS_RemoveElement, FS_CardinalityType
<1>9. commands \in 0..MaxCommands /\ commands \in Nat /\ commands' = commands
  BY <1>1, Shapes, MRBoundsAssumption
<1>10. ReviewsCounted'
  BY <1>7, <1>8, <1>9 DEF ReviewsCounted
<1>11. MRTypeOK'
  <2>1. Len(reviews') <= MaxCommands
    BY <1>7, <1>8, <1>9, MRBoundsAssumption
  <2> QED
    BY <1>1, <1>6, <1>7, <2>1 DEF MRInv, MRTypeOK
<1>12. MergedIsLanded' /\ LandsOnce'
  BY <1>1 DEF MRInv, MergedIsLanded, LandsOnce
<1> QED
  BY <1>6, <1>10, <1>11, <1>12 DEF MRInv

-----------------------------------------------------------------------------
(* The other commands *)

\* What has to be shown of a step that no handler takes.
LEMMA NoHandlerInv ==
    ASSUME MRInv, UNCHANGED <<proc, target, reviews>>, Shape',
           commands' = commands \/ Arrives,
           mr'.state = "merged" =>
             mr.state = "merged" /\ mr'.landing = mr.landing /\ mr'.as = mr.as
    PROVE  MRInv'
<1>1. TargetOK' /\ Grows(target, target')
  BY Shapes, GrowsRefl DEF TargetOK
<1>2. MergedIsLanded'
  BY <1>1, RowStaysLanded
<1>3. LandsOnce' /\ HandlersKnow'
  BY DEF MRInv, LandsOnce, HandlersKnow
<1>4. /\ commands' \in 0..MaxCommands /\ commands' >= commands
      /\ commands \in Nat /\ commands' \in Nat
  BY Shapes, MRBoundsAssumption DEF Arrives
<1>5. ReviewsCounted'
  <2>1. Reviewing' = Reviewing
    BY DEF Reviewing
  <2>2. IsFiniteSet(Reviewing) /\ Len(reviews) + Cardinality(Reviewing) <= commands
    BY DEF MRInv, ReviewsCounted
  <2> HIDE DEF Reviewing
  <2>3. Cardinality(Reviewing) \in Nat /\ Len(reviews) \in Nat
    BY <2>2, Shapes, FS_CardinalityType
  <2> QED
    BY <1>4, <2>1, <2>2, <2>3 DEF ReviewsCounted
<1>6. MRTypeOK'
  BY <1>1, <1>4 DEF MRInv, MRTypeOK, Shape, TargetOK
<1> QED
  BY <1>2, <1>3, <1>5, <1>6 DEF MRInv

\* A command that starts with nothing read but the row.
LEMMA StartRests ==
    ASSUME NEW p \in Procs, NEW x \in Handler, x.pc \in Unaware, Start(p, x)
    PROVE  Rests(p) /\ Arrives
BY DEF Start, Rests

LEMMA StartsAt ==
    ASSUME NEW pc \in Unaware
    PROVE  [Idle EXCEPT !.pc = pc] \in Handler /\ [Idle EXCEPT !.pc = pc].pc \in Unaware
BY IdleFacts DEF Handler, Pc, Unaware

LEMMA SetMRDraftInv ==
    ASSUME MRInv, NEW p \in Procs, NEW draft \in BOOLEAN, SetMRDraft(p, draft)
    PROVE  MRInv'
<1> DEFINE x == [Idle EXCEPT !.pc = "attempt"]
<1>1. /\ UNCHANGED <<source, headRef, reviews, queue, checks, target, mutex, crashes>>
      /\ mr' = [mr EXCEPT !.draft = draft]
      /\ (Arrives /\ UNCHANGED proc) \/ Start(p, x)
  BY DEF SetMRDraft
<1>2. /\ mr' \in MRRow /\ mr'.state = mr.state
      /\ mr'.landing = mr.landing /\ mr'.as = mr.as
  BY <1>1, Shapes DEF MRRow
<1>3. Shape'
  BY <1>1, <1>2, Shapes DEF Shape
<1>4. CASE Arrives /\ UNCHANGED proc
  BY <1>1, <1>2, <1>3, <1>4, NoHandlerInv
<1>5. CASE Start(p, x)
  <2>1. x \in Handler /\ x.pc \in Unaware
    BY StartsAt DEF Unaware
  <2> HIDE DEF x
  <2>2. Rests(p) /\ Arrives
    BY <1>5, <2>1, StartRests
  <2> QED
    BY <1>1, <1>2, <1>3, <2>2, Shapes, RestsInv
<1> QED
  BY <1>1, <1>4, <1>5

LEMMA ReportStatusInv ==
    ASSUME MRInv, NEW p \in Procs, NEW h \in Heads, NEW s \in {"success", "failure"},
           ReportStatus(p, h, s)
    PROVE  MRInv'
<1> DEFINE x == [Idle EXCEPT !.pc = "attempt"]
<1>1. /\ UNCHANGED <<source, headRef, mr, reviews, queue, target, mutex, crashes>>
      /\ checks' = [checks EXCEPT ![h] = s]
      /\ (Arrives /\ UNCHANGED proc) \/ Start(p, x)
  BY DEF ReportStatus
<1>2. Shape'
  BY <1>1, Shapes DEF Shape
<1>3. CASE Arrives /\ UNCHANGED proc
  BY <1>1, <1>2, <1>3, NoHandlerInv
<1>4. CASE Start(p, x)
  <2>1. x \in Handler /\ x.pc \in Unaware
    BY StartsAt DEF Unaware
  <2> HIDE DEF x
  <2>2. Rests(p) /\ Arrives
    BY <1>4, <2>1, StartRests
  <2> QED
    BY <1>1, <1>2, <2>2, Shapes, RestsInv
<1> QED
  BY <1>1, <1>3, <1>4

\* mr close and mr merge, with --when-ready or at once, begin.
LEMMA CommandStartInv ==
    ASSUME MRInv, NEW p \in Procs, CloseStart(p) \/ QueueMergeStart(p) \/ MergeStart(p)
    PROVE  MRInv'
<1>1. UNCHANGED <<source, headRef, mr, reviews, queue, checks, target, mutex, crashes>>
  BY DEF CloseStart, QueueMergeStart, MergeStart
<1>2. Shape'
  BY <1>1, Shapes DEF Shape
<1>3. Rests(p) /\ Arrives
  <2>1. CASE CloseStart(p)
    BY <2>1, StartsAt, StartRests DEF CloseStart, Unaware
  <2>2. CASE QueueMergeStart(p)
    BY <2>2, StartsAt, StartRests DEF QueueMergeStart, Unaware
  <2>3. CASE MergeStart(p)
    <3> DEFINE x == [Idle EXCEPT !.pc = "read", !.snap = mr, !.by = "merge"]
    <3>1. x \in Handler /\ x.pc \in Unaware
      BY IdleFacts, Shapes DEF Idle, Handler, Pc, Unaware
    <3>2. Start(p, x)
      BY <2>3 DEF MergeStart
    <3> HIDE DEF x
    <3> QED
      BY <3>1, <3>2, StartRests
  <2> QED
    BY <2>1, <2>2, <2>3
<1> QED
  BY <1>1, <1>2, <1>3, Shapes, RestsInv

LEMMA CloseInv ==
    ASSUME MRInv, NEW p \in Procs, Close(p)
    PROVE  MRInv'
<1>1. /\ UNCHANGED <<source, headRef, reviews, checks, target, mutex, commands, crashes>>
      /\ mr' = [mr EXCEPT !.state = "closed"] /\ queue' = "none"
  BY DEF Close, MarkClosed
<1>2. mr' \in MRRow /\ mr'.state = "closed"
  BY <1>1, Shapes DEF MRRow, MRState
<1>3. Shape'
  BY <1>1, <1>2, Shapes DEF Shape
<1>4. Rests(p)
  BY RestsWhen DEF Close
<1> QED
  BY <1>1, <1>2, <1>3, <1>4, Shapes, RestsInv

LEMMA QueueMergeInv ==
    ASSUME MRInv, NEW p \in Procs, QueueMerge(p)
    PROVE  MRInv'
<1>1. /\ UNCHANGED <<source, headRef, mr, reviews, checks, target, mutex, commands, crashes>>
      /\ queue' = "valid"
  BY DEF QueueMerge
<1>2. Shape'
  BY <1>1, Shapes DEF Shape
<1>3. Rests(p)
  BY RestsWhen DEF QueueMerge, Unaware
<1> QED
  BY <1>1, <1>2, <1>3, Shapes, RestsInv

LEMMA QueueRowInv ==
    ASSUME MRInv, CancelQueuedMerge \/ QueuerLapses
    PROVE  MRInv'
<1>1. /\ UNCHANGED <<source, headRef, mr, reviews, checks, target, mutex, proc, commands, crashes>>
      /\ queue' \in {"none", "lapsed"}
  BY DEF CancelQueuedMerge, QueuerLapses
<1>2. Shape'
  BY <1>1, Shapes DEF Shape
<1> QED
  BY <1>1, <1>2, NoHandlerInv

-----------------------------------------------------------------------------
(* The merge queue *)

LEMMA ReturnShape ==
    ASSUME MRInv, NEW p \in Procs, Return(p)
    PROVE  mutex' \in Procs \cup {"free"}
BY Shapes DEF Return, Shape

LEMMA AttemptInv ==
    ASSUME MRInv, NEW p \in Procs, Attempt(p)
    PROVE  MRInv'
<1>1. UNCHANGED <<source, headRef, mr, reviews, queue, checks, target, commands, crashes>>
  BY DEF Attempt
<1>2. mutex' \in Procs \cup {"free"}
  BY ReturnShape DEF Attempt
<1>3. Shape'
  BY <1>1, <1>2, Shapes DEF Shape
<1>4. Rests(p)
  <2>1. CASE Return(p)
    BY <2>1, RestsWhen
  <2>2. CASE Go(p, "dequeue")
    BY <2>2, RestsWhen DEF Unaware
  <2> DEFINE x == [Idle EXCEPT !.pc = "read", !.snap = mr, !.by = "queue"]
  <2>3. CASE proc' = [proc EXCEPT ![p] = x]
    <3>1. x \in Handler /\ x.pc \in Unaware
      BY IdleFacts, Shapes DEF Idle, Handler, Pc, Unaware
    <3> HIDE DEF x
    <3> QED
      BY <2>3, <3>1 DEF Rests
  <2> QED
    BY <2>1, <2>2, <2>3 DEF Attempt
<1> QED
  BY <1>1, <1>3, <1>4, Shapes, RestsInv

LEMMA DequeueInv ==
    ASSUME MRInv, NEW p \in Procs, Dequeue(p)
    PROVE  MRInv'
<1>1. /\ UNCHANGED <<source, headRef, mr, reviews, checks, target, commands, crashes>>
      /\ queue' = "none" /\ Return(p)
  BY DEF Dequeue
<1>2. Shape'
  BY <1>1, Shapes, ReturnShape DEF Shape
<1>3. Rests(p)
  BY <1>1, RestsWhen
<1> QED
  BY <1>1, <1>2, <1>3, Shapes, RestsInv

-----------------------------------------------------------------------------
(* The merge *)

LEMMA ContainedIsHistory == \A n : Contained(n) = InHistory(target, n)
BY DEF Contained, InHistory

LEMMA HistoryLanded ==
    ASSUME NEW t \in Seq(Landing), NEW n \in Nat, NEW h \in InHistory(t, n)
    PROVE  n >= 1 /\ LandedBy(t, h, n)
<1>1. PICK i \in 1..n : t[i].head # "other" /\ h \in Ancestors[t[i].head]
  BY DEF InHistory
<1> QED
  BY <1>1 DEF LandedBy

LEMMA MergeReadInv ==
    ASSUME MRInv, NEW p \in Procs, MergeRead(p)
    PROVE  MRInv'
<1> DEFINE a == [proc[p] EXCEPT !.pc = "gates"]
           b == [a EXCEPT !.tip = Len(target)]
           x == [b EXCEPT !.head = headRef]
<1>1. UNCHANGED <<source, headRef, mr, reviews, queue, checks, target, mutex, commands, crashes>>
  BY DEF MergeRead
<1>2. proc' = [proc EXCEPT ![p] = x]
  BY Shapes DEF MergeRead, Handler
<1>3. Len(target) \in 0..MaxTarget
  BY Shapes, MRBoundsAssumption DEF TargetOK
<1>4. a \in Handler /\ a.pc = "gates"
  BY Shapes DEF Handler, Pc
<1> HIDE DEF a
<1>5. b \in Handler /\ b.pc = "gates" /\ b.tip = Len(target)
  BY <1>3, <1>4 DEF Handler
<1> HIDE DEF b
<1>6. x \in Handler /\ x.pc = "gates" /\ x.tip = Len(target)
  BY <1>5, Shapes DEF Handler
<1> HIDE DEF x
<1>7. HandlerKnows(x, target) /\ x.pc # "review"
  BY <1>3, <1>6 DEF HandlerKnows
<1>8. Shape'
  BY <1>1, Shapes DEF Shape
<1> QED
  BY <1>1, <1>2, <1>6, <1>7, <1>8, Shapes, QuietInv

LEMMA MergeGatesInv ==
    ASSUME MRInv, NEW p \in Procs, MergeGates(p)
    PROVE  MRInv'
<1>1. /\ UNCHANGED <<source, headRef, mr, reviews, queue, checks, target, commands, crashes>>
      /\ proc[p].pc = "gates"
  BY DEF MergeGates, At
<1>2. /\ target \in Seq(Landing) /\ proc[p] \in Handler /\ proc[p].tip \in Nat
      /\ proc[p].tip <= MaxTarget /\ proc[p].tip <= Len(target)
  BY <1>1, Shapes, MRBoundsAssumption DEF TargetOK, Handler, HandlerKnows
<1>3. CASE Return(p)
  <2>1. Shape'
    BY <1>1, <1>3, Shapes, ReturnShape DEF Shape
  <2> QED
    BY <1>1, <1>3, <2>1, Shapes, RestsWhen, RestsInv
<1>4. CASE /\ proc[p].head \in Contained(proc[p].tip) /\ UNCHANGED mutex
           /\ proc' = [proc EXCEPT ![p].pc = "mark", ![p].tip = @ - 1, ![p].by = "push"]
  <2> DEFINE a == [proc[p] EXCEPT !.pc = "mark"]
             b == [a EXCEPT !.tip = proc[p].tip - 1]
             x == [b EXCEPT !.by = "push"]
  <2>1. proc' = [proc EXCEPT ![p] = x]
    BY <1>4, Shapes DEF Handler
  <2>2. proc[p].tip >= 1 /\ LandedBy(target, proc[p].head, proc[p].tip)
    BY <1>2, <1>4, ContainedIsHistory, HistoryLanded
  <2>3. a \in Handler /\ a.pc = "mark" /\ a.head = proc[p].head
    BY <1>2 DEF Handler, Pc
  <2> HIDE DEF a
  <2>4. /\ b \in Handler /\ b.pc = "mark" /\ b.head = proc[p].head
        /\ b.tip = proc[p].tip - 1
    <3>1. proc[p].tip - 1 \in 0..MaxTarget
      BY <1>2, <2>2, MRBoundsAssumption
    <3> QED
      BY <2>3, <3>1 DEF Handler
  <2> HIDE DEF b
  <2>5. /\ x \in Handler /\ x.pc = "mark" /\ x.head = proc[p].head
        /\ x.tip = proc[p].tip - 1
    BY <2>4 DEF Handler
  <2> HIDE DEF x
  <2>6. x.tip + 1 = proc[p].tip /\ x.tip < Len(target)
    BY <1>2, <2>2, <2>5
  <2>7. HandlerKnows(x, target) /\ x.pc # "review"
    BY <2>2, <2>5, <2>6 DEF HandlerKnows
  <2>8. Shape'
    BY <1>1, <1>4, Shapes DEF Shape
  <2> QED
    BY <1>1, <2>1, <2>5, <2>7, <2>8, Shapes, QuietInv
<1>5. CASE /\ proc[p].head \notin Contained(proc[p].tip) /\ UNCHANGED mutex
           /\ MergedCommit(p)
  <2>1. PICK kept \in BOOLEAN : proc' = [proc EXCEPT ![p].pc = "cas", ![p].kept = kept]
    BY <1>5 DEF MergedCommit
  <2> DEFINE a == [proc[p] EXCEPT !.pc = "cas"]
             x == [a EXCEPT !.kept = kept]
  <2>2. proc' = [proc EXCEPT ![p] = x]
    BY <2>1, Shapes DEF Handler
  <2>3. a \in Handler /\ a.pc = "cas" /\ a.head = proc[p].head /\ a.tip = proc[p].tip
    BY <1>2 DEF Handler, Pc
  <2> HIDE DEF a
  <2>4. x \in Handler /\ x.pc = "cas" /\ x.head = proc[p].head /\ x.tip = proc[p].tip
    BY <2>3 DEF Handler
  <2> HIDE DEF x
  <2>5. x.head \notin InHistory(target, x.tip)
    BY <1>5, <2>4, ContainedIsHistory
  <2>6. HandlerKnows(x, target) /\ x.pc # "review"
    BY <1>2, <2>4, <2>5 DEF HandlerKnows
  <2>7. Shape'
    BY <1>1, <1>5, Shapes DEF Shape
  <2> QED
    BY <1>1, <2>2, <2>4, <2>6, <2>7, Shapes, QuietInv
<1> QED
  BY <1>3, <1>4, <1>5 DEF MergeGates

\* One more landing: a merge's is of a head that is not there yet.
LEMMA LandsOnceMore ==
    ASSUME MRInv, NEW x \in Landing, target' = Append(target, x),
           x.by # "push" => x.head \notin InHistory(target, Len(target))
    PROVE  LandsOnce' /\ Grows(target, target')
<1>1. /\ target \in Seq(Landing) /\ target' \in Seq(Landing) /\ Len(target) \in Nat
      /\ Len(target') = Len(target) + 1 /\ target'[Len(target) + 1] = x
      /\ Grows(target, target')
  BY Shapes, GrowsByOne DEF TargetOK
<1>2. SUFFICES ASSUME NEW i \in DOMAIN target', NEW j \in DOMAIN target', i < j,
                      target'[i].kept, target'[i].head # "other", target'[j].by # "push"
               PROVE  target'[j].head \notin Ancestors[target'[i].head]
  BY <1>1 DEF LandsOnce
<1>3. i \in 1..Len(target) /\ target'[i] = target[i]
  BY <1>1, <1>2 DEF Grows
<1>4. CASE j \in 1..Len(target)
  BY <1>1, <1>2, <1>3, <1>4 DEF MRInv, LandsOnce, Grows
<1>5. CASE j = Len(target) + 1
  <2>1. x.head \notin InHistory(target, Len(target))
    BY <1>1, <1>2, <1>5
  <2>2. Ancestors[target[i].head] \subseteq InHistory(target, Len(target))
    BY <1>2, <1>3 DEF InHistory
  <2> QED
    BY <1>1, <1>3, <1>5, <2>1, <2>2
<1> QED
  BY <1>1, <1>4, <1>5

LEMMA UpdateRefInv ==
    ASSUME MRInv, NEW p \in Procs, UpdateRefCAS(p)
    PROVE  MRInv'
<1> DEFINE l == [head |-> proc[p].head, kept |-> proc[p].kept, by |-> proc[p].by]
           x == [proc[p] EXCEPT !.pc = "mark"]
<1>1. /\ UNCHANGED <<source, headRef, mr, reviews, queue, checks, commands, crashes>>
      /\ proc[p].pc = "cas" /\ Len(target) < MaxTarget
  BY DEF UpdateRefCAS, At
<1>2. /\ target \in Seq(Landing) /\ Len(target) \in Nat /\ proc[p] \in Handler
      /\ proc[p].tip \in Nat /\ proc[p].head \in Heads
      /\ proc[p].head \notin InHistory(target, proc[p].tip)
  BY <1>1, Shapes, MRBoundsAssumption DEF TargetOK, Handler, HandlerKnows
<1>3. CASE /\ Len(target) = proc[p].tip
           /\ target' = Append(SubSeq(target, 1, proc[p].tip), l)
           /\ Go(p, "mark") /\ UNCHANGED mutex
  <2>1. target' = Append(target, l)
    BY <1>2, <1>3, WholeSeq
  <2>2. l \in Landing /\ l.head = proc[p].head
    BY <1>2 DEF Landing, Handler
  <2>3. /\ x \in Handler /\ x.pc = "mark" /\ proc' = [proc EXCEPT ![p] = x]
        /\ x.tip = proc[p].tip /\ x.head = proc[p].head
    BY <1>3, GoFacts DEF Pc
  <2> HIDE DEF l, x
  <2>4. /\ target' \in Seq(Landing) /\ Len(target') = Len(target) + 1
        /\ target'[Len(target) + 1] = l
    BY <1>2, <2>1, <2>2, GrowsByOne
  <2>5. TargetOK'
    BY <1>1, <1>2, <2>4, MRBoundsAssumption DEF TargetOK
  <2>6. LandsOnce' /\ Grows(target, target')
    BY <1>2, <1>3, <2>1, <2>2, LandsOnceMore
  <2>7. LandedBy(target', x.head, x.tip + 1)
    <3>1. x.tip + 1 = Len(target) + 1 /\ x.tip + 1 \in 1..(x.tip + 1)
      BY <1>2, <1>3, <2>3
    <3>2. target'[x.tip + 1].head = x.head
      BY <2>2, <2>3, <2>4, <3>1
    <3>3. x.head # "other" /\ x.head \in Ancestors[x.head]
      BY <1>2, <2>3, HeadsAssumption
    <3> QED
      BY <3>1, <3>2, <3>3 DEF LandedBy
  <2>8. HandlerKnows(x, target') /\ x.pc # "review"
    BY <1>2, <1>3, <2>3, <2>4, <2>7 DEF HandlerKnows
  <2>9. MergedIsLanded'
    BY <1>1, <2>5, <2>6, RowStaysLanded
  <2>10. Shape'
    BY <1>1, <1>3, Shapes DEF Shape
  <2>11. commands' \in 0..MaxCommands /\ commands' >= commands
    BY <1>1, Shapes, MRBoundsAssumption
  <2> QED
    BY <1>1, <2>3, <2>5, <2>6, <2>8, <2>9, <2>10, <2>11, Shapes, StepInv
<1>4. CASE Return(p) /\ UNCHANGED target
  <2>1. Shape'
    BY <1>1, <1>4, Shapes, ReturnShape DEF Shape
  <2> QED
    BY <1>1, <1>4, <2>1, Shapes, RestsWhen, RestsInv
<1> QED
  BY <1>3, <1>4 DEF UpdateRefCAS

LEMMA PushTargetInv ==
    ASSUME MRInv, NEW p \in Procs, NEW h \in Heads \cup {"other"}, PushTarget(p, h)
    PROVE  MRInv'
<1> DEFINE l == [head |-> h, kept |-> TRUE, by |-> "push"]
           x == [Idle EXCEPT !.pc = "landed", !.tip = Len(target), !.by = "push"]
<1>1. /\ UNCHANGED <<source, headRef, mr, reviews, queue, checks, mutex, crashes>>
      /\ Len(target) < MaxTarget /\ target' = Append(target, l)
      /\ Arrives /\ proc' = [proc EXCEPT ![p] = x]
  BY DEF PushTarget, Start
<1>2. l \in Landing /\ l.by = "push"
  BY DEF Landing
<1>3. target \in Seq(Landing) /\ Len(target) \in 0..MaxTarget
  BY <1>1, Shapes, MRBoundsAssumption DEF TargetOK
<1>4. x \in Handler /\ x.pc = "landed" /\ x.tip = Len(target)
  BY <1>3, IdleFacts DEF Idle, Handler, Pc
<1> HIDE DEF l, x
<1>5. target' \in Seq(Landing) /\ Len(target') = Len(target) + 1
  BY <1>1, <1>2, <1>3, GrowsByOne
<1>6. TargetOK'
  BY <1>1, <1>3, <1>5, MRBoundsAssumption DEF TargetOK
<1>7. LandsOnce' /\ Grows(target, target')
  BY <1>1, <1>2, LandsOnceMore
<1>8. HandlerKnows(x, target') /\ x.pc # "review"
  BY <1>3, <1>4, <1>5 DEF HandlerKnows
<1>9. MergedIsLanded'
  BY <1>1, <1>6, <1>7, RowStaysLanded
<1>10. Shape'
  BY <1>1, Shapes DEF Shape
<1>11. commands' \in 0..MaxCommands /\ commands' >= commands
  BY <1>1, Shapes, MRBoundsAssumption DEF Arrives
<1> QED
  BY <1>1, <1>4, <1>6, <1>7, <1>8, <1>9, <1>10, <1>11, Shapes, StepInv

\* The row is written for a landing that is on the target.
LEMMA RecordMergedInv ==
    ASSUME MRInv, NEW p \in Procs, RecordMerged(p)
    PROVE  MRInv'
<1> DEFINE n == proc[p].tip + 1
<1>1. /\ UNCHANGED <<source, headRef, reviews, checks, target, commands, crashes>>
      /\ proc[p].pc = "mark" /\ MarkMerged(n, proc[p].head)
  BY DEF RecordMerged, At
<1>2. /\ target \in Seq(Landing) /\ Len(target) \in 0..MaxTarget /\ proc[p] \in Handler
      /\ proc[p].tip \in Nat /\ proc[p].tip < Len(target) /\ proc[p].head \in Heads
      /\ LandedBy(target, proc[p].head, n)
  BY <1>1, Shapes, MRBoundsAssumption DEF TargetOK, Handler, HandlerKnows
<1>3. n \in 1..Len(target) /\ n \in 0..MaxTarget
  BY <1>2, MRBoundsAssumption
<1> HIDE DEF n
<1>4. /\ mr' \in MRRow /\ mr'.state = "merged" /\ mr'.landing = n
      /\ mr'.as = proc[p].head /\ queue' = "none"
  <2> DEFINE a == [mr EXCEPT !.state = "merged"]
             b == [a EXCEPT !.landing = n]
  <2>1. mr' = [b EXCEPT !.as = proc[p].head] /\ queue' = "none"
    BY <1>1, Shapes DEF MarkMerged, MRRow
  <2>2. a \in MRRow /\ a.state = "merged"
    BY Shapes DEF MRRow, MRState
  <2> HIDE DEF a
  <2>3. b \in MRRow /\ b.state = "merged" /\ b.landing = n
    BY <1>3, <2>2 DEF MRRow
  <2> HIDE DEF b
  <2> QED
    BY <1>2, <2>1, <2>3 DEF MRRow
<1>5. MergedIsLanded'
  BY <1>1, <1>2, <1>3, <1>4 DEF MergedIsLanded, LandedBy
<1>6. LandsOnce' /\ TargetOK' /\ Grows(target, target')
  BY <1>1, <1>2, Shapes, GrowsRefl DEF MRInv, LandsOnce, TargetOK
<1>7. commands' \in 0..MaxCommands /\ commands' >= commands
  BY <1>1, Shapes, MRBoundsAssumption
<1>8. CASE Return(p)
  <2>1. Shape'
    BY <1>1, <1>4, <1>8, Shapes, ReturnShape DEF Shape
  <2>2. proc' = [proc EXCEPT ![p] = Idle]
    BY <1>8 DEF Return
  <2>3. HandlerKnows(Idle, target') /\ Idle.pc # "review" /\ Idle \in Handler
    BY IdleFacts
  <2> QED
    BY <1>1, <1>5, <1>6, <1>7, <2>1, <2>2, <2>3, Shapes, StepInv
<1>9. CASE proc' = [proc EXCEPT ![p].pc = "landed", ![p].by = "push"] /\ UNCHANGED mutex
  <2> DEFINE a == [proc[p] EXCEPT !.pc = "landed"]
             x == [a EXCEPT !.by = "push"]
  <2>1. proc' = [proc EXCEPT ![p] = x]
    BY <1>9, Shapes DEF Handler
  <2>2. a \in Handler /\ a.pc = "landed" /\ a.tip = proc[p].tip
    BY <1>2 DEF Handler, Pc
  <2> HIDE DEF a
  <2>3. x \in Handler /\ x.pc = "landed" /\ x.tip = proc[p].tip
    BY <2>2 DEF Handler
  <2> HIDE DEF x
  <2>4. HandlerKnows(x, target') /\ x.pc # "review"
    BY <1>1, <1>2, <2>3 DEF HandlerKnows
  <2>5. Shape'
    BY <1>1, <1>4, <1>9, Shapes DEF Shape
  <2> QED
    BY <1>1, <1>5, <1>6, <1>7, <2>1, <2>3, <2>4, <2>5, Shapes, StepInv
<1> QED
  BY <1>8, <1>9 DEF RecordMerged

LEMMA MarkLandedInv ==
    ASSUME MRInv, NEW p \in Procs, MarkLandedMRs(p)
    PROVE  MRInv'
<1> DEFINE n == proc[p].tip + 1
<1>1. /\ UNCHANGED <<source, headRef, mr, reviews, queue, checks, target, commands, crashes>>
      /\ proc[p].pc = "landed"
  BY DEF MarkLandedMRs, At
<1>2. CASE Return(p)
  <2>1. Shape'
    BY <1>1, <1>2, Shapes, ReturnShape DEF Shape
  <2> QED
    BY <1>1, <1>2, <2>1, Shapes, RestsWhen, RestsInv
<1>3. CASE /\ headRef \in Contained(n) /\ UNCHANGED mutex
           /\ proc' = [proc EXCEPT ![p].pc = "mark", ![p].head = headRef]
  <2> DEFINE a == [proc[p] EXCEPT !.pc = "mark"]
             x == [a EXCEPT !.head = headRef]
  <2>1. proc' = [proc EXCEPT ![p] = x]
    BY <1>3, Shapes DEF Handler
  <2>2. a \in Handler /\ a.pc = "mark" /\ a.tip = proc[p].tip
    BY Shapes DEF Handler, Pc
  <2> HIDE DEF a
  <2>3. x \in Handler /\ x.pc = "mark" /\ x.tip = proc[p].tip /\ x.head = headRef
    BY <2>2, Shapes DEF Handler
  <2> HIDE DEF x
  <2>4. /\ target \in Seq(Landing) /\ x.tip \in Nat /\ x.tip + 1 \in Nat
        /\ x.tip < Len(target) /\ n = x.tip + 1
    BY <1>1, <2>3, Shapes, MRBoundsAssumption DEF TargetOK, Handler, HandlerKnows
  <2>5. LandedBy(target, x.head, x.tip + 1)
    BY <1>3, <2>3, <2>4, ContainedIsHistory, HistoryLanded
  <2>6. HandlerKnows(x, target) /\ x.pc # "review"
    BY <2>3, <2>4, <2>5 DEF HandlerKnows
  <2>7. Shape'
    BY <1>1, <1>3, Shapes DEF Shape
  <2> QED
    BY <1>1, <2>1, <2>3, <2>6, <2>7, Shapes, QuietInv
<1> QED
  BY <1>2, <1>3 DEF MarkLandedMRs

\* Every handler and the mutex gone: what they knew is not needed.
LEMMA RestartInv ==
    ASSUME MRInv, ServerRestart
    PROVE  MRInv'
<1>1. /\ UNCHANGED <<source, headRef, mr, reviews, queue, checks, target, commands>>
      /\ proc' = [p \in Procs |-> Idle] /\ mutex' = "free" /\ crashes' \in 0..MaxCrashes
  <2>1. crashes \in 0..MaxCrashes
    BY Shapes DEF Shape
  <2>2. crashes < MaxCrashes /\ crashes' = crashes + 1
    BY DEF ServerRestart
  <2>3. crashes' \in 0..MaxCrashes
    BY <2>1, <2>2, MRBoundsAssumption
  <2> QED
    BY <2>3 DEF ServerRestart
<1>2. /\ proc' \in [Procs -> Handler]
      /\ \A p \in Procs : proc'[p] = Idle /\ proc'[p].pc = "idle"
  BY <1>1, IdleFacts
<1>3. HandlersKnow'
  BY <1>2, IdleFacts DEF HandlersKnow
<1>4. ReviewsCounted'
  <2>1. Reviewing' = {}
    BY <1>2 DEF Reviewing
  <2>2. Len(reviews) <= commands /\ Len(reviews) \in Nat
    <3>1. /\ IsFiniteSet(Reviewing) /\ Len(reviews) + Cardinality(Reviewing) <= commands
      BY DEF MRInv, ReviewsCounted
    <3> HIDE DEF Reviewing
    <3>2. Cardinality(Reviewing) \in Nat /\ Len(reviews) \in Nat /\ commands \in Nat
      BY <3>1, Shapes, FS_CardinalityType
    <3> QED
      BY <3>1, <3>2
  <2> HIDE DEF Reviewing
  <2> QED
    BY <1>1, <2>1, <2>2, FS_EmptySet DEF ReviewsCounted
<1>5. MRTypeOK'
  BY <1>1, <1>2 DEF MRInv, MRTypeOK
<1>6. MergedIsLanded' /\ LandsOnce'
  BY <1>1 DEF MRInv, MergedIsLanded, LandsOnce
<1> QED
  BY <1>3, <1>4, <1>5, <1>6 DEF MRInv

-----------------------------------------------------------------------------
(* The theorems *)

LEMMA InitMR == Init => MRInv
<1> SUFFICES ASSUME Init PROVE MRInv
  OBVIOUS
<1>1. MRTypeOK
  <2>1. source \in Heads \cup {"gone"} /\ headRef \in Heads
    BY HeadsAssumption DEF Init
  <2>2. mr \in MRRow /\ queue = "none" /\ mutex = "free"
    BY IdleFacts DEF Init
  <2>3. reviews = <<>> /\ target = <<>> /\ commands = 0 /\ crashes = 0
    BY DEF Init
  <2>4. checks \in [Heads -> {"", "success", "failure"}]
    <3>1. checks = [h \in Heads |-> ""]
      BY DEF Init
    <3> QED
      BY <3>1
  <2>5. proc \in [Procs -> Handler]
    <3>1. proc = [p \in Procs |-> Idle]
      BY DEF Init
    <3> QED
      BY <3>1, IdleFacts
  <2>6. /\ reviews \in Seq(Review) /\ Len(reviews) <= MaxCommands
        /\ target \in Seq(Landing) /\ Len(target) <= MaxTarget
        /\ commands \in 0..MaxCommands /\ crashes \in 0..MaxCrashes
    BY <2>3, MRBoundsAssumption
  <2> QED
    BY <2>1, <2>2, <2>4, <2>5, <2>6 DEF MRTypeOK
<1>2. \A p \in Procs : proc[p] = Idle
  BY DEF Init
<1>3. HandlersKnow
  BY <1>2, IdleFacts DEF HandlersKnow
<1>4. ReviewsCounted
  <2>1. Reviewing = {} /\ Len(reviews) = 0 /\ commands = 0
    BY <1>2, IdleFacts DEF Init, Reviewing
  <2> HIDE DEF Reviewing
  <2> QED
    BY <2>1, FS_EmptySet DEF ReviewsCounted
<1>5. MergedIsLanded /\ LandsOnce
  <2>1. mr = FirstRow /\ target = <<>>
    BY DEF Init
  <2>2. mr.state = "open" /\ DOMAIN target = {}
    BY <2>1 DEF FirstRow
  <2> QED
    BY <2>2 DEF MergedIsLanded, LandsOnce
<1> QED
  BY <1>1, <1>3, <1>4, <1>5 DEF MRInv

LEMMA MRStep == MRInv /\ [Next]_vars => MRInv'
<1> SUFFICES ASSUME MRInv, [Next]_vars PROVE MRInv'
  OBVIOUS
<1>1. ASSUME NEW p \in Procs, Commands(p) PROVE MRInv'
  BY <1>1, PushInv, ReviewStartInv, SetMRDraftInv, ReportStatusInv, CommandStartInv,
     PushTargetInv DEF Commands
<1>2. ASSUME NEW p \in Procs, Steps(p) PROVE MRInv'
  BY <1>2, PushListInv, PushGoneInv, PushFetchInv, PushRecordInv, PushReopenInv,
     AddMRReviewInv, CloseInv, QueueMergeInv, AttemptInv, DequeueInv, MergeReadInv,
     MergeGatesInv, UpdateRefInv, RecordMergedInv, MarkLandedInv DEF Steps
<1>3. CASE CancelQueuedMerge \/ QueuerLapses
  BY <1>3, QueueRowInv
<1>4. CASE ServerRestart
  BY <1>4, RestartInv
<1>5. CASE UNCHANGED vars
  <2>1. UNCHANGED <<source, headRef, mr, reviews, queue, checks, target, mutex, proc,
                    commands, crashes>>
    BY <1>5 DEF vars
  <2>2. Shape'
    BY <2>1, Shapes DEF Shape
  <2> QED
    BY <2>1, <2>2, NoHandlerInv
<1> QED
  BY <1>1, <1>2, <1>3, <1>4, <1>5 DEF Next

LEMMA MRInvariance == Spec => []MRInv
<1> QED
  BY InitMR, MRStep, PTL DEF Spec

\* The rows, refs and handlers of a merge request are what mrs.go and mr.go
\* say they are, a landing counted among those of the target.
THEOREM MRTypeCorrect == Spec => []MRTypeOK
<1>1. MRInv => MRTypeOK
  BY DEF MRInv
<1> QED
  BY <1>1, MRInvariance, PTL

\* No refused compare-and-swap, restart or race of merges, pushes and closes
\* leaves a row that says merged for a commit the target never got (mergeMR,
\* MarkLandedMRs, recordAlreadyMerged).
THEOREM MergedRowsAreLanded == Spec => []MergedIsLanded
<1>1. MRInv => MergedIsLanded
  BY DEF MRInv
<1> QED
  BY <1>1, MRInvariance, PTL

\* However many merges run at once, by hand and by the queue, and however often
\* they are retried, none puts a head on the target that a merge or a push
\* which kept its history has put there (mergeMR, UpdateRefCAS).
THEOREM HeadsLandOnce == Spec => []LandsOnce
<1>1. MRInv => LandsOnce
  BY DEF MRInv
<1> QED
  BY <1>1, MRInvariance, PTL

LEMMA AppendKeepsPrefix ==
    ASSUME NEW s \in Seq(Landing), NEW x \in Landing
    PROVE  Len(Append(s, x)) >= Len(s) /\ SubSeq(Append(s, x), 1, Len(s)) = s
OBVIOUS

\* The target changes by one landing at its end, if at all.
LEMMA TargetStep ==
    ASSUME MRInv, [Next]_vars
    PROVE  target' = target \/ \E l \in Landing : target' = Append(target, l)
<1>1. ASSUME NEW p \in Procs, UpdateRefCAS(p)
      PROVE  target' = target \/ \E l \in Landing : target' = Append(target, l)
  <2> DEFINE l == [head |-> proc[p].head, kept |-> proc[p].kept, by |-> proc[p].by]
  <2>1. l \in Landing /\ target \in Seq(Landing)
    BY Shapes DEF Landing, Handler, TargetOK
  <2>2. \/ target' = target
        \/ Len(target) = proc[p].tip /\ target' = Append(SubSeq(target, 1, proc[p].tip), l)
    BY <1>1 DEF UpdateRefCAS
  <2> HIDE DEF l
  <2> QED
    BY <2>1, <2>2, WholeSeq
<1>2. ASSUME NEW p \in Procs, NEW h \in Heads \cup {"other"}, PushTarget(p, h)
      PROVE  \E l \in Landing : target' = Append(target, l)
  BY <1>2 DEF PushTarget, Landing
<1>3. ASSUME NEW p \in Procs, Commands(p)
      PROVE  target' = target \/ \E l \in Landing : target' = Append(target, l)
  BY <1>2, <1>3 DEF Commands, Push, ReviewStart, SetMRDraft, ReportStatus, CloseStart,
     QueueMergeStart, MergeStart
<1>4. ASSUME NEW p \in Procs, Steps(p)
      PROVE  target' = target \/ \E l \in Landing : target' = Append(target, l)
  BY <1>1, <1>4 DEF Steps, PushList, PushGone, PushFetch, PushRecord, PushReopen,
     AddMRReview, Close, QueueMerge, Attempt, Dequeue, MergeRead, MergeGates,
     RecordMerged, MarkLandedMRs
<1>5. CASE CancelQueuedMerge \/ QueuerLapses \/ ServerRestart \/ UNCHANGED vars
  BY <1>5 DEF CancelQueuedMerge, QueuerLapses, ServerRestart, vars
<1> QED
  BY <1>3, <1>4, <1>5 DEF Next

\* No step takes away from the target branch what was pushed or merged there,
\* whatever a merge read before it writes (UpdateRefCAS).
THEOREM NothingIsDiscarded == Spec => TargetOnlyGrows
<1>1. MRInv /\ [Next]_vars =>
        [/\ Len(target') >= Len(target)
         /\ SubSeq(target', 1, Len(target)) = target]_vars
  <2> SUFFICES ASSUME MRInv, [Next]_vars
               PROVE  Len(target') >= Len(target) /\ SubSeq(target', 1, Len(target)) = target
    OBVIOUS
  <2>1. target \in Seq(Landing)
    BY Shapes DEF TargetOK
  <2>2. CASE target' = target
    BY <2>1, <2>2, WholeSeq
  <2>3. CASE \E l \in Landing : target' = Append(target, l)
    BY <2>1, <2>3, AppendKeepsPrefix
  <2> QED
    BY <2>2, <2>3, TargetStep
<1> QED
  BY <1>1, MRInvariance, PTL DEF Spec, TargetOnlyGrows
=============================================================================
