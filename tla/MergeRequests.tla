--------------------------- MODULE MergeRequests ---------------------------
(***************************************************************************)
(* One merge request of gitbay and the target branch it merges into: the   *)
(* row and its reviews (internal/store/mrs.go), the commands on it         *)
(* (internal/control/mr.go), the merge queue (internal/control/            *)
(* mergequeue.go, internal/store/mergequeue.go) and the work that follows  *)
(* a push (internal/control/refsupdated.go).                               *)
(*                                                                         *)
(* A command or a post-receive call runs in a process, one database        *)
(* statement or git ref operation per step, on the row it read when it     *)
(* began ("snap" below). The target branch is the sequence of what landed  *)
(* on it; a commit the server makes for a merge either keeps the merge     *)
(* request's head in the history (fast-forward, merge commit) or rewrites  *)
(* it (squash, rebase).                                                    *)
(***************************************************************************)
EXTENDS Integers, Sequences, FiniteSets

CONSTANTS
    Heads,          \* commits the source branch is pushed to
    FirstHead,      \* the head the merge request was opened with
    Ancestors,      \* head -> the heads in its history, itself included
    SameDiff,       \* pairs of heads that propose the same change
    Reviewers,      \* writers other than the author, whose verdicts count
    Required,       \* require_approvals
    RequireChecks,  \* require_checks
    HasCI,          \* the heads carry a CI configuration with a push job
    Procs,          \* handlers that may run at once
    MaxTarget,      \* bound: landings on the target branch
    MaxCommands,    \* bound: commands, reports and pushes that arrive
    MaxCrashes      \* bound: restarts of the server

ASSUME HeadsAssumption ==
    /\ FirstHead \in Heads
    /\ "other" \notin Heads
    /\ Ancestors \in [Heads -> SUBSET Heads]
    /\ \A h \in Heads : h \in Ancestors[h]
    /\ SameDiff \subseteq Heads \X Heads
    /\ RequireChecks \in BOOLEAN
    /\ HasCI \in BOOLEAN

ASSUME MRBoundsAssumption ==
    /\ Required \in Nat
    /\ MaxTarget \in Nat
    /\ MaxCommands \in Nat
    /\ MaxCrashes \in Nat

VARIABLES
    source,    \* the source branch's tip, "gone" once deleted
    headRef,   \* refs/merge-requests/N/head in the target repository
    mr,        \* the merge_requests row
    reviews,   \* mr_reviews, in order
    queue,     \* the mr_merge_queue row: none, valid, or its queuer lapsed
    checks,    \* the combined status of each head
    target,    \* what landed on the target branch, in order
    mutex,     \* mergeQueueMu: the process holding it
    proc,      \* what each handler is doing
    commands, crashes  \* counters for the bounds

vars == <<source, headRef, mr, reviews, queue, checks, target, mutex, proc,
          commands, crashes>>

-----------------------------------------------------------------------------
(* The shape of the state *)

MRState == {"open", "source_gone", "merged", "closed"}
\* "landing" and "as" say by which point of the target's history, and as
\* which head, a merged one landed; they stand for merged_base and merged_sha.
MRRow == [state: MRState, head: Heads, draft: BOOLEAN,
          landing: 0..MaxTarget, as: Heads]
Verdict == {"approve", "request_changes"}
Review == [by: Reviewers, verdict: Verdict, head: Heads, stale: BOOLEAN]
Landing == [head: Heads \cup {"other"}, kept: BOOLEAN,
            by: {"push", "merge", "queue"}]

Pc == {"idle", "list", "gone", "fetch", "record", "reopen", "review", "close",
       "enqueue", "attempt", "dequeue", "read", "gates", "cas", "mark",
       "landed"}

\* A handler: "new" and "writer" are a push's tip and whether its pusher can
\* write to the target; "snap" and "queued" the row it read; "tip" and
\* "head" the refs a merge read; "by" on whose behalf it merges.
Handler == [pc: Pc, new: Heads \cup {"gone"}, writer: BOOLEAN, snap: MRRow,
            queued: BOOLEAN, tip: 0..MaxTarget, head: Heads, kept: BOOLEAN,
            by: {"push", "merge", "queue"}, who: Reviewers \cup {"nobody"},
            verdict: Verdict]

FirstRow == [state |-> "open", head |-> FirstHead, draft |-> FALSE,
             landing |-> 0, as |-> FirstHead]
Idle == [pc |-> "idle", new |-> FirstHead, writer |-> TRUE, snap |-> FirstRow,
         queued |-> FALSE, tip |-> 0, head |-> FirstHead, kept |-> TRUE,
         by |-> "merge", who |-> "nobody", verdict |-> "approve"]

MRTypeOK ==
    /\ source \in Heads \cup {"gone"}
    /\ headRef \in Heads
    /\ mr \in MRRow
    /\ reviews \in Seq(Review) /\ Len(reviews) <= MaxCommands
    /\ queue \in {"none", "valid", "lapsed"}
    /\ checks \in [Heads -> {"", "success", "failure"}]
    /\ target \in Seq(Landing) /\ Len(target) <= MaxTarget
    /\ mutex \in Procs \cup {"free"}
    /\ proc \in [Procs -> Handler]
    /\ commands \in 0..MaxCommands
    /\ crashes \in 0..MaxCrashes

Init ==
    /\ source = FirstHead
    /\ headRef = FirstHead
    /\ mr = FirstRow
    /\ reviews = <<>>
    /\ queue = "none"
    /\ checks = [h \in Heads |-> ""]
    /\ target = <<>>
    /\ mutex = "free"
    /\ proc = [p \in Procs |-> Idle]
    /\ commands = 0
    /\ crashes = 0

Arrives == commands < MaxCommands /\ commands' = commands + 1

Start(p, handler) ==
    /\ Arrives
    /\ proc[p].pc = "idle"
    /\ proc' = [proc EXCEPT ![p] = handler]
At(p, pc) == proc[p].pc = pc
Go(p, pc) == proc' = [proc EXCEPT ![p].pc = pc]

\* The handler returns; a queued attempt unlocks mergeQueueMu.
Return(p) ==
    /\ proc' = [proc EXCEPT ![p] = Idle]
    /\ mutex' = IF mutex = p THEN "free" ELSE mutex

-----------------------------------------------------------------------------
(* The store *)

\* UpdateMRHead: the fresh reviews of the head the row has follow it when
\* the new one proposes the same change; every other review goes stale.
UpdateMRHead(h, sameDiff) ==
    /\ mr' = [mr EXCEPT !.head = h]
    /\ reviews' = [n \in DOMAIN reviews |->
         LET r == reviews[n]
             follows == sameDiff /\ ~r.stale /\ r.head = mr.head
         IN  IF follows THEN [r EXCEPT !.head = h]
             ELSE [r EXCEPT !.stale = @ \/ r.head # h]]

\* SetMRState is unconditional and clears the stamp of a merge.
SetMRState(s) == mr' = [mr EXCEPT !.state = s, !.landing = 0]

\* A plausible mistake: the landing is counted one too far.
MarkMergedNext(n, h) ==
    /\ mr' = [mr EXCEPT !.state = "merged", !.landing = n + 1, !.as = h]
    /\ queue' = "none"

\* MarkMerged and MarkClosed are unconditional; the row's trigger takes it
\* off the queue.
MarkMerged(n, h) ==
    /\ mr' = [mr EXCEPT !.state = "merged", !.landing = n, !.as = h]
    /\ queue' = "none"
MarkClosed ==
    /\ mr' = [mr EXCEPT !.state = "closed"]
    /\ queue' = "none"

\* The heads in the history of the first n landings.
Contained(n) ==
    UNION {Ancestors[target[i].head] :
             i \in {i \in 1..n : target[i].kept /\ target[i].head # "other"}}

-----------------------------------------------------------------------------
(* A push to the source branch, and the work that follows it *)

\* git has moved the branch; RefsUpdated is about to run.
Push(p, h, writer) ==
    /\ h # source
    /\ source' = h
    /\ Start(p, [Idle EXCEPT !.pc = "list", !.new = h, !.writer = writer])
    /\ UNCHANGED <<headRef, mr, reviews, queue, checks, target, mutex, crashes>>

\* OpenMRsBySource.
PushList(p) ==
    /\ At(p, "list")
    /\ IF mr.state \in {"open", "source_gone"}
       THEN proc' = [proc EXCEPT
              ![p].pc = IF proc[p].new = "gone" THEN "gone" ELSE "fetch",
              ![p].snap = mr, ![p].queued = queue # "none"]
       ELSE proc' = [proc EXCEPT ![p] = Idle]
    /\ UNCHANGED <<source, headRef, mr, reviews, queue, checks, target, mutex,
                   commands, crashes>>

\* What is left of the push once the row is written: a queued merge is
\* tried or taken off.
ThenAttempt(p) ==
    IF proc[p].queued THEN Go(p, "attempt") ELSE proc' = [proc EXCEPT ![p] = Idle]

\* The branch was deleted.
PushGone(p) ==
    /\ At(p, "gone")
    /\ IF proc[p].snap.state = "open" THEN SetMRState("source_gone")
       ELSE UNCHANGED mr
    /\ ThenAttempt(p)
    /\ UNCHANGED <<source, headRef, reviews, queue, checks, target, mutex,
                   commands, crashes>>

\* FetchInto moves the merge request's head ref to what this push brought,
\* or fails and the merge request is left behind.
PushFetch(p) ==
    /\ At(p, "fetch")
    /\ \/ headRef' = proc[p].new /\ Go(p, "record")
       \/ proc' = [proc EXCEPT ![p] = Idle] /\ UNCHANGED headRef
    /\ UNCHANGED <<source, mr, reviews, queue, checks, target, mutex, commands,
                   crashes>>

\* sameChange compares with the head the push read, UpdateMRHead moves the
\* reviews of the head the row has.
PushRecord(p) ==
    LET h == proc[p].new
        was == proc[p].snap
    IN  /\ At(p, "record")
        /\ UpdateMRHead(h, was.head # h /\ <<was.head, h>> \in SameDiff)
        /\ IF was.state = "source_gone" THEN Go(p, "reopen") ELSE ThenAttempt(p)
        /\ UNCHANGED <<source, headRef, queue, checks, target, mutex, commands,
                       crashes>>

\* The branch came back.
PushReopen(p) ==
    /\ At(p, "reopen")
    /\ SetMRState("open")
    /\ ThenAttempt(p)
    /\ UNCHANGED <<source, headRef, reviews, queue, checks, target, mutex,
                   commands, crashes>>

-----------------------------------------------------------------------------
(* Commands on the merge request *)

\* mr review: the row is read, then the review is inserted against the head
\* it had.
ReviewStart(p, u, v) ==
    /\ mr.state = "open"
    /\ Start(p, [Idle EXCEPT !.pc = "review", !.snap = mr, !.who = u,
                             !.verdict = v])
    /\ UNCHANGED <<source, headRef, mr, reviews, queue, checks, target, mutex, crashes>>

AddMRReview(p) ==
    /\ At(p, "review")
    /\ reviews' = Append(reviews,
                    [by |-> proc[p].who, verdict |-> proc[p].verdict,
                     head |-> proc[p].snap.head, stale |-> FALSE])
    /\ Go(p, "attempt")
    /\ UNCHANGED <<source, headRef, mr, queue, checks, target, mutex, commands,
                   crashes>>

\* mr draft and mr ready; ready is a reason to try a queued merge.
SetMRDraft(p, draft) ==
    /\ mr.state \in {"open", "source_gone"}
    /\ mr.draft # draft
    /\ mr' = [mr EXCEPT !.draft = draft]
    /\ IF draft THEN Arrives /\ UNCHANGED proc ELSE Start(p, [Idle EXCEPT !.pc = "attempt"])
    /\ UNCHANGED <<source, headRef, reviews, queue, checks, target, mutex, crashes>>

\* A status is reported on h: TryQueuedMergesAt tries the merge queued at
\* that head.
ReportStatus(p, h, state) ==
    /\ checks[h] # state
    /\ checks' = [checks EXCEPT ![h] = state]
    /\ IF queue # "none" /\ mr.state = "open" /\ mr.head = h
       THEN Start(p, [Idle EXCEPT !.pc = "attempt"])
       ELSE Arrives /\ UNCHANGED proc
    /\ UNCHANGED <<source, headRef, mr, reviews, queue, target, mutex, crashes>>

\* mr close.
CloseStart(p) ==
    /\ mr.state \in {"open", "source_gone"}
    /\ Start(p, [Idle EXCEPT !.pc = "close"])
    /\ UNCHANGED <<source, headRef, mr, reviews, queue, checks, target, mutex, crashes>>

Close(p) ==
    /\ At(p, "close")
    /\ MarkClosed
    /\ proc' = [proc EXCEPT ![p] = Idle]
    /\ UNCHANGED <<source, headRef, reviews, checks, target, mutex, commands,
                   crashes>>

\* mr merge --when-ready: the row is read, then queued, then tried.
QueueMergeStart(p) ==
    /\ mr.state = "open"
    /\ Start(p, [Idle EXCEPT !.pc = "enqueue"])
    /\ UNCHANGED <<source, headRef, mr, reviews, queue, checks, target, mutex, crashes>>

QueueMerge(p) ==
    /\ At(p, "enqueue")
    /\ queue' = "valid"
    /\ Go(p, "attempt")
    /\ UNCHANGED <<source, headRef, mr, reviews, checks, target, mutex, commands,
                   crashes>>

\* mr merge --cancel.
CancelQueuedMerge ==
    /\ queue # "none"
    /\ queue' = "none"
    /\ UNCHANGED <<source, headRef, mr, reviews, checks, target, mutex, proc,
                   commands, crashes>>

\* The queuer loses write access or the account, or the key or token the
\* merge was queued with goes.
QueuerLapses ==
    /\ queue = "valid"
    /\ queue' = "lapsed"
    /\ UNCHANGED <<source, headRef, mr, reviews, checks, target, mutex, proc,
                   commands, crashes>>

-----------------------------------------------------------------------------
(* The merge queue *)

\* TryQueuedMerge and QueuedMergePushed lock mergeQueueMu and read the row
\* again: nothing queued ends it; a push by someone who cannot merge, a
\* merge request no longer open and a queuer who lapsed take it off; what is
\* left is merged as the queuer.
Attempt(p) ==
    /\ At(p, "attempt")
    /\ mutex = "free"
    /\ \/ /\ queue = "none"
          /\ Return(p)
       \/ /\ queue # "none"
          /\ ~proc[p].writer \/ mr.state # "open" \/ queue = "lapsed"
          /\ Go(p, "dequeue") /\ mutex' = p
       \/ /\ queue = "valid" /\ proc[p].writer /\ mr.state = "open"
          /\ proc' = [proc EXCEPT ![p] = [Idle EXCEPT !.pc = "read",
                                            !.snap = mr, !.by = "queue"]]
          /\ mutex' = p
    /\ UNCHANGED <<source, headRef, mr, reviews, queue, checks, target, commands,
                   crashes>>

Dequeue(p) ==
    /\ At(p, "dequeue")
    /\ queue' = "none"
    /\ Return(p)
    /\ UNCHANGED <<source, headRef, mr, reviews, checks, target, commands,
                   crashes>>

-----------------------------------------------------------------------------
(* The merge *)

\* mr merge by a writer.
MergeStart(p) ==
    /\ mr.state \in {"open", "source_gone"}
    /\ Start(p, [Idle EXCEPT !.pc = "read", !.snap = mr, !.by = "merge"])
    /\ UNCHANGED <<source, headRef, mr, reviews, queue, checks, target, mutex, crashes>>

\* mergeMR resolves the target branch and the head ref.
MergeRead(p) ==
    /\ At(p, "read")
    /\ proc' = [proc EXCEPT ![p].pc = "gates", ![p].tip = Len(target),
                            ![p].head = headRef]
    /\ UNCHANGED <<source, headRef, mr, reviews, queue, checks, target, mutex,
                   commands, crashes>>

\* The latest fresh review of each reviewer is their stance.
Stance(u) ==
    LET fresh == {n \in DOMAIN reviews : reviews[n].by = u /\ ~reviews[n].stale}
    IN  IF fresh = {} THEN "none"
        ELSE reviews[CHOOSE n \in fresh : \A m \in fresh : m <= n].verdict

ApprovalsGate ==
    Required > 0 =>
        /\ \A u \in Reviewers : Stance(u) # "request_changes"
        /\ Cardinality({u \in Reviewers : Stance(u) = "approve"}) >= Required

\* Something was going to report on the head: it has a CI configuration, or
\* a status was ever recorded in the repository.
ChecksExpected == HasCI \/ \E h \in Heads : checks[h] # ""

ChecksGate(h) ==
    RequireChecks =>
        checks[h] = "success" \/ (checks[h] = "" /\ ~ChecksExpected)

\* MergeGates, with the draft mark of the row the handler read.
GatesMet(p) ==
    ~proc[p].snap.draft /\ ApprovalsGate /\ ChecksGate(proc[p].head)

\* chooseStrategy and mergedCommit: a fast-forward or a merge commit keeps
\* the head, a squash or a rebase rewrites it.
MergedCommit(p) ==
    \E kept \in BOOLEAN :
        proc' = [proc EXCEPT ![p].pc = "cas", ![p].kept = kept]

\* A plausible mistake: a head that is on the target already is merged again.
MergeGatesAgain(p) ==
    /\ At(p, "gates")
    /\ \/ Return(p)
       \/ /\ GatesMet(p)
          /\ MergedCommit(p)
          /\ UNCHANGED mutex
    /\ UNCHANGED <<source, headRef, mr, reviews, queue, checks, target,
                   commands, crashes>>

\* mergeMR: every gate met, a head that is on the target already is
\* recorded, and otherwise the commit to move the target to is made, which
\* git, the signature policy or the merger's identity may refuse.
MergeGates(p) ==
    LET landed == proc[p].head \in Contained(proc[p].tip)
    IN  /\ At(p, "gates")
        /\ \/ /\ ~GatesMet(p) \/ ~landed
              /\ Return(p)
           \/ /\ GatesMet(p) /\ landed
              /\ proc' = [proc EXCEPT ![p].pc = "mark", ![p].tip = @ - 1,
                                      ![p].by = "push"]
              /\ UNCHANGED mutex
           \/ /\ GatesMet(p) /\ ~landed
              /\ MergedCommit(p)
              /\ UNCHANGED mutex
        /\ UNCHANGED <<source, headRef, mr, reviews, queue, checks, target,
                       commands, crashes>>

\* A plausible mistake: the target is written whatever it has become.
UpdateRefUnchecked(p) ==
    /\ At(p, "cas")
    /\ Len(target) < MaxTarget
    /\ target' = Append(SubSeq(target, 1, proc[p].tip),
                        [head |-> proc[p].head, kept |-> proc[p].kept,
                         by |-> proc[p].by])
    /\ Go(p, "mark") /\ UNCHANGED mutex
    /\ UNCHANGED <<source, headRef, mr, reviews, queue, checks, commands, crashes>>

\* A plausible mistake: the refusal of the compare-and-swap is ignored.
UpdateRefIgnored(p) ==
    /\ At(p, "cas")
    /\ Len(target) < MaxTarget
    /\ IF Len(target) = proc[p].tip
       THEN target' = Append(target,
                             [head |-> proc[p].head, kept |-> proc[p].kept,
                              by |-> proc[p].by])
       ELSE UNCHANGED target
    /\ Go(p, "mark") /\ UNCHANGED mutex
    /\ UNCHANGED <<source, headRef, mr, reviews, queue, checks, commands,
                   crashes>>

\* UpdateRefCAS moves the target from what the merge read to the new commit,
\* or refuses because it has moved.
UpdateRefCAS(p) ==
    /\ At(p, "cas")
    /\ Len(target) < MaxTarget
    /\ \/ /\ Len(target) = proc[p].tip
          /\ target' = Append(SubSeq(target, 1, proc[p].tip),
                              [head |-> proc[p].head, kept |-> proc[p].kept,
                               by |-> proc[p].by])
          /\ Go(p, "mark") /\ UNCHANGED mutex
       \/ /\ Len(target) # proc[p].tip
          /\ Return(p)
          /\ UNCHANGED target
    /\ UNCHANGED <<source, headRef, mr, reviews, queue, checks, commands, crashes>>

\* MarkMerged in mergeMR, which goes on to MarkLandedMRs, and at the end of
\* recordAlreadyMerged and MarkLandedMRs (by "push": not this merge's doing).
RecordMerged(p) ==
    /\ At(p, "mark")
    /\ MarkMerged(proc[p].tip + 1, proc[p].head)
    /\ \/ /\ proc[p].by = "push"
          /\ Return(p)
       \/ /\ proc[p].by # "push"
          /\ proc' = [proc EXCEPT ![p].pc = "landed", ![p].by = "push"]
          /\ UNCHANGED mutex
    /\ UNCHANGED <<source, headRef, reviews, checks, target, commands, crashes>>

-----------------------------------------------------------------------------
(* Pushes to the target branch *)

\* A push brings other work, or a head of the source branch merged by hand.
PushTarget(p, h) ==
    /\ Len(target) < MaxTarget
    /\ target' = Append(target, [head |-> h, kept |-> TRUE, by |-> "push"])
    /\ Start(p, [Idle EXCEPT !.pc = "landed", !.tip = Len(target), !.by = "push"])
    /\ UNCHANGED <<source, headRef, mr, reviews, queue, checks, mutex, crashes>>

\* MarkLandedMRs: the merge request's head came with this push or merge, and
\* was not on the target before it. After a merge the row is merged already,
\* unless a push to the source has just set it open again.
MarkLandedMRs(p) ==
    LET n == proc[p].tip + 1
    IN  /\ At(p, "landed")
        /\ IF /\ mr.state \in {"open", "source_gone"}
              /\ headRef \in Contained(n) \ Contained(n - 1)
           THEN /\ proc' = [proc EXCEPT ![p].pc = "mark", ![p].head = headRef]
                /\ UNCHANGED mutex
           ELSE Return(p)
        /\ UNCHANGED <<source, headRef, mr, reviews, queue, checks, target,
                       commands, crashes>>

\* Every handler in progress is lost, with the mutex.
ServerRestart ==
    /\ crashes < MaxCrashes
    /\ crashes' = crashes + 1
    /\ proc' = [p \in Procs |-> Idle]
    /\ mutex' = "free"
    /\ UNCHANGED <<source, headRef, mr, reviews, queue, checks, target, commands>>

Commands(p) ==
    \/ \E h \in Heads \cup {"gone"}, writer \in BOOLEAN : Push(p, h, writer)
    \/ \E u \in Reviewers, v \in Verdict : ReviewStart(p, u, v)
    \/ \E draft \in BOOLEAN : SetMRDraft(p, draft)
    \/ \E h \in Heads, s \in {"success", "failure"} : ReportStatus(p, h, s)
    \/ CloseStart(p) \/ QueueMergeStart(p) \/ MergeStart(p)
    \/ \E h \in Heads \cup {"other"} : PushTarget(p, h)

Steps(p) ==
    \/ PushList(p) \/ PushGone(p) \/ PushFetch(p) \/ PushRecord(p)
    \/ PushReopen(p) \/ AddMRReview(p) \/ Close(p) \/ QueueMerge(p)
    \/ Attempt(p) \/ Dequeue(p) \/ MergeRead(p) \/ MergeGates(p)
    \/ UpdateRefCAS(p) \/ RecordMerged(p) \/ MarkLandedMRs(p)

Next ==
    \/ \E p \in Procs : Commands(p) \/ Steps(p)
    \/ CancelQueuedMerge
    \/ QueuerLapses
    \/ ServerRestart

Spec == Init /\ [][Next]_vars

-----------------------------------------------------------------------------
(* Properties *)

\* A merge never discards what somebody pushed to the target between its
\* read and its write, whoever else merges at the same time: the target only
\* ever grows (UpdateRefCAS).
TargetOnlyGrows ==
    [][/\ Len(target') >= Len(target)
       /\ SubSeq(target', 1, Len(target)) = target]_vars

\* A merge request recorded as merged is on the target: after a refused
\* compare-and-swap, a restart or a race of two merges, no row says merged
\* for a commit that never landed.
MergedIsLanded ==
    mr.state = "merged" =>
        /\ mr.landing \in DOMAIN target
        /\ \E i \in 1..mr.landing :
             target[i].head # "other" /\ mr.as \in Ancestors[target[i].head]

\* mr merge, the queue and a retry after a restart never put one head on the
\* target twice by a merge that keeps it: whoever comes second finds it there
\* and records it (recordAlreadyMerged).
LandsOnce ==
    \A i, j \in DOMAIN target :
        (/\ i < j
         /\ target[i].kept /\ target[i].head # "other"
         /\ target[j].by # "push")
        => target[j].head \notin Ancestors[target[i].head]

\* "N fresh approvals": what mr merge or the queue lands was approved by the
\* required number of reviewers, at that head or at one that proposes the
\* same change.
MergedWasApproved ==
    \A i \in DOMAIN target : target[i].by # "push" =>
        Cardinality({u \in Reviewers : \E n \in DOMAIN reviews :
            /\ reviews[n].by = u /\ reviews[n].verdict = "approve"
            /\ \/ reviews[n].head = target[i].head
               \/ <<reviews[n].head, target[i].head>> \in SameDiff}) >= Required

=============================================================================
