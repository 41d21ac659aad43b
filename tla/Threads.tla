------------------------------ MODULE Threads ------------------------------
(***************************************************************************)
(* Review threads of one merge request: comments on lines of its diff,     *)
(* unsubmitted (pending) review batches, replies, resolution, and the      *)
(* suggestions a reader of a thread can commit to the source branch.       *)
(* Source: internal/control/diffcomment.go, suggestion.go, runMRReview of  *)
(* mr.go, and internal/store/diffcomments.go.                              *)
(*                                                                         *)
(* A command that writes one row is one action.  Applying a suggestion is  *)
(* three: the reads that end with the new commit object, the               *)
(* compare-and-swap of the branch, and the resolution of the thread; other *)
(* people push, comment and apply in between.                              *)
(***************************************************************************)
EXTENDS Naturals, Sequences, FiniteSets

CONSTANTS Readers,        \* users who can read the target repository
          SourceWriters,  \* those of them who may push to the source branch
          TargetWriters,  \* those of them who may push to the target
          MRAuthor,       \* the author of the merge request
          CommentIds,     \* numbers of mr_diff_comments rows
          Texts,          \* contents of the commented lines
          Plain,          \* a comment that carries no suggestion
          MaxCommits,     \* bound: commits the source branch ever had
          MaxTurns        \* bound: settings toggled

ASSUME ThreadsAssumption ==
    /\ SourceWriters \subseteq Readers /\ TargetWriters \subseteq Readers
    /\ MRAuthor \in Readers
    /\ CommentIds \subseteq Nat \ {0}
    /\ Texts # {} /\ Plain \notin Texts

VARIABLES comment,   \* the rows of mr_diff_comments, in the order of their ids
          commits,   \* every commit the source branch ever pointed at
          tip,       \* the commit refs/heads/<source> points at
          mrHead,    \* mrs.head_sha
          holds,     \* what refuses a command, of Holds
          applying,  \* a user's apply-suggestion between its steps
          turns      \* bound: toggles made

threadVars == <<comment, commits, tip, mrHead, holds, applying, turns>>

Nothing == [author |-> Plain]

\* "refused" stands for what refuses only apply-suggestion: a protected or
\* signed-only branch, a pull mirror, an exceeded quota.
Holds == {"archived", "closed", "refused"}

Rows == {i \in CommentIds : comment[i] # Nothing}

Roots == {i \in Rows : comment[i].replyTo = 0}

\* SQLite numbers a new row one past the largest id in use.
NextId == IF Rows = {} THEN 1 ELSE 1 + CHOOSE i \in Rows : \A j \in Rows : j <= i

ThreadsInit ==
    /\ comment = [i \in CommentIds |-> Nothing]
    /\ LET t == CHOOSE t \in Texts : TRUE IN commits = <<[text |-> t, parent |-> 0, onto |-> 0, of |-> 0]>>
    /\ tip = 1 /\ mrHead = 1
    /\ holds = {}
    /\ applying = [u \in Readers |-> [step |-> "idle"]]
    /\ turns = 0

----------------------------------------------------------------------------
(* Comments.                                                               *)

Insert(row) ==
    /\ NextId \in CommentIds
    /\ comment' = [comment EXCEPT ![NextId] = row]
    /\ UNCHANGED <<commits, tip, mrHead, holds, applying, turns>>

Row(u, root, head, body, pending) ==
    [author |-> u, replyTo |-> root, head |-> head, body |-> body,
     pending |-> pending, resolved |-> FALSE]

\* mr diff-comment --path --line: a new thread on the head the merge request
\* has now.
runDiffComment(u, body, pending) ==
    /\ "archived" \notin holds
    /\ Insert(Row(u, 0, mrHead, body, pending))

\* mr diff-comment --reply: the root must be of this merge request and not
\* itself a reply; it may be pending.  A reply takes its root's anchor.
AddDiffComment(u, root, pending) ==
    /\ "archived" \notin holds
    /\ root \in Roots
    /\ Insert(Row(u, root, comment[root].head, Plain, pending))

\* A plausible mistake: a batch thrown away takes the published comments along.
PendingOfAll(u) == {i \in Rows : comment[i].author = u}

PendingOf(u) == {i \in Rows : comment[i].author = u /\ comment[i].pending}

\* reply_to is ON DELETE CASCADE: replies go with their root.
Removed(gone) == gone \cup {i \in Rows : comment[i].replyTo \in gone}

\* mr review --discard.
DiscardPendingComments(u) ==
    /\ holds \cap {"archived", "closed"} = {}
    /\ PendingOf(u) # {}
    /\ comment' = [i \in CommentIds |->
                      IF i \in Removed(PendingOf(u)) THEN Nothing ELSE comment[i]]
    /\ UNCHANGED <<commits, tip, mrHead, holds, applying, turns>>

\* mr review with a verdict: the batch becomes visible.
PublishPendingComments(u) ==
    /\ holds \cap {"archived", "closed"} = {}
    /\ PendingOf(u) # {}
    /\ comment' = [i \in CommentIds |->
                      IF i \in PendingOf(u) THEN [comment[i] EXCEPT !.pending = FALSE]
                                            ELSE comment[i]]
    /\ UNCHANGED <<commits, tip, mrHead, holds, applying, turns>>

canResolveThread(u, i) ==
    i \in Rows /\ (comment[i].author = u \/ MRAuthor = u \/ u \in TargetWriters)

SetThreadResolved(u, i, resolved) ==
    IF canResolveThread(u, i) /\ i \in Roots
    THEN [comment EXCEPT ![i].resolved = resolved]
    ELSE comment

\* mr resolve and mr unresolve.
setThreadResolved(u, i, resolved) ==
    /\ "archived" \notin holds
    /\ canResolveThread(u, i) /\ i \in Roots
    /\ comment[i].resolved # resolved
    /\ comment' = SetThreadResolved(u, i, resolved)
    /\ UNCHANGED <<commits, tip, mrHead, holds, applying, turns>>

----------------------------------------------------------------------------
(* What readers and the merge gate see.                                    *)

\* A plausible mistake: a batch that was submitted stays its author's only.
ListDiffCommentsOwn(v) == {i \in Rows : comment[i].author = v}

ListDiffComments(v) == {i \in Rows : ~comment[i].pending \/ comment[i].author = v}

\* mr threads and the merge request page: a reply is shown under its root.
runMRThreads(v) ==
    {i \in ListDiffComments(v) :
        comment[i].replyTo = 0 \/ comment[i].replyTo \in ListDiffComments(v)}

\* A plausible mistake: the gate counts the threads of unsubmitted reviews.
UnresolvedThreadsAll == {i \in Roots : ~comment[i].resolved}

\* The threads that hold a merge where all threads must be resolved.
UnresolvedThreadCount == {i \in Roots : ~comment[i].resolved /\ ~comment[i].pending}

----------------------------------------------------------------------------
(* The source branch.                                                      *)

Commit(text, parent, of) == [text |-> text, parent |-> parent, onto |-> tip, of |-> of]

Land(c) ==
    /\ commits' = Append(commits, c)
    /\ tip' = Len(commits) + 1

\* A push of a new commit: any content.
Push ==
    /\ Len(commits) < MaxCommits
    /\ \E text \in Texts : Land(Commit(text, tip, 0))
    /\ UNCHANGED <<comment, mrHead, holds, applying, turns>>

\* post-receive: the merge request follows its source branch, some time after
\* the update (MergeRequests has the order in which several arrive).
RefsUpdated ==
    /\ mrHead # tip /\ mrHead' = tip
    /\ UNCHANGED <<comment, commits, tip, holds, applying, turns>>

\* The lines a suggestion was made against: those of the commit commented on.
Original(i) == commits[comment[i].head].text

\* A plausible mistake: a suggestion goes to its line numbers, whatever they hold now.
anchorReasonNever(i, c) == TRUE

\* The lines the suggestion replaces are still what it was made against.
anchorReason(i, c) == commits[c].text = Original(i)

\* suggestionsWith: a published thread root that carries a suggestion.
Suggestions ==
    {i \in Roots : comment[i].body # Plain /\ ~comment[i].pending}

\* Up to gitutil.CommitWithFile: a commit object on the tip that was read.
runMRApplySuggestion(u, i) ==
    /\ applying[u].step = "idle"
    /\ holds = {}
    /\ i \in Suggestions
    /\ u \in SourceWriters
    /\ anchorReason(i, tip)
    /\ comment[i].body # commits[tip].text
    /\ applying' = [applying EXCEPT ![u] = [step |-> "made", thread |-> i,
                                            tip |-> tip, text |-> comment[i].body]]
    /\ UNCHANGED <<comment, commits, tip, mrHead, holds, turns>>

\* A plausible mistake: the branch is written whatever it points at.
UpdateRefAlways(old) == TRUE

UpdateRefCAS(old) == tip = old

\* The ref update, or the refusal "the source branch moved".
ApplyLands(u) ==
    /\ applying[u].step = "made"
    /\ Len(commits) < MaxCommits
    /\ IF UpdateRefCAS(applying[u].tip)
       THEN /\ Land(Commit(applying[u].text, applying[u].tip, applying[u].thread))
            /\ applying' = [applying EXCEPT ![u] = [step |-> "landed", thread |-> applying[u].thread]]
       ELSE /\ applying' = [applying EXCEPT ![u] = [step |-> "idle"]]
            /\ UNCHANGED <<commits, tip>>
    /\ UNCHANGED <<comment, mrHead, holds, turns>>

\* The thread is resolved if the caller may; nothing fails the command now.
ApplyResolves(u) ==
    /\ applying[u].step = "landed"
    /\ comment' = SetThreadResolved(u, applying[u].thread, TRUE)
    /\ applying' = [applying EXCEPT ![u] = [step |-> "idle"]]
    /\ UNCHANGED <<commits, tip, mrHead, holds, turns>>

\* Archiving, closing, protecting the branch, and back.
Toggle(h) ==
    /\ turns < MaxTurns
    /\ turns' = turns + 1
    /\ holds' = IF h \in holds THEN holds \ {h} ELSE holds \cup {h}
    /\ UNCHANGED <<comment, commits, tip, mrHead, applying>>

ThreadsNext ==
    \/ \E u \in Readers, b \in Texts \cup {Plain}, p \in BOOLEAN : runDiffComment(u, b, p)
    \/ \E u \in Readers, i \in CommentIds, p \in BOOLEAN : AddDiffComment(u, i, p)
    \/ \E u \in Readers : DiscardPendingComments(u) \/ PublishPendingComments(u)
    \/ \E u \in Readers, i \in CommentIds, r \in BOOLEAN : setThreadResolved(u, i, r)
    \/ Push \/ RefsUpdated
    \/ \E u \in Readers, i \in CommentIds : runMRApplySuggestion(u, i)
    \/ \E u \in Readers : ApplyLands(u) \/ ApplyResolves(u)
    \/ \E h \in Holds : Toggle(h)

ThreadsSpec == ThreadsInit /\ [][ThreadsNext]_threadVars

----------------------------------------------------------------------------
(* Properties.                                                             *)

RowType ==
    [author: Readers, replyTo: CommentIds \cup {0}, head: Nat,
     body: Texts \cup {Plain}, pending: BOOLEAN, resolved: BOOLEAN]

\* Type invariant; a reply's root is a row, and is no reply itself: the
\* foreign key and the check of AddDiffComment.
ThreadsTypeOK ==
    /\ \A i \in Rows : comment[i] \in RowType
    /\ \A i \in Rows : comment[i].replyTo # 0 => comment[i].replyTo \in Roots
    /\ tip \in 1..Len(commits) /\ mrHead \in 1..Len(commits)
    /\ holds \subseteq Holds

\* "A published comment is part of the conversation and is not something its
\* author can quietly take back" (DiscardPendingComments): no step removes a
\* published comment, or makes it pending again.  The one exception the code
\* leaves: a reply to somebody's unsubmitted comment goes with that comment.
PublishedStays ==
    [][\A i \in Rows :
          ~comment[i].pending /\ comment[i].replyTo \notin {r \in Roots : comment[r].pending}
          => comment'[i] # Nothing /\ ~comment'[i].pending]_threadVars

\* What a submitted review says is read by everyone who can read the merge
\* request, also when the thread it answers was submitted by somebody else.
PublishedIsShown ==
    \A i \in Rows, v \in Readers :
        ~comment[i].pending
        /\ (comment[i].replyTo # 0 => ~comment[comment[i].replyTo].pending)
        => i \in runMRThreads(v)

\* A merge is never held by a thread that somebody who would merge cannot see
\* ("blocking a merge on it would let anyone stall a merge request with a
\* thread nobody else can see or resolve", UnresolvedThreadCount).
NothingUnseenBlocks ==
    \A i \in UnresolvedThreadCount, v \in TargetWriters :
        i \in runMRThreads(v) /\ canResolveThread(v, i)

\* An applied suggestion replaces exactly the lines it was made against, on
\* the commit it was checked with, and no commit pushed meanwhile is lost.
SuggestionLandsOnItsLines ==
    \A c \in 1..Len(commits) :
        LET of == commits[c].of IN
        of # 0 => /\ commits[c].onto = commits[c].parent
                  /\ commits[commits[c].parent].text = Original(of)

\* Threads are shown to whom they are for, block what they should and apply
\* where they stand (control/diffcomments.go, suggestion.go).
ThreadsInOrder == PublishedIsShown /\ NothingUnseenBlocks /\ SuggestionLandsOnItsLines
============================================================================
