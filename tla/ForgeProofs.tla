----------------------------- MODULE ForgeProofs -----------------------------
(***************************************************************************)
(* Theorems about review threads (Threads), about pushes, settings and     *)
(* releases (Pushes), and about issues with their labels, milestones and   *)
(* notices while repositories move (Tracker), for every value of their     *)
(* constants.                                                              *)
(***************************************************************************)
EXTENDS Tracker, Threads, Pushes, AccessProofs, WellFoundedInduction, TLAPS

-----------------------------------------------------------------------------
(* Row numbers *)

\* A set of numbers that is not empty has a least element.
LEMMA LeastOf ==
    ASSUME NEW T \in SUBSET Nat, T # {}
    PROVE  \E x \in T : \A y \in T : x <= y
<1> DEFINE R == OpToRel(<, Nat)
<1>1. IsWellFoundedOn(R, Nat)
  BY NatLessThanWellFounded
<1>2. ASSUME NEW x \in Nat, NEW y \in Nat, y < x
      PROVE  <<y, x>> \in R
  BY <1>2 DEF OpToRel
<1> HIDE DEF R
<1>3. PICK x \in T : \A y \in T : ~(<<y, x>> \in R)
  BY <1>1, WFMin
<1>4. ASSUME NEW y \in T PROVE x <= y
  <2>1. x \in Nat /\ y \in Nat /\ ~(<<y, x>> \in R)
    BY <1>3
  <2>2. ~(y < x)
    BY <1>2, <2>1
  <2> QED
    BY <2>1, <2>2
<1> QED
  BY <1>4

\* A set of numbers below a bound has a greatest element.
LEMMA GreatestOf ==
    ASSUME NEW T \in SUBSET Nat, T # {}, NEW n \in Nat, \A i \in T : i <= n
    PROVE  \E x \in T : \A y \in T : y <= x
<1> DEFINE B == {m \in Nat : \A i \in T : i <= m}
<1>1. B \in SUBSET Nat /\ B # {}
  OBVIOUS
<1>2. PICK x \in B : \A y \in B : x <= y
  BY <1>1, LeastOf
<1>3. SUFFICES ASSUME x \notin T PROVE FALSE
  BY <1>2
<1>4. PICK i \in T : TRUE
  OBVIOUS
<1>5. \A j \in T : j \in Nat /\ j < x
  BY <1>2, <1>3
<1>6. x \in Nat /\ x - 1 \in Nat
  BY <1>4, <1>5
<1>7. x - 1 \in B
  BY <1>5, <1>6
<1> QED
  BY <1>2, <1>6, <1>7

After(T) == IF T = {} THEN 1 ELSE 1 + CHOOSE i \in T : \A j \in T : j <= i

\* The number after the greatest one is new, and the greatest from then on.
LEMMA NextIsNew ==
    ASSUME NEW T \in SUBSET Nat, NEW n \in Nat, \A i \in T : i <= n
    PROVE  /\ After(T) \in Nat \ {0} /\ After(T) \notin T
           /\ \A i \in T : i < After(T)
<1>1. CASE T = {}
  BY <1>1 DEF After
<1>2. CASE T # {}
  <2> DEFINE g == CHOOSE i \in T : \A j \in T : j <= i
  <2>1. g \in T /\ \A j \in T : j <= g
    BY <1>2, GreatestOf
  <2>2. After(T) = 1 + g
    BY <1>2 DEF After
  <2> HIDE DEF g
  <2>3. g \in Nat
    BY <2>1
  <2>4. After(T) \in Nat \ {0}
    BY <2>2, <2>3
  <2>5. ASSUME NEW i \in T PROVE i < After(T)
    <3>1. i \in Nat /\ i <= g
      BY <2>1
    <3> QED
      BY <2>2, <2>3, <3>1
  <2>6. After(T) \notin T
    BY <2>4, <2>5
  <2> QED
    BY <2>4, <2>5, <2>6
<1> QED
  BY <1>1, <1>2

-----------------------------------------------------------------------------
(* Threads: the inductive invariant *)

CommitRows == [text: Texts, parent: Nat, onto: Nat, of: CommentIds \cup {0}]

Applications ==
    [step: {"idle"}] \cup [step: {"made"}, thread: CommentIds, tip: Nat, text: Texts]
    \cup [step: {"landed"}, thread: CommentIds]

ThreadShapes ==
    /\ comment \in [CommentIds -> RowType \cup {Nothing}]
    /\ commits \in Seq(CommitRows)
    /\ applying \in [Readers -> Applications]

\* The numbers of the rows have a greatest one.
CommentsNumbered == \E n \in Nat : \A i \in Rows : i <= n

\* A comment stands on a commit that the branch had.
HeadsExist == \A i \in Rows : comment[i].head \in 1..Len(commits)

\* A suggestion that is being applied was checked against a commit that holds
\* the lines it replaces, and is still there.
MadeWhereItStands ==
    \A u \in Readers : applying[u].step = "made" =>
        LET a == applying[u] IN
        /\ a.thread \in Suggestions
        /\ a.tip \in 1..Len(commits)
        /\ commits[a.tip].text = Original(a.thread)

\* A commit made from a suggestion names one, and a parent the branch had.
AppliedNamesItsThread ==
    \A c \in 1..Len(commits) : commits[c].of # 0 =>
        /\ commits[c].of \in Suggestions
        /\ commits[c].parent \in 1..Len(commits)

ThreadsInv ==
    /\ ThreadsTypeOK /\ ThreadShapes /\ CommentsNumbered /\ HeadsExist
    /\ MadeWhereItStands /\ AppliedNamesItsThread /\ SuggestionLandsOnItsLines

-----------------------------------------------------------------------------
(* Threads: what a step may do to the comments *)

\* A published comment stays, unless it answers one that is not.
PublishedKept ==
    \A i \in Rows :
        ~comment[i].pending /\ comment[i].replyTo \notin {r \in Roots : comment[r].pending}
        => comment'[i] # Nothing /\ ~comment'[i].pending

\* A suggestion stays one, where it was.
SuggestionsKept ==
    \A i \in Suggestions : i \in Suggestions' /\ comment'[i].head = comment[i].head

CommentsGo ==
    /\ comment' \in [CommentIds -> RowType \cup {Nothing}]
    /\ \A i \in Rows' : comment'[i].replyTo # 0 => comment'[i].replyTo \in Roots'
    /\ \A i \in Rows' : comment'[i].head \in 1..Len(commits)
    /\ CommentsNumbered'
    /\ PublishedKept
    /\ SuggestionsKept

LEMMA RowIsSomething ==
    ASSUME NEW r \in RowType
    PROVE  r # Nothing
<1>1. "replyTo" \in DOMAIN r
  BY DEF RowType
<1>2. DOMAIN Nothing = {"author"}
  BY DEF Nothing
<1> QED
  BY <1>1, <1>2

LEMMA RowTyped ==
    ASSUME ThreadsInv, NEW i \in Rows
    PROVE  i \in CommentIds /\ i \in Nat \ {0} /\ comment[i] \in RowType
BY ThreadsAssumption DEF ThreadsInv, ThreadsTypeOK, Rows

LEMMA CommentsUnchanged ==
    ASSUME ThreadsInv, comment' = comment
    PROVE  CommentsGo
<1>1. /\ comment' \in [CommentIds -> RowType \cup {Nothing}]
      /\ \A i \in Rows : comment[i].replyTo # 0 => comment[i].replyTo \in Roots
      /\ \A i \in Rows : comment[i].head \in 1..Len(commits)
      /\ CommentsNumbered
  BY DEF ThreadsInv, ThreadsTypeOK, ThreadShapes, HeadsExist
<1>2. Rows' = Rows /\ Roots' = Roots /\ Suggestions' = Suggestions /\ CommentsNumbered'
  BY <1>1 DEF Rows, Roots, Suggestions, CommentsNumbered
<1>3. PublishedKept
  BY DEF PublishedKept, Rows
<1>4. SuggestionsKept
  BY <1>2 DEF SuggestionsKept
<1> QED
  BY <1>1, <1>2, <1>3, <1>4 DEF CommentsGo

\* A new row: a root, or an answer to one.
LEMMA InsertGoes ==
    ASSUME ThreadsInv, NEW row \in RowType, Insert(row),
           row.replyTo # 0 => row.replyTo \in Roots,
           row.head \in 1..Len(commits)
    PROVE  CommentsGo
<1> DEFINE k == NextId
<1>1. k \in CommentIds /\ comment' = [comment EXCEPT ![k] = row]
  BY DEF Insert
<1>2. PICK n \in Nat : \A i \in Rows : i <= n
  BY DEF ThreadsInv, CommentsNumbered
<1>3. Rows \in SUBSET Nat
  BY ThreadsAssumption DEF Rows
<1>4. k \in Nat \ {0} /\ k \notin Rows /\ \A i \in Rows : i < k
  <2>1. NextId = After(Rows)
    BY DEF NextId, After
  <2> QED
    BY <1>2, <1>3, <2>1, NextIsNew
<1> HIDE DEF k
<1>5. /\ comment \in [CommentIds -> RowType \cup {Nothing}]
      /\ \A i \in Rows : comment[i].replyTo # 0 => comment[i].replyTo \in Roots
      /\ \A i \in Rows : comment[i].head \in 1..Len(commits)
  BY DEF ThreadsInv, ThreadsTypeOK, ThreadShapes, HeadsExist
<1>6. comment'[k] = row /\ \A i \in CommentIds \ {k} : comment'[i] = comment[i]
  BY <1>1, <1>5
<1>7. Rows' = Rows \cup {k}
  BY <1>1, <1>6, RowIsSomething DEF Rows
<1>8. Roots \subseteq Roots'
  BY <1>4, <1>6, <1>7 DEF Roots, Rows
<1>9. comment' \in [CommentIds -> RowType \cup {Nothing}]
  BY <1>1, <1>5
<1>10. \A i \in Rows' : comment'[i].replyTo # 0 => comment'[i].replyTo \in Roots'
  BY <1>4, <1>5, <1>6, <1>7, <1>8 DEF Rows
<1>11. \A i \in Rows' : comment'[i].head \in 1..Len(commits)
  BY <1>4, <1>5, <1>6, <1>7 DEF Rows
<1>12. CommentsNumbered'
  <2>1. \A i \in Rows' : i <= k
    BY <1>3, <1>4, <1>7
  <2> QED
    BY <1>4, <2>1 DEF CommentsNumbered
<1>13. PublishedKept
  BY <1>4, <1>6 DEF PublishedKept, Rows
<1>14. SuggestionsKept
  BY <1>4, <1>6, <1>8 DEF SuggestionsKept, Suggestions, Roots, Rows
<1> QED
  BY <1>9, <1>10, <1>11, <1>12, <1>13, <1>14 DEF CommentsGo

\* A batch thrown away: nobody else's comment but answers to it, no root that
\* was published.
LEMMA DiscardGoes ==
    ASSUME ThreadsInv, NEW u \in Readers, DiscardPendingComments(u)
    PROVE  CommentsGo
<1> DEFINE gone == Removed(PendingOf(u))
<1>1. comment' = [i \in CommentIds |-> IF i \in gone THEN Nothing ELSE comment[i]]
  BY DEF DiscardPendingComments
<1>2. \A i \in gone : i \in Rows /\ (comment[i].pending \/ comment[i].replyTo \in PendingOf(u))
  BY DEF Removed, PendingOf
<1>3. \A i \in Rows : comment[i].pending /\ comment[i].author = u => i \in gone
  BY DEF Removed, PendingOf
<1>4. \A i \in Rows : comment[i].replyTo \in PendingOf(u) => i \in gone
  BY DEF Removed
<1>5. \A i \in gone : i \in PendingOf(u) \/ comment[i].replyTo \in PendingOf(u)
  BY DEF Removed
<1>6. \A i \in PendingOf(u) : i \in Rows /\ comment[i].pending
  BY DEF PendingOf
<1> HIDE DEF gone
<1>7. /\ comment \in [CommentIds -> RowType \cup {Nothing}]
      /\ \A i \in Rows : comment[i].replyTo # 0 => comment[i].replyTo \in Roots
      /\ \A i \in Rows : comment[i].head \in 1..Len(commits)
  BY DEF ThreadsInv, ThreadsTypeOK, ThreadShapes, HeadsExist
<1>8. /\ \A i \in CommentIds \ gone : comment'[i] = comment[i]
      /\ \A i \in gone \cap CommentIds : comment'[i] = Nothing
  BY <1>1
<1>9. Rows' = Rows \ gone
  BY <1>8 DEF Rows
<1>10. Roots' = Roots \ gone
  BY <1>8, <1>9 DEF Roots, Rows
<1>11. comment' \in [CommentIds -> RowType \cup {Nothing}]
  BY <1>1, <1>7
<1>12. \A i \in Rows' : comment'[i].replyTo # 0 => comment'[i].replyTo \in Roots'
  <2> SUFFICES ASSUME NEW i \in Rows', comment'[i].replyTo # 0
               PROVE  comment'[i].replyTo \in Roots'
    OBVIOUS
  <2>1. i \in Rows /\ i \notin gone /\ comment'[i] = comment[i]
    BY <1>8, <1>9 DEF Rows
  <2>2. comment[i].replyTo \in Roots
    BY <1>7, <2>1
  <2>3. comment[i].replyTo \notin PendingOf(u)
    BY <1>4, <2>1
  <2>4. comment[i].replyTo \notin gone
    <3>1. SUFFICES ASSUME comment[i].replyTo \in gone PROVE FALSE
      OBVIOUS
    <3>2. comment[comment[i].replyTo].replyTo = 0
      BY <2>2 DEF Roots
    <3>3. 0 \in PendingOf(u)
      BY <1>5, <2>3, <3>1, <3>2
    <3> QED
      BY <3>3, ThreadsAssumption DEF PendingOf, Rows
  <2> QED
    BY <1>10, <2>1, <2>2, <2>4
<1>13. \A i \in Rows' : comment'[i].head \in 1..Len(commits)
  BY <1>7, <1>8, <1>9 DEF Rows
<1>14. CommentsNumbered'
  BY <1>9 DEF ThreadsInv, CommentsNumbered
<1>15. 0 \notin PendingOf(u)
  BY ThreadsAssumption DEF PendingOf, Rows
<1>16. PublishedKept
  <2> SUFFICES ASSUME NEW i \in Rows, ~comment[i].pending,
                      comment[i].replyTo \notin {r \in Roots : comment[r].pending}
               PROVE  comment'[i] # Nothing /\ ~comment'[i].pending
    BY DEF PublishedKept
  <2>1. comment[i].replyTo \notin PendingOf(u)
    BY <1>6, <1>7, <1>15
  <2>2. i \notin gone
    BY <1>2, <2>1
  <2> QED
    BY <1>8, <2>2 DEF Rows
<1>17. SuggestionsKept
  <2> SUFFICES ASSUME NEW i \in Suggestions
               PROVE  i \in Suggestions' /\ comment'[i].head = comment[i].head
    BY DEF SuggestionsKept
  <2>1. i \in Roots /\ i \in Rows /\ ~comment[i].pending /\ comment[i].replyTo = 0
    BY DEF Suggestions, Roots
  <2>2. i \notin gone
    BY <1>2, <1>15, <2>1
  <2>3. comment'[i] = comment[i]
    BY <1>8, <2>1, <2>2 DEF Rows
  <2> QED
    BY <1>10, <2>1, <2>2, <2>3 DEF Suggestions
<1> QED
  BY <1>11, <1>12, <1>13, <1>14, <1>16, <1>17 DEF CommentsGo

\* A row that changes in its flags alone.
LEMMA FlagsGo ==
    ASSUME ThreadsInv, comment' \in [CommentIds -> RowType \cup {Nothing}],
           \A i \in CommentIds : comment'[i] = Nothing <=> comment[i] = Nothing,
           \A i \in Rows : /\ comment'[i].replyTo = comment[i].replyTo
                           /\ comment'[i].head = comment[i].head
                           /\ comment'[i].body = comment[i].body
                           /\ ~comment[i].pending => ~comment'[i].pending
    PROVE  CommentsGo
<1>1. /\ \A i \in Rows : comment[i].replyTo # 0 => comment[i].replyTo \in Roots
      /\ \A i \in Rows : comment[i].head \in 1..Len(commits)
      /\ CommentsNumbered
  BY DEF ThreadsInv, ThreadsTypeOK, ThreadShapes, HeadsExist
<1>2. Rows' = Rows
  BY DEF Rows
<1>3. Roots' = Roots
  BY <1>2 DEF Roots
<1>4. CommentsNumbered'
  BY <1>1, <1>2 DEF CommentsNumbered
<1>5. PublishedKept
  BY DEF PublishedKept, Rows
<1>6. SuggestionsKept
  BY <1>3 DEF SuggestionsKept, Suggestions, Roots
<1> QED
  BY <1>1, <1>2, <1>3, <1>4, <1>5, <1>6 DEF CommentsGo

LEMMA PublishGoes ==
    ASSUME ThreadsInv, NEW u \in Readers, PublishPendingComments(u)
    PROVE  CommentsGo
<1>1. comment' = [i \in CommentIds |->
                    IF i \in PendingOf(u) THEN [comment[i] EXCEPT !.pending = FALSE]
                                          ELSE comment[i]]
  BY DEF PublishPendingComments
<1>2. comment \in [CommentIds -> RowType \cup {Nothing}] /\ PendingOf(u) \subseteq Rows
  BY DEF ThreadsInv, ThreadShapes, PendingOf
<1>3. \A i \in CommentIds \ PendingOf(u) : comment'[i] = comment[i]
  BY <1>1
<1>4. ASSUME NEW i \in PendingOf(u)
      PROVE  /\ i \in CommentIds /\ comment[i] # Nothing
             /\ comment'[i] \in RowType /\ comment'[i] # Nothing
             /\ comment'[i].replyTo = comment[i].replyTo
             /\ comment'[i].head = comment[i].head
             /\ comment'[i].body = comment[i].body
             /\ comment'[i].pending = FALSE
  <2>1. i \in Rows /\ i \in CommentIds /\ comment[i] \in RowType /\ comment[i] # Nothing
    BY <1>2, RowTyped DEF Rows
  <2>2. comment'[i] = [comment[i] EXCEPT !.pending = FALSE]
    BY <1>1, <2>1
  <2>3. /\ comment'[i] \in RowType
        /\ comment'[i].replyTo = comment[i].replyTo
        /\ comment'[i].head = comment[i].head
        /\ comment'[i].body = comment[i].body
        /\ comment'[i].pending = FALSE
    BY <2>1, <2>2 DEF RowType
  <2> QED
    BY <2>1, <2>3, RowIsSomething
<1>5. comment' \in [CommentIds -> RowType \cup {Nothing}]
  <2>1. \A i \in CommentIds : comment'[i] \in RowType \cup {Nothing}
    BY <1>2, <1>3, <1>4
  <2>2. comment' = [i \in CommentIds |-> comment'[i]]
    BY <1>1
  <2> QED
    BY <2>1, <2>2
<1>6. \A i \in CommentIds : comment'[i] = Nothing <=> comment[i] = Nothing
  BY <1>3, <1>4
<1>7. \A i \in Rows : /\ comment'[i].replyTo = comment[i].replyTo
                      /\ comment'[i].head = comment[i].head
                      /\ comment'[i].body = comment[i].body
                      /\ ~comment[i].pending => ~comment'[i].pending
  BY <1>3, <1>4 DEF Rows
<1> QED
  BY <1>5, <1>6, <1>7, FlagsGo

LEMMA ResolvedGoes ==
    ASSUME ThreadsInv, NEW u \in Readers, NEW i, NEW b \in BOOLEAN,
           comment' = SetThreadResolved(u, i, b)
    PROVE  CommentsGo
<1>1. CASE ~(canResolveThread(u, i) /\ i \in Roots)
  BY <1>1, CommentsUnchanged DEF SetThreadResolved
<1>2. CASE canResolveThread(u, i) /\ i \in Roots
  <2>1. comment' = [comment EXCEPT ![i].resolved = b] /\ i \in Rows
    BY <1>2 DEF SetThreadResolved, canResolveThread
  <2>2. comment \in [CommentIds -> RowType \cup {Nothing}]
    BY DEF ThreadsInv, ThreadShapes
  <2>3. i \in CommentIds /\ comment[i] \in RowType /\ comment[i] # Nothing
    BY <2>1, RowTyped DEF Rows
  <2>4. /\ comment'[i] = [comment[i] EXCEPT !.resolved = b]
        /\ \A j \in CommentIds \ {i} : comment'[j] = comment[j]
    BY <2>1, <2>2, <2>3
  <2>5. /\ comment'[i] \in RowType
        /\ comment'[i].replyTo = comment[i].replyTo
        /\ comment'[i].head = comment[i].head
        /\ comment'[i].body = comment[i].body
        /\ comment'[i].pending = comment[i].pending
    BY <2>3, <2>4 DEF RowType
  <2>6. comment'[i] # Nothing
    BY <2>5, RowIsSomething
  <2>7. comment' \in [CommentIds -> RowType \cup {Nothing}]
    BY <2>1, <2>2, <2>3, <2>4, <2>5
  <2>8. \A j \in CommentIds : comment'[j] = Nothing <=> comment[j] = Nothing
    BY <2>3, <2>4, <2>6
  <2>9. \A j \in Rows : /\ comment'[j].replyTo = comment[j].replyTo
                        /\ comment'[j].head = comment[j].head
                        /\ comment'[j].body = comment[j].body
                        /\ ~comment[j].pending => ~comment'[j].pending
    BY <2>4, <2>5 DEF Rows
  <2> QED
    BY <2>7, <2>8, <2>9, FlagsGo
<1> QED
  BY <1>1, <1>2

-----------------------------------------------------------------------------
(* Threads: what a step may do to the branch *)

\* The branch keeps the commits it had; a new one names what it was made from.
BranchGoes ==
    /\ commits' \in Seq(CommitRows)
    /\ Len(commits) <= Len(commits')
    /\ \A c \in 1..Len(commits) : commits'[c] = commits[c]
    /\ \A c \in 1..Len(commits') : c \notin 1..Len(commits) /\ commits'[c].of # 0 =>
          /\ commits'[c].of \in Suggestions
          /\ commits'[c].parent \in 1..Len(commits)
          /\ commits'[c].onto = commits'[c].parent
          /\ commits[commits'[c].parent].text = Original(commits'[c].of)
    /\ tip' \in 1..Len(commits')

\* An application that was made was checked against the commit it names.
ApplyingGoes ==
    /\ applying' \in [Readers -> Applications]
    /\ \A u \in Readers : applying'[u].step = "made" =>
          LET a == applying'[u] IN
          /\ a.thread \in Suggestions
          /\ a.tip \in 1..Len(commits)
          /\ commits[a.tip].text = Original(a.thread)

RestGoes == mrHead' \in 1..Len(commits) /\ holds' \subseteq Holds

LEMMA SuggestionIsRow ==
    ASSUME ThreadsInv, NEW i \in Suggestions
    PROVE  /\ i \in Rows /\ i \in CommentIds /\ i # 0
           /\ comment[i].head \in 1..Len(commits)
           /\ comment[i].body \in Texts
<1>1. i \in Rows /\ comment[i].body # Plain
  BY DEF Suggestions, Roots
<1>2. comment[i] \in RowType /\ i \in CommentIds /\ i # 0
  BY <1>1, RowTyped
<1>3. comment[i].body \in Texts
  BY <1>1, <1>2 DEF RowType
<1> QED
  BY <1>1, <1>2, <1>3 DEF ThreadsInv, HeadsExist

\* Steps that keep to these keep the invariant.
LEMMA StepGoes ==
    ASSUME ThreadsInv, CommentsGo, BranchGoes, ApplyingGoes, RestGoes
    PROVE  ThreadsInv'
<1>1. /\ commits \in Seq(CommitRows) /\ Len(commits) \in Nat
      /\ commits' \in Seq(CommitRows) /\ Len(commits') \in Nat
      /\ Len(commits) <= Len(commits')
  BY DEF ThreadsInv, ThreadShapes, BranchGoes
<1>2. 1..Len(commits) \subseteq 1..Len(commits')
  BY <1>1
<1>3. \A c \in 1..Len(commits) : commits'[c] = commits[c]
  BY DEF BranchGoes
<1>4. ASSUME NEW i \in Suggestions
      PROVE  i \in Suggestions' /\ commits'[comment'[i].head].text = Original(i)
  <2>1. i \in Suggestions' /\ comment'[i].head = comment[i].head
    BY DEF CommentsGo, SuggestionsKept
  <2>2. comment[i].head \in 1..Len(commits)
    BY SuggestionIsRow
  <2> QED
    BY <1>3, <2>1, <2>2 DEF Original
<1>5. ThreadsTypeOK'
  <2>1. \A i \in Rows' : comment'[i] \in RowType
    BY DEF CommentsGo, Rows
  <2>2. mrHead' \in 1..Len(commits') /\ tip' \in 1..Len(commits') /\ holds' \subseteq Holds
    BY <1>2 DEF RestGoes, BranchGoes
  <2> QED
    BY <2>1, <2>2 DEF ThreadsTypeOK, CommentsGo
<1>6. ThreadShapes'
  BY DEF ThreadShapes, CommentsGo, BranchGoes, ApplyingGoes
<1>7. CommentsNumbered'
  BY DEF CommentsGo
<1>8. HeadsExist'
  BY <1>2 DEF CommentsGo, HeadsExist
<1>9. MadeWhereItStands'
  <2> SUFFICES ASSUME NEW u \in Readers, applying'[u].step = "made"
               PROVE  /\ applying'[u].thread \in Suggestions'
                      /\ applying'[u].tip \in 1..Len(commits')
                      /\ commits'[applying'[u].tip].text = commits'[comment'[applying'[u].thread].head].text
    BY DEF MadeWhereItStands, Original
  <2>1. /\ applying'[u].thread \in Suggestions
        /\ applying'[u].tip \in 1..Len(commits)
        /\ commits[applying'[u].tip].text = Original(applying'[u].thread)
    BY DEF ApplyingGoes
  <2>2. commits'[applying'[u].tip] = commits[applying'[u].tip]
    BY <1>3, <2>1
  <2> QED
    BY <1>2, <1>4, <2>1, <2>2
<1>10. ASSUME NEW c \in 1..Len(commits'), commits'[c].of # 0
       PROVE  /\ commits'[c].of \in Suggestions
              /\ commits'[c].parent \in 1..Len(commits)
              /\ commits'[c].onto = commits'[c].parent
              /\ commits[commits'[c].parent].text = Original(commits'[c].of)
  <2>1. CASE c \in 1..Len(commits)
    <3>1. commits'[c] = commits[c]
      BY <1>3, <2>1
    <3> QED
      BY <1>10, <2>1, <3>1 DEF ThreadsInv, AppliedNamesItsThread, SuggestionLandsOnItsLines
  <2>2. CASE c \notin 1..Len(commits)
    BY <1>10, <2>2 DEF BranchGoes
  <2> QED
    BY <2>1, <2>2
<1>11. AppliedNamesItsThread'
  BY <1>2, <1>4, <1>10 DEF AppliedNamesItsThread
<1>12. SuggestionLandsOnItsLines'
  <2> SUFFICES ASSUME NEW c \in 1..Len(commits'), commits'[c].of # 0
               PROVE  /\ commits'[c].onto = commits'[c].parent
                      /\ commits'[commits'[c].parent].text = commits'[comment'[commits'[c].of].head].text
    BY DEF SuggestionLandsOnItsLines, Original
  <2>1. commits'[commits'[c].parent] = commits[commits'[c].parent]
    BY <1>3, <1>10
  <2> QED
    BY <1>4, <1>10, <2>1
<1> QED
  BY <1>5, <1>6, <1>7, <1>8, <1>9, <1>11, <1>12 DEF ThreadsInv

LEMMA BranchStands ==
    ASSUME ThreadsInv, UNCHANGED <<commits, tip>>
    PROVE  BranchGoes
BY DEF ThreadsInv, ThreadsTypeOK, ThreadShapes, BranchGoes

LEMMA ApplyingStands ==
    ASSUME ThreadsInv, applying' = applying
    PROVE  ApplyingGoes
BY DEF ThreadsInv, ThreadShapes, MadeWhereItStands, ApplyingGoes

LEMMA RestStands ==
    ASSUME ThreadsInv, UNCHANGED <<mrHead, holds>>
    PROVE  RestGoes
BY DEF ThreadsInv, ThreadsTypeOK, RestGoes

\* A commit on the tip.
LEMMA LandGoes ==
    ASSUME ThreadsInv, NEW text \in Texts, NEW parent \in Nat, NEW of \in CommentIds \cup {0},
           Land(Commit(text, parent, of)),
           of # 0 => /\ of \in Suggestions /\ parent = tip
                     /\ commits[parent].text = Original(of)
    PROVE  BranchGoes
<1> DEFINE c == Commit(text, parent, of)
<1>1. /\ commits \in Seq(CommitRows) /\ Len(commits) \in Nat /\ tip \in 1..Len(commits)
  BY DEF ThreadsInv, ThreadsTypeOK, ThreadShapes
<1>2. c \in CommitRows /\ c.of = of /\ c.parent = parent /\ c.onto = tip
  BY <1>1 DEF Commit, CommitRows
<1>3. commits' = Append(commits, c) /\ tip' = Len(commits) + 1
  BY DEF Land
<1> HIDE DEF c
<1>4. /\ commits' \in Seq(CommitRows) /\ Len(commits') = Len(commits) + 1
      /\ \A i \in 1..Len(commits) : commits'[i] = commits[i]
      /\ commits'[Len(commits) + 1] = c
  BY <1>1, <1>2, <1>3
<1>5. \A i \in 1..Len(commits') : i \notin 1..Len(commits) => commits'[i] = c
  BY <1>1, <1>4
<1>6. tip' \in 1..Len(commits') /\ Len(commits) <= Len(commits')
  BY <1>1, <1>3, <1>4
<1> QED
  BY <1>1, <1>2, <1>4, <1>5, <1>6 DEF BranchGoes

-----------------------------------------------------------------------------
(* Threads: the steps *)

\* A step that changes the comments alone.
LEMMA CommentStep ==
    ASSUME ThreadsInv, CommentsGo, UNCHANGED <<commits, tip, mrHead, holds, applying>>
    PROVE  ThreadsInv' /\ PublishedKept
BY StepGoes, BranchStands, ApplyingStands, RestStands DEF CommentsGo

LEMMA RowIsTyped ==
    ASSUME NEW u \in Readers, NEW root \in CommentIds \cup {0}, NEW head \in Nat,
           NEW body \in Texts \cup {Plain}, NEW p \in BOOLEAN
    PROVE  /\ Row(u, root, head, body, p) \in RowType
           /\ Row(u, root, head, body, p).replyTo = root
           /\ Row(u, root, head, body, p).head = head
BY DEF Row, RowType

LEMMA DiffCommentStep ==
    ASSUME ThreadsInv, NEW u \in Readers, NEW b \in Texts \cup {Plain}, NEW p \in BOOLEAN,
           runDiffComment(u, b, p)
    PROVE  ThreadsInv' /\ PublishedKept
<1>1. mrHead \in 1..Len(commits) /\ mrHead \in Nat
  BY DEF ThreadsInv, ThreadsTypeOK, ThreadShapes
<1> DEFINE row == Row(u, 0, mrHead, b, p)
<1>2. row \in RowType /\ row.replyTo = 0 /\ row.head = mrHead
  BY <1>1, RowIsTyped
<1>3. Insert(row)
  BY DEF runDiffComment
<1> HIDE DEF row
<1>4. CommentsGo
  BY <1>1, <1>2, <1>3, InsertGoes
<1> QED
  BY <1>3, <1>4, CommentStep DEF Insert

LEMMA ReplyStep ==
    ASSUME ThreadsInv, NEW u \in Readers, NEW i \in CommentIds, NEW p \in BOOLEAN,
           AddDiffComment(u, i, p)
    PROVE  ThreadsInv' /\ PublishedKept
<1>1. i \in Roots /\ i \in Rows /\ Insert(Row(u, i, comment[i].head, Plain, p))
  BY DEF AddDiffComment, Roots
<1>2. comment[i].head \in 1..Len(commits) /\ comment[i].head \in Nat
  BY <1>1 DEF ThreadsInv, HeadsExist, ThreadShapes
<1> DEFINE row == Row(u, i, comment[i].head, Plain, p)
<1>3. row \in RowType /\ row.replyTo = i /\ row.head = comment[i].head
  BY <1>2 DEF Row, RowType
<1>4. Insert(row)
  BY <1>1
<1> HIDE DEF row
<1>5. CommentsGo
  BY <1>1, <1>2, <1>3, <1>4, InsertGoes
<1> QED
  BY <1>4, <1>5, CommentStep DEF Insert

LEMMA BatchStep ==
    ASSUME ThreadsInv, NEW u \in Readers, DiscardPendingComments(u) \/ PublishPendingComments(u)
    PROVE  ThreadsInv' /\ PublishedKept
<1>1. CommentsGo
  BY DiscardGoes, PublishGoes
<1>2. UNCHANGED <<commits, tip, mrHead, holds, applying>>
  BY DEF DiscardPendingComments, PublishPendingComments
<1> QED
  BY <1>1, <1>2, CommentStep

LEMMA ResolveStep ==
    ASSUME ThreadsInv, NEW u \in Readers, NEW i \in CommentIds, NEW r \in BOOLEAN,
           setThreadResolved(u, i, r)
    PROVE  ThreadsInv' /\ PublishedKept
<1>1. /\ comment' = SetThreadResolved(u, i, r)
      /\ UNCHANGED <<commits, tip, mrHead, holds, applying>>
  BY DEF setThreadResolved
<1> QED
  BY <1>1, ResolvedGoes, CommentStep

\* Steps that leave the comments alone.
LEMMA BranchStep ==
    ASSUME ThreadsInv, comment' = comment, BranchGoes, ApplyingGoes, RestGoes
    PROVE  ThreadsInv' /\ PublishedKept
BY CommentsUnchanged, StepGoes DEF CommentsGo

LEMMA PushStepOfThreads ==
    ASSUME ThreadsInv, Push
    PROVE  ThreadsInv' /\ PublishedKept
<1>1. PICK text \in Texts : Land(Commit(text, tip, 0))
  BY DEF Push
<1>2. tip \in Nat
  BY DEF ThreadsInv, ThreadsTypeOK, ThreadShapes
<1>3. BranchGoes
  BY <1>1, <1>2, LandGoes
<1>4. UNCHANGED <<comment, mrHead, holds, applying>>
  BY DEF Push
<1> QED
  BY <1>3, <1>4, BranchStep, ApplyingStands, RestStands

LEMMA RefsUpdatedStep ==
    ASSUME ThreadsInv, RefsUpdated
    PROVE  ThreadsInv' /\ PublishedKept
<1>1. mrHead' = tip /\ UNCHANGED <<comment, commits, tip, holds, applying>>
  BY DEF RefsUpdated
<1>2. RestGoes
  BY <1>1 DEF ThreadsInv, ThreadsTypeOK, RestGoes
<1> QED
  BY <1>1, <1>2, BranchStep, BranchStands, ApplyingStands

LEMMA ToggleStep ==
    ASSUME ThreadsInv, NEW h \in Holds, Toggle(h)
    PROVE  ThreadsInv' /\ PublishedKept
<1>1. /\ holds' = IF h \in holds THEN holds \ {h} ELSE holds \cup {h}
      /\ UNCHANGED <<comment, commits, tip, mrHead, applying>>
  BY DEF Toggle
<1>2. RestGoes
  BY <1>1 DEF ThreadsInv, ThreadsTypeOK, RestGoes
<1> QED
  BY <1>1, <1>2, BranchStep, BranchStands, ApplyingStands

LEMMA MadeStep ==
    ASSUME ThreadsInv, NEW u \in Readers, NEW i \in CommentIds, runMRApplySuggestion(u, i)
    PROVE  ThreadsInv' /\ PublishedKept
<1> DEFINE a == [step |-> "made", thread |-> i, tip |-> tip, text |-> comment[i].body]
<1>1. /\ i \in Suggestions /\ commits[tip].text = Original(i)
      /\ applying' = [applying EXCEPT ![u] = a]
      /\ UNCHANGED <<comment, commits, tip, mrHead, holds>>
  BY DEF runMRApplySuggestion, anchorReason
<1>2. tip \in 1..Len(commits) /\ tip \in Nat /\ comment[i].body \in Texts
  BY <1>1, SuggestionIsRow DEF ThreadsInv, ThreadsTypeOK, ThreadShapes
<1>3. a \in Applications /\ a.thread = i /\ a.tip = tip
  BY <1>2 DEF Applications
<1> HIDE DEF a
<1>4. applying \in [Readers -> Applications] /\ MadeWhereItStands
  BY DEF ThreadsInv, ThreadShapes
<1>5. applying' \in [Readers -> Applications]
  BY <1>1, <1>3, <1>4
<1>6. applying'[u] = a /\ \A v \in Readers \ {u} : applying'[v] = applying[v]
  BY <1>1, <1>4
<1>7. ApplyingGoes
  BY <1>1, <1>2, <1>3, <1>4, <1>5, <1>6 DEF ApplyingGoes, MadeWhereItStands
<1> QED
  BY <1>1, <1>7, BranchStep, BranchStands, RestStands

\* What an application that was made holds.
LEMMA MadeTyped ==
    ASSUME ThreadsInv, NEW u \in Readers, applying[u].step = "made"
    PROVE  /\ applying[u].text \in Texts /\ applying[u].thread \in CommentIds
           /\ applying[u].thread \in Suggestions
           /\ commits[applying[u].tip].text = Original(applying[u].thread)
<1>1. applying[u] \in Applications
  BY DEF ThreadsInv, ThreadShapes
<1> QED
  BY <1>1 DEF Applications, ThreadsInv, MadeWhereItStands

\* The others' applications stand when one goes on to a step that is not "made".
LEMMA OneGoesOn ==
    ASSUME ThreadsInv, NEW u \in Readers, NEW a \in Applications, a.step # "made",
           applying' = [applying EXCEPT ![u] = a]
    PROVE  ApplyingGoes
<1>1. applying \in [Readers -> Applications] /\ MadeWhereItStands
  BY DEF ThreadsInv, ThreadShapes
<1>2. applying' \in [Readers -> Applications]
  BY <1>1
<1>3. applying'[u] = a /\ \A v \in Readers \ {u} : applying'[v] = applying[v]
  BY <1>1
<1> QED
  BY <1>1, <1>2, <1>3 DEF ApplyingGoes, MadeWhereItStands

LEMMA AppliedStep ==
    ASSUME ThreadsInv, NEW u \in Readers, ApplyLands(u)
    PROVE  ThreadsInv' /\ PublishedKept
<1>1. applying[u].step = "made" /\ UNCHANGED <<comment, mrHead, holds>>
  BY DEF ApplyLands
<1>2. CASE applying[u].tip = tip
  <2> DEFINE a == [step |-> "landed", thread |-> applying[u].thread]
  <2>1. /\ Land(Commit(applying[u].text, applying[u].tip, applying[u].thread))
        /\ applying' = [applying EXCEPT ![u] = a]
    BY <1>2 DEF ApplyLands, UpdateRefCAS
  <2>2. tip \in Nat
    BY DEF ThreadsInv, ThreadsTypeOK, ThreadShapes
  <2>3. BranchGoes
    BY <1>1, <1>2, <2>1, <2>2, MadeTyped, LandGoes
  <2>4. a \in Applications /\ a.step # "made"
    BY <1>1, MadeTyped DEF Applications
  <2>5. ApplyingGoes
    BY <2>1, <2>4, OneGoesOn
  <2> QED
    BY <1>1, <2>3, <2>5, BranchStep, RestStands
<1>3. CASE applying[u].tip # tip
  <2> DEFINE a == [step |-> "idle"]
  <2>1. applying' = [applying EXCEPT ![u] = a] /\ UNCHANGED <<commits, tip>>
    BY <1>3 DEF ApplyLands, UpdateRefCAS
  <2>2. a \in Applications /\ a.step # "made"
    BY DEF Applications
  <2> QED
    BY <1>1, <2>1, <2>2, OneGoesOn, BranchStep, BranchStands, RestStands
<1> QED
  BY <1>2, <1>3

LEMMA AppliedResolves ==
    ASSUME ThreadsInv, NEW u \in Readers, ApplyResolves(u)
    PROVE  ThreadsInv' /\ PublishedKept
<1> DEFINE a == [step |-> "idle"]
<1>1. /\ comment' = SetThreadResolved(u, applying[u].thread, TRUE)
      /\ applying' = [applying EXCEPT ![u] = a]
      /\ UNCHANGED <<commits, tip, mrHead, holds>>
  BY DEF ApplyResolves
<1>2. a \in Applications /\ a.step # "made"
  BY DEF Applications
<1>3. CommentsGo
  BY <1>1, ResolvedGoes
<1>4. ApplyingGoes
  BY <1>1, <1>2, OneGoesOn
<1> QED
  BY <1>1, <1>3, <1>4, StepGoes, BranchStands, RestStands DEF CommentsGo

LEMMA ThreadsStep ==
    ASSUME ThreadsInv, [ThreadsNext]_threadVars
    PROVE  ThreadsInv' /\ PublishedKept
<1>1. CASE UNCHANGED threadVars
  BY <1>1, BranchStep, BranchStands, ApplyingStands, RestStands DEF threadVars
<1>2. CASE ThreadsNext
  BY <1>2, DiffCommentStep, ReplyStep, BatchStep, ResolveStep, PushStepOfThreads,
     RefsUpdatedStep, MadeStep, AppliedStep, AppliedResolves, ToggleStep DEF ThreadsNext
<1> QED
  BY <1>1, <1>2

LEMMA ThreadsStart ==
    ASSUME ThreadsInit
    PROVE  ThreadsInv
<1> DEFINE t == CHOOSE t \in Texts : TRUE
<1> DEFINE c == [text |-> t, parent |-> 0, onto |-> 0, of |-> 0]
<1>1. t \in Texts
  BY ThreadsAssumption
<1>2. commits = <<c>> /\ tip = 1 /\ mrHead = 1 /\ holds = {}
  BY DEF ThreadsInit
<1> HIDE DEF t
<1>3. c \in CommitRows /\ c.of = 0
  BY <1>1 DEF CommitRows
<1> HIDE DEF c
<1>4. commits \in Seq(CommitRows) /\ Len(commits) = 1 /\ commits[1] = c
  BY <1>2, <1>3
<1>5. comment = [i \in CommentIds |-> Nothing] /\ Rows = {}
  BY DEF ThreadsInit, Rows
<1>6. applying = [u \in Readers |-> [step |-> "idle"]]
  BY DEF ThreadsInit
<1>7. applying \in [Readers -> Applications] /\ \A u \in Readers : applying[u].step # "made"
  BY <1>6 DEF Applications
<1>8. ThreadsTypeOK
  BY <1>2, <1>4, <1>5 DEF ThreadsTypeOK, Holds
<1>9. ThreadShapes
  BY <1>4, <1>5, <1>7 DEF ThreadShapes
<1>10. CommentsNumbered /\ HeadsExist
  <2>1. 0 \in Nat
    OBVIOUS
  <2> QED
    BY <1>5, <2>1 DEF CommentsNumbered, HeadsExist
<1>11. MadeWhereItStands
  BY <1>7 DEF MadeWhereItStands
<1>12. \A d \in 1..Len(commits) : commits[d].of = 0
  BY <1>3, <1>4
<1> QED
  BY <1>8, <1>9, <1>10, <1>11, <1>12
     DEF ThreadsInv, AppliedNamesItsThread, SuggestionLandsOnItsLines

\* A reply is listed with its root, and a thread that holds a merge with who
\* may resolve it: what the type invariant says of replies is enough.
LEMMA ThreadsSeen ==
    ASSUME ThreadsInv
    PROVE  ThreadsInOrder
<1>1. ASSUME NEW i \in Rows, NEW v \in Readers, ~comment[i].pending,
             comment[i].replyTo # 0 => ~comment[comment[i].replyTo].pending
      PROVE  i \in runMRThreads(v)
  <2>1. comment[i].replyTo # 0 => comment[i].replyTo \in Rows
    BY DEF ThreadsInv, ThreadsTypeOK, Roots
  <2> QED
    BY <1>1, <2>1 DEF runMRThreads, ListDiffComments
<1>2. PublishedIsShown
  BY <1>1 DEF PublishedIsShown
<1>3. ASSUME NEW i \in UnresolvedThreadCount, NEW v \in TargetWriters
      PROVE  i \in runMRThreads(v) /\ canResolveThread(v, i)
  <2>1. i \in Rows /\ ~comment[i].pending /\ comment[i].replyTo = 0
    BY DEF UnresolvedThreadCount, Roots
  <2> QED
    BY <2>1 DEF runMRThreads, ListDiffComments, canResolveThread
<1>4. NothingUnseenBlocks
  BY <1>3 DEF NothingUnseenBlocks
<1> QED
  BY <1>2, <1>4 DEF ThreadsInOrder, ThreadsInv

\* Comments, commits and applications are what they should be, a reply has a
\* root that is none, and row numbers come after those in use
\* (store/diffcomments.go: AddDiffComment).
THEOREM ThreadsTypeCorrect ==
    ThreadsSpec => [](ThreadsTypeOK /\ ThreadShapes)
<1>1. ThreadsInit => ThreadsInv
  BY ThreadsStart
<1>2. ThreadsInv /\ [ThreadsNext]_threadVars => ThreadsInv'
  BY ThreadsStep
<1>3. ThreadsInv => ThreadsTypeOK /\ ThreadShapes
  BY DEF ThreadsInv
<1> QED
  BY <1>1, <1>2, <1>3, PTL DEF ThreadsSpec

\* What was submitted is shown to every reader, no merge is held by a thread
\* that somebody who would merge cannot see and resolve, and an applied
\* suggestion replaces the lines it was made against, on the commit it was
\* checked with, whoever pushes, discards or applies in between
\* (control/diffcomment.go, suggestion.go).
THEOREM ThreadsStayInOrder ==
    ThreadsSpec => []ThreadsInOrder
<1>1. ThreadsInit => ThreadsInv
  BY ThreadsStart
<1>2. ThreadsInv /\ [ThreadsNext]_threadVars => ThreadsInv'
  BY ThreadsStep
<1>3. ThreadsInv => ThreadsInOrder
  BY ThreadsSeen
<1> QED
  BY <1>1, <1>2, <1>3, PTL DEF ThreadsSpec

\* No step takes back a published comment, but for a reply to a comment that
\* is not (store/diffcomments.go: DiscardPendingComments).
THEOREM CommentsArePublishedForGood ==
    ThreadsSpec => PublishedStays
<1>1. ThreadsInit => ThreadsInv
  BY ThreadsStart
<1>2. ThreadsInv /\ [ThreadsNext]_threadVars => ThreadsInv'
  BY ThreadsStep
<1>3. ThreadsInv /\ [ThreadsNext]_threadVars =>
        [\A i \in Rows :
          ~comment[i].pending /\ comment[i].replyTo \notin {r \in Roots : comment[r].pending}
          => comment'[i] # Nothing /\ ~comment'[i].pending]_threadVars
  BY ThreadsStep DEF PublishedKept
<1> QED
  BY <1>1, <1>2, <1>3, PTL DEF ThreadsSpec, PublishedStays

-----------------------------------------------------------------------------
(* Pushes: the inductive invariant *)

PushTypes ==
    [step: {"idle"}]
    \cup [step: {"begun", "checked", "moved"}, ref: Refs, old: Commits \cup {0},
          new: Commits \cup {0}, late: BOOLEAN]

\* Refs, receive-packs and their tokens.
PushesTyped ==
    /\ gitRefs \in [Refs -> Commits \cup {0}]
    /\ push \in [PushIds -> PushTypes]
    /\ pushTokens = {p \in PushIds : push[p].step # "idle"}

IsSettings(s) ==
    /\ DOMAIN s = Fields
    /\ s.branches \subseteq Branches /\ s.tags \subseteq Tags
    /\ s.scan \in {"off", "warn", "block"}

\* A settings command wants what some settings hold.
SettingsTyped ==
    /\ IsSettings(settings)
    /\ changing = [a \in Admins |-> changing[a]]
    /\ \A a \in Admins : changing[a].step = "asked" =>
          \E s : IsSettings(s) /\ \A f \in changing[a].field : changing[a].wants[f] = s[f]

\* A push that is past its check was checked against the settings in force.
CheckedAsSet ==
    \A p \in PushIds : push[p].step = "checked" /\ ~push[p].late => CheckPush(push[p])

\* No push that is past its check moves the tag of a release.
CheckedLeavesTags ==
    \A p \in PushIds :
        push[p].step = "checked" /\ push[p].ref \in Tags
        /\ release[push[p].ref] # 0 /\ push[p].ref \notin raced => push[p].old = 0

\* The rows of releases are numbered, each its own.
ReleasesTyped ==
    /\ release \in [Tags -> Nat]
    /\ anchored = [t \in Tags |-> anchored[t]]
    /\ \E n \in Nat : \A i \in PushRowIds : i <= n
    /\ \A t \in Tags, u \in Tags : release[t] = release[u] => t = u \/ release[t] = 0

ReleasingTypes ==
    [step: {"idle"}] \cup [step: {"create"}, tag: Tags] \cup [step: {"remove", "rename"}, id: Nat]

PushesInv ==
    /\ PushesTyped /\ SettingsTyped /\ CheckedAsSet /\ CheckedLeavesTags
    /\ ReleasesTyped /\ releasing \in [Writers -> ReleasingTypes]
    /\ ReleaseKeepsItsTag /\ AssetsAreServed

\* What the two action properties say of a step.
LandsAsSet ==
    \A p \in PushIds :
        push[p].step = "checked" /\ push'[p].step = "moved" /\ ~push[p].late =>
           LET r == push[p].ref IN
           /\ r \in settings.branches /\ gitRefs[r] # 0 =>
                 gitRefs'[r] # 0 /\ Descends(gitRefs[r], gitRefs'[r]) /\ ~settings.requireMR
           /\ r \in settings.tags => gitRefs[r] = 0

KeepsTheRest ==
    \A a \in Admins :
        changing[a].step = "asked" /\ changing'[a].step = "idle" =>
           \A f \in Fields \ changing[a].field : settings'[f] = settings[f]

PushesGo == PushesInv' /\ LandsAsSet /\ KeepsTheRest

-----------------------------------------------------------------------------
(* Pushes: what stays when other parts move *)

LEMMA SettingsStand ==
    ASSUME PushesInv, UNCHANGED <<settings, changing>>
    PROVE  SettingsTyped' /\ KeepsTheRest
BY DEF PushesInv, SettingsTyped, KeepsTheRest

LEMMA ReleasesStand ==
    ASSUME PushesInv, UNCHANGED <<release, anchored>>
    PROVE  ReleasesTyped'
<1>1. PushRowIds' = PushRowIds
  BY DEF PushRowIds
<1> QED
  BY <1>1 DEF PushesInv, ReleasesTyped

LEMMA AssetsStand ==
    ASSUME PushesInv, UNCHANGED <<asset, file, releasing, crossedAssets>>
    PROVE  releasing' \in [Writers -> ReleasingTypes] /\ AssetsAreServed'
BY DEF PushesInv, AssetsAreServed

LEMMA CheckPushSame ==
    ASSUME settings' = settings, NEW u
    PROVE  CheckPush(u)' <=> CheckPush(u)
BY DEF CheckPush, TagProtected, IsDelete, IsForce, Descends

-----------------------------------------------------------------------------
(* Pushes: the steps of a push *)

\* What a step of one receive-pack leaves alone.
Elsewhere == UNCHANGED <<settings, changing, release, asset, file, releasing,
                         anchored, raced, crossedAssets>>

\* One receive-pack moves on, and no ref.
LEMMA OnePush ==
    ASSUME PushesInv, Elsewhere, NEW p \in PushIds, NEW x \in PushTypes,
           push' = [push EXCEPT ![p] = x],
           pushTokens' = IF x.step = "idle" THEN pushTokens \ {p} ELSE pushTokens \cup {p},
           x.step = "checked" => CheckPush(x) /\ releaseAnchors(x),
           \/ gitRefs' = gitRefs /\ x.step # "moved"
           \/ /\ x.step = "moved" /\ push[p].step = "checked"
              /\ gitRefs[push[p].ref] = push[p].old
              /\ gitRefs' = [gitRefs EXCEPT ![push[p].ref] = push[p].new]
    PROVE  PushesGo
<1>1. /\ gitRefs \in [Refs -> Commits \cup {0}]
      /\ push \in [PushIds -> PushTypes]
      /\ pushTokens = {q \in PushIds : push[q].step # "idle"}
  BY DEF PushesInv, PushesTyped
<1>2. push'[p] = x /\ \A q \in PushIds \ {p} : push'[q] = push[q]
  BY <1>1
<1>3. push' \in [PushIds -> PushTypes]
  BY <1>1
<1>4. pushTokens' = {q \in PushIds : push'[q].step # "idle"}
  BY <1>1, <1>2
<1>5. ASSUME push[p].step = "checked"
      PROVE  push[p].ref \in Refs /\ push[p].old \in Commits \cup {0}
             /\ push[p].new \in Commits \cup {0}
  BY <1>1, <1>5 DEF PushTypes
<1>6. gitRefs' \in [Refs -> Commits \cup {0}]
  BY <1>1, <1>5
<1>7. PushesTyped'
  BY <1>3, <1>4, <1>6 DEF PushesTyped
<1>8. settings' = settings /\ release' = release /\ raced' = raced /\ anchored' = anchored
  BY DEF Elsewhere
<1>9. CheckedAsSet'
  <2> SUFFICES ASSUME NEW q \in PushIds, push'[q].step = "checked", ~push'[q].late
               PROVE  CheckPush(push'[q])
    BY <1>8, CheckPushSame DEF CheckedAsSet, CheckPush, TagProtected
  <2>1. CASE q = p
    BY <1>2, <2>1
  <2>2. CASE q # p
    BY <1>2, <2>2 DEF PushesInv, CheckedAsSet
  <2> QED
    BY <2>1, <2>2
<1>10. CheckedLeavesTags'
  <2> SUFFICES ASSUME NEW q \in PushIds, push'[q].step = "checked", push'[q].ref \in Tags,
                      release[push'[q].ref] # 0, push'[q].ref \notin raced
               PROVE  push'[q].old = 0
    BY <1>8 DEF CheckedLeavesTags
  <2>1. CASE q = p
    BY <1>2, <2>1 DEF releaseAnchors
  <2>2. CASE q # p
    BY <1>2, <2>2 DEF PushesInv, CheckedLeavesTags
  <2> QED
    BY <2>1, <2>2
<1>11. ReleaseKeepsItsTag'
  <2> SUFFICES ASSUME NEW t \in Tags, release[t] # 0, t \notin raced
               PROVE  gitRefs'[t] = anchored[t] /\ gitRefs'[t] # 0
    BY <1>8 DEF ReleaseKeepsItsTag
  <2>1. gitRefs[t] = anchored[t] /\ gitRefs[t] # 0
    BY DEF PushesInv, ReleaseKeepsItsTag
  <2>2. gitRefs'[t] = gitRefs[t]
    <3>1. CASE gitRefs' = gitRefs
      BY <3>1
    <3>2. CASE /\ push[p].step = "checked" /\ gitRefs[push[p].ref] = push[p].old
               /\ gitRefs' = [gitRefs EXCEPT ![push[p].ref] = push[p].new]
      <4>1. push[p].ref # t
        BY <2>1, <3>2 DEF PushesInv, CheckedLeavesTags
      <4> QED
        BY <1>1, <3>2, <4>1 DEF Refs
    <3> QED
      BY <3>1, <3>2
  <2> QED
    BY <2>1, <2>2
<1>12. LandsAsSet
  <2> SUFFICES ASSUME NEW q \in PushIds, push[q].step = "checked", push'[q].step = "moved",
                      ~push[q].late
               PROVE  LET r == push[q].ref IN
                      /\ r \in settings.branches /\ gitRefs[r] # 0 =>
                           gitRefs'[r] # 0 /\ Descends(gitRefs[r], gitRefs'[r]) /\ ~settings.requireMR
                      /\ r \in settings.tags => gitRefs[r] = 0
    BY DEF LandsAsSet
  <2>1. q = p /\ x.step = "moved"
    BY <1>2
  <2>2. CheckPush(push[p])
    BY <2>1 DEF PushesInv, CheckedAsSet
  <2>3. /\ gitRefs[push[p].ref] = push[p].old
        /\ gitRefs'[push[p].ref] = push[p].new
    BY <1>1, <1>5, <2>1
  <2>4. settings.tags \subseteq Tags
    BY DEF PushesInv, SettingsTyped, IsSettings
  <2> QED
    BY <2>1, <2>2, <2>3, <2>4 DEF CheckPush, IsDelete, IsForce, TagProtected
<1> QED
  BY <1>7, <1>9, <1>10, <1>11, <1>12, SettingsStand, ReleasesStand, AssetsStand
     DEF PushesGo, PushesInv, Elsewhere

LEMMA PushEndsGoes ==
    ASSUME PushesInv, NEW p \in PushIds, PushEnds(p)
    PROVE  PushesGo
<1>1. /\ push' = [push EXCEPT ![p] = AtRest] /\ pushTokens' = pushTokens \ {p}
      /\ gitRefs' = gitRefs /\ Elsewhere
  BY DEF PushEnds, Elsewhere
<1>2. AtRest \in PushTypes /\ AtRest.step = "idle"
  BY DEF AtRest, PushTypes
<1> QED
  BY <1>1, <1>2, OnePush

LEMMA runGitGoes ==
    ASSUME PushesInv, NEW p \in PushIds, runGit(p)
    PROVE  PushesGo
<1>1. PICK r \in Refs, new \in Commits \cup {0} :
        push' = [push EXCEPT ![p] = [step |-> "begun", ref |-> r, old |-> gitRefs[r],
                                     new |-> new, late |-> FALSE]]
  BY DEF runGit
<1>2. gitRefs[r] \in Commits \cup {0}
  BY DEF PushesInv, PushesTyped
<1> DEFINE x == [step |-> "begun", ref |-> r, old |-> gitRefs[r], new |-> new, late |-> FALSE]
<1>3. x \in PushTypes /\ x.step = "begun"
  BY <1>2 DEF PushTypes
<1>4. push' = [push EXCEPT ![p] = x]
  BY <1>1
<1>5. pushTokens' = pushTokens \cup {p} /\ gitRefs' = gitRefs /\ Elsewhere
  BY DEF runGit, Elsewhere
<1> HIDE DEF x
<1> QED
  BY <1>3, <1>4, <1>5, OnePush

\* A receive-pack that goes on holds its token.
LEMMA OnPush ==
    ASSUME PushesInv, NEW p \in PushIds, push[p].step \in {"begun", "checked"},
           NEW st \in {"checked", "moved"}
    PROVE  LET x == [push[p] EXCEPT !.step = st] IN
           /\ x \in PushTypes /\ x.step = st
           /\ x.ref = push[p].ref /\ x.old = push[p].old /\ x.new = push[p].new
           /\ p \in pushTokens
<1>1. push[p] \in PushTypes /\ p \in pushTokens
  BY DEF PushesInv, PushesTyped
<1>2. push[p] \in [step: {"begun", "checked", "moved"}, ref: Refs, old: Commits \cup {0},
                   new: Commits \cup {0}, late: BOOLEAN]
  BY <1>1 DEF PushTypes
<1> HIDE DEF PushTypes
<1>3. [push[p] EXCEPT !.step = st] \in
        [step: {"begun", "checked", "moved"}, ref: Refs, old: Commits \cup {0},
         new: Commits \cup {0}, late: BOOLEAN]
  BY <1>2
<1>4. /\ [push[p] EXCEPT !.step = st].step = st
      /\ [push[p] EXCEPT !.step = st].ref = push[p].ref
      /\ [push[p] EXCEPT !.step = st].old = push[p].old
      /\ [push[p] EXCEPT !.step = st].new = push[p].new
  BY <1>2
<1> QED
  BY <1>1, <1>3, <1>4 DEF PushTypes

LEMMA preReceiveGoes ==
    ASSUME PushesInv, NEW p \in PushIds, preReceive(p)
    PROVE  PushesGo
<1>1. /\ push[p].step = "begun" /\ CheckPush(push[p]) /\ releaseAnchors(push[p])
      /\ push' = [push EXCEPT ![p].step = "checked"]
      /\ gitRefs' = gitRefs /\ pushTokens' = pushTokens /\ Elsewhere
  BY DEF preReceive, Allowed, Elsewhere
<1> DEFINE x == [push[p] EXCEPT !.step = "checked"]
<1>2. /\ x \in PushTypes /\ x.step = "checked"
      /\ x.ref = push[p].ref /\ x.old = push[p].old /\ x.new = push[p].new
      /\ p \in pushTokens
  BY <1>1, OnPush
<1>3. push' = [push EXCEPT ![p] = x]
  BY <1>1
<1> HIDE DEF x
<1>4. CheckPush(x) /\ releaseAnchors(x)
  BY <1>1, <1>2 DEF CheckPush, IsDelete, IsForce, releaseAnchors
<1>5. pushTokens' = pushTokens \cup {p}
  BY <1>1, <1>2
<1> QED
  BY <1>1, <1>2, <1>3, <1>4, <1>5, OnePush

LEMMA RefTransactionGoes ==
    ASSUME PushesInv, NEW p \in PushIds, RefTransaction(p)
    PROVE  PushesGo
<1>1. /\ push[p].step = "checked" /\ gitRefs[push[p].ref] = push[p].old
      /\ gitRefs' = [gitRefs EXCEPT ![push[p].ref] = push[p].new]
      /\ push' = [push EXCEPT ![p].step = "moved"]
      /\ pushTokens' = pushTokens /\ Elsewhere
  BY DEF RefTransaction, Elsewhere
<1> DEFINE x == [push[p] EXCEPT !.step = "moved"]
<1>2. x \in PushTypes /\ x.step = "moved" /\ p \in pushTokens
  BY <1>1, OnPush
<1>3. push' = [push EXCEPT ![p] = x]
  BY <1>1
<1> HIDE DEF x
<1>4. pushTokens' = pushTokens \cup {p}
  BY <1>1, <1>2
<1> QED
  BY <1>1, <1>2, <1>3, <1>4, OnePush

LEMMA PushStepGoes ==
    ASSUME PushesInv, NEW p \in PushIds, PushStep(p)
    PROVE  PushesGo
BY runGitGoes, preReceiveGoes, RefTransactionGoes, PushEndsGoes
   DEF PushStep, refusePush, RefMoved, postReceive, cutStalledPush


-----------------------------------------------------------------------------
(* Pushes: the settings *)

\* Every command makes settings of settings.
LEMMA CommandsMakeSettings ==
    ASSUME NEW s, IsSettings(s), NEW c \in Commands(s)
    PROVE  IsSettings(c.next)
<1>1. CASE \E b \in Branches, on \in BOOLEAN : c = [field |-> {"branches"}, next |-> setProtect(s, b, on)]
  BY <1>1 DEF IsSettings, setProtect, Fields
<1>2. CASE \E t \in Tags, on \in BOOLEAN : c = [field |-> {"tags"}, next |-> setProtectTag(s, t, on)]
  BY <1>2 DEF IsSettings, setProtectTag, Fields
<1>3. CASE \E f \in {"requireMR", "signed"}, on \in BOOLEAN :
             c = [field |-> {f}, next |-> setRepoToggle(s, f, on)]
  BY <1>3 DEF IsSettings, setRepoToggle, Fields
<1>4. CASE \E on \in BOOLEAN : c = [field |-> {"contexts", "checks"}, next |-> runRequireContexts(s, on)]
  <2>1. PICK on \in BOOLEAN : c.next = runRequireContexts(s, on)
    BY <1>4
  <2> DEFINE r == runRequireContexts(s, on)
  <2>2. DOMAIN r = DOMAIN s
    BY DEF runRequireContexts
  <2>3. {"branches", "tags", "scan"} \subseteq DOMAIN s
    BY DEF IsSettings, Fields
  <2>4. r.branches = s.branches /\ r.tags = s.tags /\ r.scan = s.scan
    BY <2>3 DEF runRequireContexts
  <2> QED
    BY <2>1, <2>2, <2>4 DEF IsSettings
<1>5. CASE \E m \in {"off", "warn", "block"} : c = [field |-> {"scan"}, next |-> runSecretScanMode(s, m)]
  BY <1>5 DEF IsSettings, runSecretScanMode, Fields
<1>6. CASE \E on \in BOOLEAN : c = [field |-> {"archived"}, next |-> archivePushRepo(s, on)]
  BY <1>6 DEF IsSettings, archivePushRepo, Fields
<1> QED
  BY <1>1, <1>2, <1>3, <1>4, <1>5, <1>6 DEF Commands

\* The refs and releases stay while settings change.
LEMMA ReleaseSideStands ==
    ASSUME PushesInv, UNCHANGED <<gitRefs, release, anchored, raced>>,
           \A p \in PushIds : /\ push'[p].step = push[p].step
                              /\ push[p].step = "checked" =>
                                   push'[p].ref = push[p].ref /\ push'[p].old = push[p].old
    PROVE  CheckedLeavesTags' /\ ReleaseKeepsItsTag'
BY DEF PushesInv, CheckedLeavesTags, ReleaseKeepsItsTag

LEMMA AskSettingsGoes ==
    ASSUME PushesInv, NEW a \in Admins, AskSettings(a)
    PROVE  PushesGo
<1>1. PICK c \in Commands(settings) :
        changing' = [changing EXCEPT ![a] =
          [step |-> "asked", field |-> c.field, wants |-> [f \in c.field |-> c.next[f]],
           saw |-> settings]]
  BY DEF AskSettings
<1>2. /\ changing[a].step = "idle"
      /\ UNCHANGED <<gitRefs, settings, push, pushTokens, release, asset, file, releasing,
                     anchored, raced, crossedAssets>>
  BY DEF AskSettings
<1>3. IsSettings(settings) /\ changing = [b \in Admins |-> changing[b]]
  BY DEF PushesInv, SettingsTyped
<1>4. IsSettings(c.next)
  BY <1>3, CommandsMakeSettings
<1>5. /\ changing' = [b \in Admins |-> changing'[b]]
      /\ changing'[a] = [step |-> "asked", field |-> c.field,
                         wants |-> [f \in c.field |-> c.next[f]], saw |-> settings]
      /\ \A b \in Admins \ {a} : changing'[b] = changing[b]
  BY <1>1, <1>3
<1>6. \A f \in changing'[a].field : changing'[a].wants[f] = c.next[f]
  BY <1>5
<1>7. SettingsTyped'
  BY <1>2, <1>3, <1>4, <1>5, <1>6 DEF PushesInv, SettingsTyped, IsSettings
<1>8. KeepsTheRest
  BY <1>2 DEF KeepsTheRest
<1>9. PushesTyped' /\ CheckedAsSet'
  BY <1>2 DEF PushesInv, PushesTyped, CheckedAsSet, CheckPush, TagProtected
<1>10. LandsAsSet
  BY <1>2 DEF LandsAsSet
<1> QED
  BY <1>2, <1>7, <1>8, <1>9, <1>10, ReleaseSideStands, ReleasesStand, AssetsStand
     DEF PushesGo, PushesInv

LEMMA LateTyped ==
    ASSUME NEW x \in PushTypes, x.step = "checked"
    PROVE  LET y == [x EXCEPT !.late = TRUE] IN
           y \in PushTypes /\ y.step = "checked" /\ y.late
           /\ y.ref = x.ref /\ y.old = x.old
<1>1. x \in [step: {"begun", "checked", "moved"}, ref: Refs, old: Commits \cup {0},
             new: Commits \cup {0}, late: BOOLEAN]
  BY DEF PushTypes
<1>2. [x EXCEPT !.late = TRUE] \in
        [step: {"begun", "checked", "moved"}, ref: Refs, old: Commits \cup {0},
         new: Commits \cup {0}, late: BOOLEAN]
  BY <1>1
<1>3. /\ [x EXCEPT !.late = TRUE].step = x.step /\ [x EXCEPT !.late = TRUE].late = TRUE
      /\ [x EXCEPT !.late = TRUE].ref = x.ref /\ [x EXCEPT !.late = TRUE].old = x.old
  BY <1>1
<1> QED
  BY <1>2, <1>3 DEF PushTypes

LEMMA WriteSettingsGoes ==
    ASSUME PushesInv, NEW a \in Admins, WriteSettings(a)
    PROVE  PushesGo
<1>1. /\ changing[a].step = "asked" /\ settings' = UpdateRepoSettings(a)
      /\ changing' = [changing EXCEPT ![a] = AtRest]
      /\ UNCHANGED <<gitRefs, pushTokens, release, asset, file, releasing, anchored, raced,
                     crossedAssets>>
  BY DEF WriteSettings
<1>2. push' = [p \in PushIds |->
                 IF push[p].step = "checked" THEN [push[p] EXCEPT !.late = TRUE] ELSE push[p]]
  BY DEF WriteSettings
<1>3. IsSettings(settings) /\ changing = [b \in Admins |-> changing[b]]
  BY DEF PushesInv, SettingsTyped
<1>4. PICK s : IsSettings(s) /\ \A f \in changing[a].field : changing[a].wants[f] = s[f]
  BY <1>1 DEF PushesInv, SettingsTyped
<1>5. /\ DOMAIN settings' = Fields
      /\ \A f \in Fields : settings'[f] = s[f] \/ settings'[f] = settings[f]
      /\ \A f \in Fields \ changing[a].field : settings'[f] = settings[f]
  BY <1>1, <1>4 DEF UpdateRepoSettings
<1>6. IsSettings(settings')
  <2>1. {"branches", "tags", "scan"} \subseteq Fields
    BY DEF Fields
  <2> QED
    BY <1>3, <1>4, <1>5, <2>1 DEF IsSettings
<1>7. /\ changing' = [b \in Admins |-> changing'[b]]
      /\ changing'[a] = AtRest
      /\ \A b \in Admins \ {a} : changing'[b] = changing[b]
  BY <1>1, <1>3
<1>8. SettingsTyped'
  BY <1>6, <1>7 DEF PushesInv, SettingsTyped, IsSettings, AtRest
<1>9. KeepsTheRest
  BY <1>5, <1>7 DEF KeepsTheRest
<1>10. push \in [PushIds -> PushTypes]
  BY DEF PushesInv, PushesTyped
<1>11. ASSUME NEW p \in PushIds
       PROVE  /\ push'[p] \in PushTypes /\ push'[p].step = push[p].step
              /\ push[p].step = "checked" =>
                   push'[p].late /\ push'[p].ref = push[p].ref /\ push'[p].old = push[p].old
  BY <1>2, <1>10, LateTyped
<1>12. push' \in [PushIds -> PushTypes]
  <2>1. push' = [p \in PushIds |-> push'[p]]
    BY <1>2
  <2> QED
    BY <1>11, <2>1
<1>13. PushesTyped'
  BY <1>1, <1>11, <1>12 DEF PushesInv, PushesTyped
<1>14. CheckedAsSet' /\ LandsAsSet
  BY <1>11 DEF CheckedAsSet, LandsAsSet
<1>15. CheckedLeavesTags' /\ ReleaseKeepsItsTag'
  BY <1>1, <1>11, ReleaseSideStands
<1> QED
  BY <1>1, <1>8, <1>9, <1>13, <1>14, <1>15, ReleasesStand, AssetsStand DEF PushesGo, PushesInv

-----------------------------------------------------------------------------
(* Pushes: the releases *)

\* What a step of a release command leaves alone.
PushSideStands == UNCHANGED <<gitRefs, settings, push, pushTokens, changing>>

LEMMA PushSide ==
    ASSUME PushesInv, PushSideStands
    PROVE  /\ PushesTyped' /\ SettingsTyped' /\ CheckedAsSet'
           /\ LandsAsSet /\ KeepsTheRest
<1>1. UNCHANGED <<gitRefs, settings, push, pushTokens, changing>>
  BY DEF PushSideStands
<1>2. PushesTyped' /\ CheckedAsSet'
  BY <1>1 DEF PushesInv, PushesTyped, CheckedAsSet, CheckPush, TagProtected
<1>3. LandsAsSet
  BY <1>1 DEF LandsAsSet
<1> QED
  BY <1>1, <1>2, <1>3, SettingsStand

LEMMA TagsStand ==
    ASSUME PushesInv, PushSideStands, UNCHANGED <<release, anchored, raced>>
    PROVE  ReleasesTyped' /\ CheckedLeavesTags' /\ ReleaseKeepsItsTag'
BY ReleaseSideStands, ReleasesStand DEF PushSideStands

\* A writer's command takes a step.
LEMMA WriterGoes ==
    ASSUME PushesInv, NEW w \in Writers, NEW x \in ReleasingTypes, Steps(w, x)
    PROVE  /\ releasing' \in [Writers -> ReleasingTypes]
           /\ releasing'[w] = x /\ \A v \in Writers \ {w} : releasing'[v] = releasing[v]
BY DEF PushesInv, Steps

\* Every listed asset was listed before, or its file is about to be renamed.
LEMMA AssetsGo ==
    ASSUME PushesInv, NEW w \in Writers, NEW x \in ReleasingTypes, Steps(w, x),
           \A i \in asset' : i \in asset \/ (x.step = "rename" /\ x.id = i),
           crossedAssets \subseteq crossedAssets',
           \A i \in file \ file' : i \in asset' => i \in crossedAssets',
           releasing[w].step = "rename" => releasing[w].id \notin asset' \/ releasing[w].id \in file'
    PROVE  AssetsAreServed'
<1>1. releasing'[w] = x /\ \A v \in Writers \ {w} : releasing'[v] = releasing[v]
  BY WriterGoes
<1> SUFFICES ASSUME NEW i \in asset' \ crossedAssets', i \notin file'
             PROVE  \E v \in Writers : releasing'[v].step = "rename" /\ releasing'[v].id = i
  BY DEF AssetsAreServed
<1>2. CASE i \notin asset
  BY <1>1, <1>2
<1>3. CASE i \in asset
  <2>1. i \notin crossedAssets /\ i \notin file
    OBVIOUS
  <2>2. PICK v \in Writers : releasing[v].step = "rename" /\ releasing[v].id = i
    BY <1>3, <2>1 DEF PushesInv, AssetsAreServed
  <2>3. v # w
    BY <2>2
  <2> QED
    BY <1>1, <2>2, <2>3
<1> QED
  BY <1>2, <1>3

LEMMA AskReleaseGoes ==
    ASSUME PushesInv, NEW w \in Writers, NEW t \in Tags, AskRelease(w, t)
    PROVE  PushesGo
<1>1. /\ releasing[w].step = "idle" /\ Steps(w, [step |-> "create", tag |-> t])
      /\ PushSideStands /\ UNCHANGED <<release, asset, file, anchored, raced, crossedAssets>>
  BY DEF AskRelease, PushSideStands
<1>2. [step |-> "create", tag |-> t] \in ReleasingTypes
  BY DEF ReleasingTypes
<1>3. AssetsAreServed'
  BY <1>1, <1>2, AssetsGo
<1> QED
  BY <1>1, <1>2, <1>3, WriterGoes, PushSide, TagsStand DEF PushesGo, PushesInv

\* A new release has a number of its own.
LEMMA NewRelease ==
    ASSUME PushesInv, NEW t \in Tags, release[t] = 0,
           release' = [release EXCEPT ![t] = NextRelease],
           NEW c, anchored' = [anchored EXCEPT ![t] = c]
    PROVE  ReleasesTyped'
<1> DEFINE k == NextRelease
<1>1. release \in [Tags -> Nat] /\ anchored = [u \in Tags |-> anchored[u]]
  BY DEF PushesInv, ReleasesTyped
<1>2. PICK n \in Nat : \A i \in PushRowIds : i <= n
  BY DEF PushesInv, ReleasesTyped
<1>3. PushRowIds \in SUBSET Nat
  BY <1>1 DEF PushRowIds
<1>4. k \in Nat \ {0} /\ k \notin PushRowIds /\ \A i \in PushRowIds : i < k
  <2>1. NextRelease = After(PushRowIds)
    BY DEF NextRelease, After
  <2> QED
    BY <1>2, <1>3, <2>1, NextIsNew
<1>13. release' = [release EXCEPT ![t] = k]
  OBVIOUS
<1> HIDE DEF k
<1>5. release'[t] = k /\ \A u \in Tags \ {t} : release'[u] = release[u]
  BY <1>1, <1>13
<1>6. release' \in [Tags -> Nat] /\ anchored' = [u \in Tags |-> anchored'[u]]
  BY <1>1, <1>4, <1>13
<1>7. \A i \in PushRowIds' : i = k \/ i \in PushRowIds
  BY <1>5 DEF PushRowIds
<1>8. ASSUME NEW i \in PushRowIds' PROVE i <= k
  <2>1. CASE i = k
    BY <1>4, <2>1
  <2>2. CASE i \in PushRowIds
    <3>1. i \in Nat /\ k \in Nat /\ i < k
      BY <1>3, <1>4, <2>2
    <3> QED
      BY <3>1
  <2> QED
    BY <1>7, <2>1, <2>2
<1>9. \A u \in Tags : release[u] # 0 => release[u] \in PushRowIds
  BY DEF PushRowIds
<1>10. ASSUME NEW u \in Tags, NEW v \in Tags, release'[u] = release'[v]
       PROVE  u = v \/ release'[u] = 0
  <2>1. CASE u # t /\ v # t
    BY <1>5, <1>10, <2>1 DEF PushesInv, ReleasesTyped
  <2>2. CASE u = t \/ v = t
    BY <1>4, <1>5, <1>9, <1>10, <2>2
  <2> QED
    BY <2>1, <2>2
<1> QED
  BY <1>4, <1>6, <1>8, <1>10 DEF ReleasesTyped

LEMMA CreateReleaseGoes ==
    ASSUME PushesInv, NEW w \in Writers, CreateRelease(w)
    PROVE  PushesGo
<1> DEFINE t == releasing[w].tag
<1>1. /\ releasing[w].step = "create" /\ Steps(w, AtRest) /\ PushSideStands
      /\ UNCHANGED <<asset, file, crossedAssets>>
  BY DEF CreateRelease, PushSideStands
<1>2. AtRest \in ReleasingTypes
  BY DEF AtRest, ReleasingTypes
<1>3. releasing[w] \in ReleasingTypes
  BY DEF PushesInv
<1>4. t \in Tags
  BY <1>1, <1>3 DEF ReleasingTypes
<1>5. AssetsAreServed'
  BY <1>1, <1>2, AssetsGo
<1>6. CASE release[t] # 0
  <2>1. UNCHANGED <<release, anchored, raced>>
    BY <1>6 DEF CreateRelease
  <2> QED
    BY <1>1, <1>2, <1>5, <2>1, WriterGoes, PushSide, TagsStand DEF PushesGo, PushesInv
<1>7. CASE release[t] = 0
  <2>1. /\ release' = [release EXCEPT ![t] = NextRelease]
        /\ anchored' = [anchored EXCEPT ![t] = gitRefs[t]]
        /\ raced' = IF InRace(t) THEN raced \cup {t} ELSE raced \ {t}
    BY <1>7 DEF CreateRelease
  <2> HIDE DEF t
  <2>2. ReleasesTyped'
    BY <1>4, <1>7, <2>1, NewRelease
  <2>3. release \in [Tags -> Nat] /\ anchored = [u \in Tags |-> anchored[u]]
    BY DEF PushesInv, ReleasesTyped
  <2>4. /\ \A u \in Tags \ {t} : release'[u] = release[u] /\ anchored'[u] = anchored[u]
        /\ \A u \in Tags \ {t} : u \in raced' <=> u \in raced
        /\ t \in raced' <=> InRace(t)
        /\ anchored'[t] = gitRefs[t]
    BY <1>4, <2>1, <2>3
  <2>5. gitRefs' = gitRefs /\ push' = push
    BY <1>1 DEF PushSideStands
  <2>6. CheckedLeavesTags'
    <3> SUFFICES ASSUME NEW p \in PushIds, push[p].step = "checked", push[p].ref \in Tags,
                        release'[push[p].ref] # 0, push[p].ref \notin raced'
                 PROVE  push[p].old = 0
      BY <2>5 DEF CheckedLeavesTags
    <3>1. push[p].ref # t
      BY <2>4 DEF InRace
    <3> QED
      BY <2>4, <3>1 DEF PushesInv, CheckedLeavesTags
  <2>7. ReleaseKeepsItsTag'
    <3> SUFFICES ASSUME NEW u \in Tags, release'[u] # 0, u \notin raced'
                 PROVE  gitRefs[u] = anchored'[u] /\ gitRefs[u] # 0
      BY <2>5 DEF ReleaseKeepsItsTag
    <3>1. CASE u = t
      BY <2>4, <3>1 DEF InRace
    <3>2. CASE u # t
      BY <2>4, <3>2 DEF PushesInv, ReleaseKeepsItsTag
    <3> QED
      BY <3>1, <3>2
  <2> QED
    BY <1>1, <1>2, <1>5, <2>2, <2>6, <2>7, WriterGoes, PushSide DEF PushesGo, PushesInv
<1> QED
  BY <1>6, <1>7

LEMMA DeleteReleaseGoes ==
    ASSUME PushesInv, NEW w \in Writers, NEW t \in Tags, DeleteRelease(w, t)
    PROVE  PushesGo
<1> DEFINE x == [step |-> "remove", id |-> release[t]]
<1>1. /\ releasing[w].step = "idle" /\ release' = [release EXCEPT ![t] = 0]
      /\ asset' = asset \ {release[t]} /\ Steps(w, x) /\ PushSideStands
      /\ UNCHANGED <<file, anchored, raced, crossedAssets>>
  BY DEF DeleteRelease, PushSideStands
<1>2. /\ release \in [Tags -> Nat] /\ anchored = [u \in Tags |-> anchored[u]]
      /\ \A u \in Tags, v \in Tags : release[u] = release[v] => u = v \/ release[u] = 0
  BY DEF PushesInv, ReleasesTyped
<1>3. x \in ReleasingTypes /\ x.step = "remove"
  BY <1>2 DEF ReleasingTypes
<1> HIDE DEF x
<1>4. /\ release'[t] = 0 /\ \A u \in Tags \ {t} : release'[u] = release[u]
      /\ release' \in [Tags -> Nat]
  BY <1>1, <1>2
<1>5. PushRowIds' \subseteq PushRowIds
  BY <1>4 DEF PushRowIds
<1>6. ReleasesTyped'
  BY <1>1, <1>2, <1>4, <1>5 DEF PushesInv, ReleasesTyped
<1>7. gitRefs' = gitRefs /\ push' = push
  BY <1>1 DEF PushSideStands
<1>8. CheckedLeavesTags' /\ ReleaseKeepsItsTag'
  BY <1>1, <1>4, <1>7 DEF PushesInv, CheckedLeavesTags, ReleaseKeepsItsTag
<1>9. AssetsAreServed'
  BY <1>1, <1>3, AssetsGo
<1> QED
  BY <1>1, <1>3, <1>6, <1>8, <1>9, WriterGoes, PushSide DEF PushesGo, PushesInv

LEMMA RemoveFilesGoes ==
    ASSUME PushesInv, NEW w \in Writers, RemoveFiles(w)
    PROVE  PushesGo
<1>1. /\ releasing[w].step = "remove" /\ file' = file \ {releasing[w].id}
      /\ crossedAssets' = IF releasing[w].id \in asset THEN crossedAssets \cup {releasing[w].id}
                                                       ELSE crossedAssets
      /\ Steps(w, AtRest) /\ PushSideStands
      /\ UNCHANGED <<release, asset, anchored, raced>>
  BY DEF RemoveFiles, PushSideStands
<1>2. AtRest \in ReleasingTypes
  BY DEF AtRest, ReleasingTypes
<1>3. AssetsAreServed'
  BY <1>1, <1>2, AssetsGo
<1> QED
  BY <1>1, <1>2, <1>3, WriterGoes, PushSide, TagsStand DEF PushesGo, PushesInv

LEMMA AssetCommandGoes ==
    ASSUME PushesInv, NEW w \in Writers, NEW t \in Tags,
           runAssetAdd(w, t) \/ runAssetRemove(w, t)
    PROVE  PushesGo
<1>1. release[t] \in Nat
  BY DEF PushesInv, ReleasesTyped
<1>2. CASE runAssetAdd(w, t)
  <2> DEFINE x == [step |-> "rename", id |-> release[t]]
  <2>1. /\ releasing[w].step = "idle" /\ asset' = asset \cup {release[t]} /\ Steps(w, x)
        /\ PushSideStands /\ UNCHANGED <<release, file, anchored, raced, crossedAssets>>
    BY <1>2 DEF runAssetAdd, PushSideStands
  <2>2. x \in ReleasingTypes /\ x.step = "rename" /\ x.id = release[t]
    BY <1>1 DEF ReleasingTypes
  <2> HIDE DEF x
  <2>3. AssetsAreServed'
    BY <2>1, <2>2, AssetsGo
  <2> QED
    BY <2>1, <2>2, <2>3, WriterGoes, PushSide, TagsStand DEF PushesGo, PushesInv
<1>3. CASE runAssetRemove(w, t)
  <2> DEFINE x == [step |-> "remove", id |-> release[t]]
  <2>1. /\ releasing[w].step = "idle" /\ asset' = asset \ {release[t]} /\ Steps(w, x)
        /\ PushSideStands /\ UNCHANGED <<release, file, anchored, raced, crossedAssets>>
    BY <1>3 DEF runAssetRemove, PushSideStands
  <2>2. x \in ReleasingTypes /\ x.step = "remove"
    BY <1>1 DEF ReleasingTypes
  <2> HIDE DEF x
  <2>3. AssetsAreServed'
    BY <2>1, <2>2, AssetsGo
  <2> QED
    BY <2>1, <2>2, <2>3, WriterGoes, PushSide, TagsStand DEF PushesGo, PushesInv
<1> QED
  BY <1>2, <1>3

LEMMA RenameAssetGoes ==
    ASSUME PushesInv, NEW w \in Writers, RenameAsset(w)
    PROVE  PushesGo
<1>1. /\ releasing[w].step = "rename" /\ Steps(w, AtRest) /\ PushSideStands
      /\ UNCHANGED <<release, anchored, raced, crossedAssets>>
  BY DEF RenameAsset, PushSideStands
<1>2. \/ file' = file \cup {releasing[w].id} /\ asset' = asset
      \/ asset' = asset \ {releasing[w].id} /\ file' = file
  BY DEF RenameAsset, RenameFailed
<1>3. AtRest \in ReleasingTypes
  BY DEF AtRest, ReleasingTypes
<1>4. AssetsAreServed'
  BY <1>1, <1>2, <1>3, AssetsGo
<1> QED
  BY <1>1, <1>3, <1>4, WriterGoes, PushSide, TagsStand DEF PushesGo, PushesInv

-----------------------------------------------------------------------------
(* Pushes: the theorems *)

LEMMA PushesStep ==
    ASSUME PushesInv, [PushesNext]_pushVars
    PROVE  PushesGo
<1>1. CASE UNCHANGED pushVars
  <2>1. PushSideStands /\ UNCHANGED <<release, asset, file, releasing, anchored, raced, crossedAssets>>
    BY <1>1 DEF pushVars, PushSideStands
  <2> QED
    BY <2>1, PushSide, TagsStand, AssetsStand DEF PushesGo, PushesInv
<1>2. CASE \E p \in PushIds : PushStep(p)
  BY <1>2, PushStepGoes
<1>3. CASE \E a \in Admins : AskSettings(a) \/ WriteSettings(a)
  BY <1>3, AskSettingsGoes, WriteSettingsGoes
<1>4. CASE \E w \in Writers : ReleaseStep(w)
  BY <1>4, CreateReleaseGoes, RemoveFilesGoes, RenameAssetGoes, AskReleaseGoes,
     DeleteReleaseGoes, AssetCommandGoes DEF ReleaseStep
<1> QED
  BY <1>1, <1>2, <1>3, <1>4 DEF PushesNext

LEMMA PushesStart ==
    ASSUME PushesInit
    PROVE  PushesInv
<1>1. gitRefs = [r \in Refs |-> 1] /\ push = [p \in PushIds |-> AtRest] /\ pushTokens = {}
  BY DEF PushesInit
<1>2. 1 \in Commits \cup {0}
  BY PushesAssumption
<1>3. AtRest \in PushTypes /\ AtRest \in ReleasingTypes /\ AtRest.step = "idle"
  BY DEF AtRest, PushTypes, ReleasingTypes
<1>4. PushesTyped
  BY <1>1, <1>2, <1>3 DEF PushesTyped
<1>5. CheckedAsSet /\ CheckedLeavesTags
  BY <1>1, <1>3 DEF CheckedAsSet, CheckedLeavesTags
<1>6. IsSettings(settings)
  BY DEF PushesInit, IsSettings, Fields
<1>7. SettingsTyped
  BY <1>3, <1>6 DEF PushesInit, SettingsTyped
<1>8. /\ release = [t \in Tags |-> 0] /\ anchored = [t \in Tags |-> 0]
      /\ releasing = [w \in Writers |-> AtRest] /\ asset = {}
  BY DEF PushesInit
<1>9. PushRowIds = {}
  BY <1>8 DEF PushRowIds
<1>10. ReleasesTyped
  <2>1. 0 \in Nat
    OBVIOUS
  <2> QED
    BY <1>8, <1>9, <2>1 DEF ReleasesTyped
<1>11. releasing \in [Writers -> ReleasingTypes]
  BY <1>3, <1>8
<1>12. ReleaseKeepsItsTag /\ AssetsAreServed
  BY <1>8 DEF ReleaseKeepsItsTag, AssetsAreServed
<1> QED
  BY <1>4, <1>5, <1>7, <1>10, <1>11, <1>12 DEF PushesInv

LEMMA PushesInvGives ==
    ASSUME PushesInv
    PROVE  PushesTypeOK /\ ReleasesAreWhole
BY DEF PushesInv, PushesTyped, SettingsTyped, IsSettings, ReleasesTyped, PushesTypeOK, ReleasesAreWhole

\* Refs, settings and rows are what they should be, a receive-pack has a token
\* exactly while it runs, and no two releases share a row
\* (internal/sshd/sshd.go, store/pushtokens.go, store/releases.go).
THEOREM PushesTypeCorrect ==
    PushesSpec => []PushesTypeOK
<1>1. PushesInit => PushesInv
  BY PushesStart
<1>2. PushesInv /\ [PushesNext]_pushVars => PushesInv'
  BY PushesStep DEF PushesGo
<1>3. PushesInv => PushesTypeOK
  BY PushesInvGives
<1> QED
  BY <1>1, <1>2, <1>3, PTL DEF PushesSpec

\* The tag of a release stays where it was, and a listed asset has its file,
\* whatever is pushed, changed and released in between, but for the races that
\* raced and crossedAssets record (control/release.go, cmd/gitbayd/hook.go).
THEOREM ReleasesStayWhole ==
    PushesSpec => []ReleasesAreWhole
<1>1. PushesInit => PushesInv
  BY PushesStart
<1>2. PushesInv /\ [PushesNext]_pushVars => PushesInv'
  BY PushesStep DEF PushesGo
<1>3. PushesInv => ReleasesAreWhole
  BY PushesInvGives
<1> QED
  BY <1>1, <1>2, <1>3, PTL DEF PushesSpec

\* A ref moves only as the policy in force allows, unless the settings changed
\* after pre-receive, and a settings command keeps what it does not name
\* (internal/hookd/hookd.go, internal/policy/access.go, store/repos.go).
THEOREM SettingsAreHeld ==
    PushesSpec => SettingsHold
<1>1. PushesInit => PushesInv
  BY PushesStart
<1>2. PushesInv /\ [PushesNext]_pushVars => PushesInv'
  BY PushesStep DEF PushesGo
<1>3. PushesInv /\ [PushesNext]_pushVars => [LandsAsSet]_pushVars /\ [KeepsTheRest]_pushVars
  BY PushesStep DEF PushesGo
<1>4. PushesSpec => [][LandsAsSet]_pushVars /\ [][KeepsTheRest]_pushVars
  BY <1>1, <1>2, <1>3, PTL DEF PushesSpec
<1>5. [][LandsAsSet]_pushVars => PolicyHoldsAtLanding
  BY PTL DEF LandsAsSet, PolicyHoldsAtLanding
<1>6. [][KeepsTheRest]_pushVars => SettingsKeepTheRest
  BY PTL DEF KeepsTheRest, SettingsKeepTheRest
<1> QED
  BY <1>4, <1>5, <1>6 DEF SettingsHold


-----------------------------------------------------------------------------
(* Tracker: the inductive invariant *)

OnItems == {"state", "edit", "label", "unlabel", "assign", "unassign", "milestone",
            "comment", "react"}
OnOrgs == {"orglabelset", "orglabelremove", "orgmilestonecreate", "orgmilestonestate"}
Refers == {"ref", "mrref"}

\* What a command brings with it, and what the step it has come to says of it.
JobFits(q) ==
    /\ q \in Job
    /\ IF q.op \in OnOrgs THEN q.scope \in OrgIds
       ELSE q.scope \in RepoIds /\ q.saw.owner \in Users \cup OrgIds
    /\ q.op \in OnItems \cup Refers \cup {"create"} => q.item \in ItemIds /\ ~ q.saw.archived
    /\ q.op = "create" => q.arg \in {"issue", "mr"}
    /\ q.op = "watch" => q.arg \in {"default", "watching", "muted"}
    /\ q.op = "ref" => q.arg \in Shas
    /\ q.op \in {"assign", "unassign"} => q.who \in Users
    /\ q.op \in {"label", "unlabel", "labelset", "labelremove", "milestonecreate",
                 "orglabelset", "orglabelremove", "orgmilestonecreate"}
         => q.name \in TrackNames
    /\ q.op \in {"milestone", "create"} /\ q.row # Unset
         => q.row[1] = "milestone" /\ q.row[2] \in {q.scope, q.saw.owner}
    /\ q.op \in {"milestonestate", "orgmilestonestate"}
         => q.row \in TrackRow /\ q.row[1] = "milestone"
    /\ q.at = "act" => q.op \in Refers
    /\ q.at \in {"label", "milestone", "assign"} => q.op = "create"

\* Its item is there; and until a command on the access rows is asked for, it
\* has seen its repository as it is.
JobStands(q, items, repos, ops) ==
    /\ q.op \in OnItems \/ (q.op = "create" /\ q.at # "write")
         => items[q.item].is = "here" /\ items[q.item].repo = q.scope
    /\ ops < MaxAccessOps /\ q.op \notin OnOrgs => q.saw = repos[q.scope]

JobsKnown ==
    \A w \in TrackWorkers : job[w] # Unset =>
        JobFits(job[w]) /\ JobStands(job[w], item, repo, accessOps)

\* What closes and what is carried are rows of the right table.
RowsHold ==
    /\ rows \subseteq TrackRow
    /\ shut \subseteq rows /\ \A x \in shut : x[1] = "milestone"
    /\ \A i \in ItemIds :
         /\ \A x \in item[i].labels : x \in rows /\ x[1] = "label"
         /\ item[i].milestone # Unset => /\ item[i].milestone \in rows
                                         /\ item[i].milestone[1] = "milestone"

\* The reference a command acts on.
ActsOn(q) == <<q.item, RefKey(q)>>

\* A reference that acted, or is about to, is recorded; one command acts on it.
RefsHeld ==
    /\ \A x \in ItemIds \X (Shas \cup {"mr"}) :
         acted[x] \in {0, 1} /\ (acted[x] = 1 => x \in refs)
    /\ \A w \in TrackWorkers :
         job[w] # Unset /\ job[w].at = "act" =>
           /\ ActsOn(job[w]) \in refs /\ acted[ActsOn(job[w])] = 0
           /\ \A v \in TrackWorkers :
                /\ job[v] # Unset /\ job[v].at = "act"
                /\ ActsOn(job[v]) = ActsOn(job[w])
                => v = w

\* One command on the access rows, and every repository has an owner.
AccessOnce ==
    /\ \A r \in RepoIds : repo[r].owner \in Users \cup OrgIds
    /\ accessOps \in {MaxAccessOps - 1, MaxAccessOps}
    /\ accessOps < MaxAccessOps => \A w \in Workers : asked[w] = Unset

TrackShape ==
    /\ item \in [ItemIds -> Item]
    /\ watch \in [RepoIds -> [Users -> {"default", "watching", "muted"}]]
    /\ inbox \subseteq TrackNotice
    /\ refs \subseteq ItemIds \X (Shas \cup {"mr"})
    /\ acted \in [ItemIds \X (Shas \cup {"mr"}) -> 0..2]
    /\ job \in [TrackWorkers -> Job \cup {Unset}]
    /\ stale \subseteq RepoIds /\ strayed \subseteq RepoIds
    /\ trackOps \in 0..MaxTrackOps

TrackerInv ==
    /\ AccessInv /\ AccessOnce /\ TrackShape /\ RowsHold /\ JobsKnown /\ RefsHeld
    /\ NoTwoOfEach /\ RowsInScope /\ MentionsReachReaders

\* Where the repositories, the organizations and their rows start.
LEMMA AccessStartsForTracker == TrackerInit => AccessInv /\ AccessOnce
<1> SUFFICES ASSUME TrackerInit
             PROVE  AccessInv /\ AccessOnce
  OBVIOUS
<1>1. FirstUser \in Users
  BY AccessAssumption DEF FirstUser
<1>2. PICK owner \in Users \cup OrgIds, author \in Users : AccessStart(owner, author)
  BY DEF TrackerInit, TrackerStart
<1>3. /\ repo = [r \in RepoIds |-> [NoRow EXCEPT !.is = "here", !.owner = owner,
                                    !.public = (owner \notin OrgIds)]]
      /\ grant = [r \in RepoIds |-> [v \in Users |->
           IF v = author /\ v # FirstUser THEN "read" ELSE "none"]]
      /\ org = [o \in OrgIds |-> [is |-> "here", role |-> "write"]]
      /\ member = [o \in OrgIds |-> [v \in Users |->
           IF v = FirstUser THEN "admin" ELSE "none"]]
      /\ team = [t \in TeamIds |-> NoTeam]
      /\ asked = [x \in Workers |-> Unset]
      /\ slipped = {}
      /\ accessOps = MaxAccessOps - 1
  BY <1>2 DEF AccessStart
<1>4. \A r \in RepoIds :
        /\ repo[r] \in RepoRow /\ repo[r].is = "here" /\ repo[r].daemon = FALSE
        /\ repo[r].owner \in Users \cup OrgIds
  BY <1>1, <1>3 DEF NoRow, RepoRow
<1>5. \A p \in OrgIds : org[p].is = "here"
  BY <1>3
<1>7. \A t \in TeamIds : team[t].is = "none" /\ team[t].users = {}
  BY <1>3 DEF NoTeam
<1>8. accessOps \in 0..MaxAccessOps
  BY <1>3, AccessAssumption, TrackerAssumption
<1>9. AccessShape
  <2>1. repo \in [RepoIds -> RepoRow] /\ grant \in [RepoIds -> [Users -> Roles]]
    BY <1>3, <1>4 DEF Roles
  <2>2. org \in [OrgIds -> [is: {"none", "here", "gone"}, role: {"write", "read", "none"}]]
    BY <1>3
  <2>3. member \in [OrgIds -> [Users -> {"none", "member", "admin"}]]
    BY <1>3
  <2>4. team \in [TeamIds -> TeamRow]
    BY <1>3 DEF NoTeam, TeamRow, Roles
  <2>5. \A t \in TeamIds : TeamHere(t) => OrgHere(TeamOrg[t])
    BY <1>7 DEF TeamHere
  <2>6. asked \in [Workers -> Request \cup {Unset}]
    BY <1>3
  <2>7. slipped \subseteq Slips \X (TeamIds \cup RepoIds)
    BY <1>3
  <2>8. \A w \in Workers : asked[w] = Unset
    BY <1>3
  <2> QED
    BY <1>8, <2>1, <2>2, <2>3, <2>4, <2>5, <2>6, <2>7, <2>8 DEF AccessShape, AccessTypeOK
<1>10. RequestsKnown
  BY <1>3 DEF RequestsKnown
<1>11. RowsFit
  BY <1>4, <1>5, <1>7 DEF RowsFit
<1>12. TeamMembersAreMembers
  BY <1>7 DEF TeamMembersAreMembers
<1>13. OrgKeepsAdmin
  BY <1>1, <1>3 DEF OrgKeepsAdmin
<1>14. DaemonServesPublic
  BY <1>4 DEF DaemonServesPublic
<1>15. OwnerExists
  BY <1>4, <1>5 DEF OwnerExists, Found, OrgHere
<1>16. AccessOnce
  BY <1>3, <1>4 DEF AccessOnce
<1> QED
  BY <1>9, <1>10, <1>11, <1>12, <1>13, <1>14, <1>15, <1>16 DEF AccessInv

\* The rows of one name that organizations and a repository may start with.
LEMMA TrackerInvStarts == TrackerInit => TrackerInv
<1> SUFFICES ASSUME TrackerInit
             PROVE  TrackerInv
  OBVIOUS
<1>1. AccessInv /\ AccessOnce
  BY AccessStartsForTracker
<1>2. FirstUser \in Users
  BY AccessAssumption DEF FirstUser
<1> DEFINE n == CHOOSE m \in TrackNames : TRUE
<1>3. n \in TrackNames
  BY TrackerAssumption
<1>4. PICK r \in RepoIds, owner \in Users \cup OrgIds, author \in Users,
           held \in BOOLEAN, own \in BOOLEAN, kind \in {"issue", "mr", "none"} :
        TrackerStart(r, owner, author, held, own, kind)
  BY DEF TrackerInit
<1>5. /\ owner \in {FirstUser} \cup OrgIds
      /\ ~ (held /\ own /\ owner \in OrgIds)
      /\ AccessStart(owner, author)
      /\ rows = RowsOf((IF held THEN OrgIds ELSE {}) \cup (IF own THEN {r} ELSE {}))
      /\ shut = {}
      /\ item = [i \in ItemIds |->
           IF kind # "none" /\ i = (CHOOSE j \in ItemIds : TRUE)
           THEN Carrying(i, kind, r, author) ELSE NewItem(i)]
      /\ watch = [x \in RepoIds |-> [v \in Users |->
           IF v = FirstUser THEN "watching" ELSE "default"]]
      /\ inbox = {} /\ refs = {}
      /\ acted = [x \in ItemIds \X (Shas \cup {"mr"}) |-> 0]
      /\ job = [x \in TrackWorkers |-> Unset]
      /\ stale = {} /\ strayed = {} /\ trackOps = 0
  BY <1>4 DEF TrackerStart
<1>6. \A x \in RepoIds : repo[x].owner = owner
  BY <1>5 DEF AccessStart, NoRow
<1>7. \A x \in rows : /\ x \in TrackRow
                      /\ (x[2] \in OrgIds /\ held) \/ (x[2] = r /\ own)
  BY <1>3, <1>5 DEF RowsOf, TrackRow, Scopes
<1> DEFINE L == {x \in rows : x[1] = "label" /\ x[2] \in {r, repo[r].owner}}
<1>8. L \in SUBSET TrackRow
  BY <1>7
<1>9. \A i \in ItemIds :
        /\ NewItem(i) \in Item
        /\ NewItem(i).milestone = Unset /\ NewItem(i).labels = {}
  <2>1. (CHOOSE s \in RepoIds : TRUE) \in RepoIds /\ (CHOOSE v \in Users : TRUE) \in Users
    BY <1>5, AccessAssumption
  <2> QED
    BY <2>1 DEF NewItem, Item
<1> HIDE DEF L
<1>10. ASSUME NEW i \in ItemIds, NEW k \in {"issue", "mr"}
       PROVE  /\ Carrying(i, k, r, author) \in Item
              /\ Carrying(i, k, r, author).milestone = Unset
              /\ Carrying(i, k, r, author).labels = L
              /\ Carrying(i, k, r, author).repo = r
  <2>1. Carrying(i, k, r, author) =
          [NewItem(i) EXCEPT !.is = "here", !.kind = k, !.repo = r, !.author = author,
             !.open = TRUE, !.labels = L]
    BY Zenon DEF Carrying, L
  <2> QED
    BY <1>8, <1>9, <2>1 DEF Item
<1>11. ASSUME NEW i \in ItemIds
       PROVE  /\ item[i] \in Item /\ item[i].milestone = Unset
              /\ \A x \in item[i].labels : x \in L /\ item[i].repo = r
  <2>1. CASE kind # "none" /\ i = (CHOOSE j \in ItemIds : TRUE)
    <3>1. kind \in {"issue", "mr"} /\ item[i] = Carrying(i, kind, r, author)
      BY <1>5, <2>1
    <3> QED
      BY <1>10, <3>1
  <2>2. CASE ~ (kind # "none" /\ i = (CHOOSE j \in ItemIds : TRUE))
    <3>1. item[i] = NewItem(i)
      BY <1>5, <2>2
    <3> QED
      BY <1>9, <3>1
  <2> QED
    BY <2>1, <2>2
<1>12. \A i \in ItemIds :
         \A x \in item[i].labels :
           x \in rows /\ x[1] = "label" /\ x[2] \in {r, owner} /\ item[i].repo = r
  BY <1>6, <1>11 DEF L
<1> HIDE DEF n
<1>13. TrackShape
  <2>1. item \in [ItemIds -> Item]
    BY <1>5, <1>11
  <2> QED
    BY <1>5, <2>1, TrackerAssumption DEF TrackShape
<1>14. RowsHold
  BY <1>5, <1>7, <1>11, <1>12 DEF RowsHold
<1>15. JobsKnown
  BY <1>5 DEF JobsKnown
<1>16. RefsHeld
  BY <1>5 DEF RefsHeld
<1>17. NoTwoOfEach
  <2> SUFFICES ASSUME NEW s \in RepoIds, NEW t \in {"label", "milestone"}, NEW m \in TrackNames,
                      <<t, s, m>> \in rows, <<t, repo[s].owner, m>> \in rows
               PROVE  FALSE
    BY DEF NoTwoOfEach
  <2>1. s = r /\ own
    BY <1>7, TrackerAssumption
  <2>2. owner \in OrgIds /\ held
    <3>1. <<t, owner, m>> \in rows
      BY <1>6
    <3>2. (owner \in OrgIds /\ held) \/ (owner = r /\ own)
      BY <1>7, <3>1
    <3> QED
      BY <3>2, TrackerAssumption
  <2> QED
    BY <1>5, <2>1, <2>2
<1>18. RowsInScope
  BY <1>6, <1>11, <1>12 DEF RowsInScope
<1>19. MentionsReachReaders
  BY <1>5 DEF MentionsReachReaders
<1> QED
  BY <1>1, <1>13, <1>14, <1>15, <1>16, <1>17, <1>18, <1>19 DEF TrackerInv

-----------------------------------------------------------------------------
(* Tracker: what a step leaves in order *)

\* An item is never taken out, and stays in its repository.
ItemsStay ==
    \A i \in ItemIds : item[i].is = "here" =>
        item'[i].is = "here" /\ item'[i].repo = item[i].repo

\* A command ends, or goes on to a later write of its own.
GoesOn(w) ==
    \/ Finishes(w)
    \/ /\ job[w].op = "create"
       /\ item'[job[w].item].is = "here" /\ item'[job[w].item].repo = job[w].scope
       /\ \E at \in {"label", "milestone", "assign"} : Onward(w, at)

LEMMA JobsGoOn ==
    ASSUME JobsKnown, job \in [TrackWorkers -> Job \cup {Unset}], NEW w \in TrackWorkers,
           job[w] # Unset, UNCHANGED <<repo, accessOps>>, ItemsStay,
           GoesOn(w) \/ (job[w].op \in Refers /\ Onward(w, "act"))
    PROVE  /\ JobsKnown' /\ job' \in [TrackWorkers -> Job \cup {Unset}]
           /\ \A v \in TrackWorkers : v # w => job'[v] = job[v]
           /\ GoesOn(w) /\ job'[w] # Unset => job'[w].at # "act"
<1>1. /\ job[w] \in Job /\ JobFits(job[w]) /\ JobStands(job[w], item, repo, accessOps)
  BY DEF JobsKnown
<1>2. \A v \in TrackWorkers : v # w => job'[v] = job[v]
  BY DEF GoesOn, Finishes, Onward
<1>3. ASSUME NEW v \in TrackWorkers, job'[v] # Unset, v # w
      PROVE  JobFits(job'[v]) /\ JobStands(job'[v], item', repo, accessOps)
  <2>1. job'[v] = job[v] /\ JobFits(job[v]) /\ JobStands(job[v], item, repo, accessOps)
    BY <1>2, <1>3 DEF JobsKnown
  <2>2. JobStands(job'[v], item', repo, accessOps)
    BY <2>1 DEF JobStands, JobFits, ItemsStay, OnItems
  <2> QED
    BY <2>1, <2>2
<1>4. CASE Finishes(w)
  <2>1. job'[w] = Unset /\ job' \in [TrackWorkers -> Job \cup {Unset}]
    BY <1>4 DEF Finishes
  <2> QED
    BY <1>2, <1>3, <2>1 DEF JobsKnown
<1>5. ASSUME NEW at \in {"label", "milestone", "assign", "act"}, Onward(w, at),
             at = "act" => job[w].op \in Refers,
             at # "act" => /\ job[w].op = "create" /\ item'[job[w].item].is = "here"
                           /\ item'[job[w].item].repo = job[w].scope
      PROVE  /\ JobsKnown' /\ job' \in [TrackWorkers -> Job \cup {Unset}]
             /\ job'[w] # Unset => job'[w].at = at
  <2> DEFINE q == [job[w] EXCEPT !.at = at]
  <2>1. job'[w] = q /\ job' = [job EXCEPT ![w] = q]
    BY <1>5 DEF Onward
  <2>2. /\ q \in Job /\ q.at = at
        /\ q.op = job[w].op /\ q.by = job[w].by /\ q.scope = job[w].scope
        /\ q.saw = job[w].saw /\ q.item = job[w].item /\ q.name = job[w].name
        /\ q.row = job[w].row /\ q.who = job[w].who /\ q.arg = job[w].arg
    BY <1>1 DEF Job
  <2> HIDE DEF q
  <2>3. JobFits(q)
    BY <1>1, <1>5, <2>2 DEF JobFits
  <2>4. JobStands(q, item', repo, accessOps)
    BY <1>1, <1>5, <2>2 DEF JobStands, JobFits, OnItems, Refers
  <2>5. job' \in [TrackWorkers -> Job \cup {Unset}]
    BY <2>1, <2>2
  <2>6. ASSUME NEW v \in TrackWorkers, job'[v] # Unset
        PROVE  JobFits(job'[v]) /\ JobStands(job'[v], item', repo, accessOps)
    BY <1>3, <2>1, <2>3, <2>4, <2>6
  <2> QED
    BY <2>1, <2>2, <2>5, <2>6 DEF JobsKnown
<1> QED
  BY <1>2, <1>4, <1>5 DEF GoesOn, Refers

\* No reference acts in a step that records none.
LEMMA RefsRest ==
    ASSUME RefsHeld, NEW w \in TrackWorkers, UNCHANGED <<refs, acted>>,
           \A v \in TrackWorkers : v # w => job'[v] = job[v],
           job'[w] # Unset => job'[w].at # "act"
    PROVE  RefsHeld'
<1>1. \A v \in TrackWorkers : job'[v] # Unset /\ job'[v].at = "act" => job'[v] = job[v]
  OBVIOUS
<1> QED
  BY <1>1 DEF RefsHeld, ActsOn, RefKey

\* Items that carry what they carried, or nothing.
CarrySame ==
    \A i \in ItemIds :
      \/ item'[i].labels = {} /\ item'[i].milestone = Unset
      \/ /\ item'[i].labels = item[i].labels /\ item'[i].milestone = item[i].milestone
         /\ item'[i].repo = item[i].repo

LEMMA AccessRest ==
    ASSUME TrackerInv, UNCHANGED accessVars
    PROVE  AccessInv' /\ AccessOnce'
BY AccessInvStays DEF TrackerInv, AccessOnce, accessVars

\* A step of a command that writes no row.
LEMMA QuietKeeps ==
    ASSUME TrackerInv, NEW w \in TrackWorkers, job[w] # Unset,
           UNCHANGED accessVars, UNCHANGED <<rows, shut, stale, strayed, trackOps>>,
           item' \in [ItemIds -> Item], CarrySame, ItemsStay,
           watch' \in [RepoIds -> [Users -> {"default", "watching", "muted"}]],
           inbox' \subseteq TrackNotice, MentionsReachReaders',
           refs' \subseteq ItemIds \X (Shas \cup {"mr"}),
           acted' \in [ItemIds \X (Shas \cup {"mr"}) -> 0..2],
           RefsHeld', GoesOn(w) \/ (job[w].op \in Refers /\ Onward(w, "act"))
    PROVE  TrackerInv'
<1>1. AccessInv' /\ AccessOnce'
  BY AccessRest
<1>2. UNCHANGED <<repo, accessOps>>
  BY DEF accessVars
<1>3. JobsKnown' /\ job' \in [TrackWorkers -> Job \cup {Unset}]
  BY <1>2, JobsGoOn DEF TrackerInv, TrackShape
<1>4. TrackShape'
  BY <1>3 DEF TrackerInv, TrackShape
<1>5. RowsHold'
  BY DEF TrackerInv, RowsHold, CarrySame
<1>6. NoTwoOfEach'
  BY <1>2 DEF TrackerInv, NoTwoOfEach
<1>7. RowsInScope'
  <2> SUFFICES ASSUME NEW i \in ItemIds, item'[i].repo \notin stale \cup strayed,
                      NEW x \in item'[i].labels \cup ({item'[i].milestone} \ {Unset})
               PROVE  x[2] \in {item'[i].repo, repo[item'[i].repo].owner}
    BY <1>2 DEF RowsInScope
  <2> QED
    BY DEF TrackerInv, RowsInScope, CarrySame
<1> QED
  BY <1>1, <1>3, <1>4, <1>5, <1>6, <1>7 DEF TrackerInv

-----------------------------------------------------------------------------
(* Tracker: asking *)

LEMMA TakenKeeps ==
    ASSUME TrackerInv, NEW w \in TrackWorkers, Waiting(w), NEW q, Taken(w, q),
           JobFits(q), JobStands(q, item, repo, accessOps), q.at = "write"
    PROVE  TrackerInv'
<1>1. AccessInv' /\ AccessOnce'
  BY AccessRest DEF Taken
<1>2. /\ UNCHANGED <<rows, shut, item, watch, inbox, refs, acted, stale, strayed>>
      /\ UNCHANGED <<repo, accessOps>>
      /\ trackOps' = trackOps + 1 /\ trackOps < MaxTrackOps
      /\ job' = [job EXCEPT ![w] = q]
  BY DEF Taken, accessVars, Waiting
<1>3. job \in [TrackWorkers -> Job \cup {Unset}] /\ q \in Job
  BY DEF TrackerInv, TrackShape, JobFits
<1>4. /\ job' \in [TrackWorkers -> Job \cup {Unset}] /\ job'[w] = q
      /\ \A v \in TrackWorkers : v # w => job'[v] = job[v]
  BY <1>2, <1>3
<1>5. trackOps' \in 0..MaxTrackOps
  BY <1>2, TrackerAssumption DEF TrackerInv, TrackShape
<1>6. TrackShape'
  BY <1>2, <1>4, <1>5 DEF TrackerInv, TrackShape
<1>7. JobsKnown'
  <2> SUFFICES ASSUME NEW v \in TrackWorkers, job'[v] # Unset
               PROVE  JobFits(job'[v]) /\ JobStands(job'[v], item, repo, accessOps)
    BY <1>2 DEF JobsKnown
  <2> QED
    BY <1>4 DEF TrackerInv, JobsKnown
<1>8. RefsHeld'
  BY <1>2, <1>4, RefsRest DEF TrackerInv
<1>9. RowsHold' /\ NoTwoOfEach' /\ RowsInScope' /\ MentionsReachReaders'
  BY <1>2 DEF TrackerInv, RowsHold, NoTwoOfEach, RowsInScope, MentionsReachReaders
<1> QED
  BY <1>1, <1>6, <1>7, <1>8, <1>9 DEF TrackerInv

LEMMA JobRecord ==
    ASSUME NEW op \in TrackOps, NEW u \in Users, NEW o \in Scopes, NEW saw \in RepoRow,
           NEW i \in ItemIds \cup {Unset}, NEW n \in TrackNames \cup {Unset},
           NEW row \in TrackRow \cup {Unset}, NEW who \in Users \cup {Unset},
           NEW arg \in {"issue", "mr", "on", "off", "default", "watching", "muted",
                        Unset} \cup Shas
    PROVE  [op |-> op, by |-> u, scope |-> o, saw |-> saw, item |-> i, name |-> n,
            row |-> row, who |-> who, arg |-> arg, at |-> "write"] \in Job
BY DEF Job

\* A command on a repository, as its handler has read it.
LEMMA OnRepoTaken ==
    ASSUME TrackerInv, NEW w \in TrackWorkers, Waiting(w),
           NEW op \in TrackOps \ OnOrgs, NEW u \in Users, NEW r \in RepoIds,
           NEW i \in ItemIds \cup {Unset}, NEW n \in TrackNames \cup {Unset},
           NEW row \in TrackRow \cup {Unset}, NEW who \in Users \cup {Unset},
           NEW arg \in {"issue", "mr", "on", "off", "default", "watching", "muted",
                        Unset} \cup Shas,
           NEW q, q = [op |-> op, by |-> u, scope |-> r, saw |-> repo[r], item |-> i,
                       name |-> n, row |-> row, who |-> who, arg |-> arg, at |-> "write"],
           Taken(w, q),
           op \in OnItems \cup Refers \cup {"create"} => i \in ItemIds /\ refuseArchived(r),
           op \in OnItems => item[i].is = "here" /\ item[i].repo = r,
           op = "create" => arg \in {"issue", "mr"},
           op = "watch" => arg \in {"default", "watching", "muted"},
           op = "ref" => arg \in Shas,
           op \in {"assign", "unassign"} => who \in Users,
           op \in {"label", "unlabel", "labelset", "labelremove", "milestonecreate"}
             => n \in TrackNames,
           op \in {"milestone", "create"} /\ row # Unset
             => row[1] = "milestone" /\ row[2] \in {r, repo[r].owner},
           op = "milestonestate" => row \in TrackRow /\ row[1] = "milestone"
    PROVE  TrackerInv'
<1>1. repo[r] \in RepoRow /\ repo[r].owner \in Users \cup OrgIds
  BY DEF TrackerInv, AccessInv, AccessShape, AccessTypeOK, AccessOnce
<1>2. op \in TrackOps /\ op \notin OnOrgs
  OBVIOUS
<1>3. /\ q.op = op /\ q.by = u /\ q.scope = r /\ q.saw = repo[r] /\ q.item = i
      /\ q.name = n /\ q.row = row /\ q.who = who /\ q.arg = arg /\ q.at = "write"
  OBVIOUS
<1>4. q \in Job
  BY <1>1, <1>2 DEF Job, Scopes
<1>5. op \notin {"orglabelset", "orglabelremove", "orgmilestonecreate", "orgmilestonestate"}
  BY <1>2 DEF OnOrgs
<1>6. JobFits(q)
  BY <1>1, <1>2, <1>3, <1>4, <1>5 DEF JobFits, refuseArchived
<1>7. JobStands(q, item, repo, accessOps)
  BY <1>3 DEF JobStands
<1> QED
  BY <1>3, <1>6, <1>7, TakenKeeps

\* A command on a thread.
LEMMA OnItemTaken ==
    ASSUME TrackerInv, NEW w \in TrackWorkers, Waiting(w),
           NEW op \in OnItems, NEW u \in Users, NEW i \in ItemIds,
           NEW n \in TrackNames \cup {Unset}, NEW who \in Users \cup {Unset},
           NEW arg \in {"on", "off", Unset},
           item[i].is = "here", Live(i), op # "milestone",
           op \in {"assign", "unassign"} => who \in Users,
           op \in {"label", "unlabel"} => n \in TrackNames,
           Taken(w, OnItem(op, u, i, n, who, arg))
    PROVE  TrackerInv'
<1>1. item[i] \in Item /\ item[i].repo \in RepoIds
  BY DEF TrackerInv, TrackShape, Item
<1>2. OnItem(op, u, i, n, who, arg) =
        [op |-> op, by |-> u, scope |-> item[i].repo, saw |-> repo[item[i].repo],
         item |-> i, name |-> n, row |-> Unset, who |-> who, arg |-> arg, at |-> "write"]
  <2> DEFINE a == OnRepo(op, u, item[i].repo, n, arg)
             b == [a EXCEPT !.item = i]
  <2>1. a = [op |-> op, by |-> u, scope |-> item[i].repo, saw |-> repo[item[i].repo],
             item |-> Unset, name |-> n, row |-> Unset, who |-> Unset, arg |-> arg,
             at |-> "write"]
    BY DEF OnRepo
  <2> HIDE DEF a
  <2>2. b = [op |-> op, by |-> u, scope |-> item[i].repo, saw |-> repo[item[i].repo],
             item |-> i, name |-> n, row |-> Unset, who |-> Unset, arg |-> arg,
             at |-> "write"]
    BY <2>1
  <2>3. OnItem(op, u, i, n, who, arg) = [b EXCEPT !.who = who]
    BY Zenon DEF OnItem, a, b
  <2> HIDE DEF b
  <2> QED
    BY <2>2, <2>3
<1>3. /\ op \in TrackOps /\ op \notin OnOrgs
      /\ op \notin {"create", "watch", "ref", "labelset", "labelremove", "milestonecreate",
                    "milestonestate", "milestone"}
  BY DEF OnItems, TrackOps, OnOrgs
<1>4. refuseArchived(item[i].repo)
  BY DEF Live
<1> DEFINE q == OnItem(op, u, i, n, who, arg)
<1>5. q = [op |-> op, by |-> u, scope |-> item[i].repo, saw |-> repo[item[i].repo],
           item |-> i, name |-> n, row |-> Unset, who |-> who, arg |-> arg, at |-> "write"]
      /\ Taken(w, q)
  BY <1>2
<1> HIDE DEF q
<1> QED
  BY <1>1, <1>3, <1>4, <1>5, OnRepoTaken

\* A command on an organization's rows.
LEMMA OnOrgTaken ==
    ASSUME TrackerInv, NEW w \in TrackWorkers, Waiting(w),
           NEW op \in OnOrgs, NEW u \in Users, NEW o \in OrgIds, NEW n \in TrackNames,
           NEW row \in TrackRow \cup {Unset}, NEW arg \in {"on", "off", Unset},
           op = "orgmilestonestate" => row = <<"milestone", o, n>>,
           NEW q, q = [OnOrg(op, u, o, n, arg) EXCEPT !.row = row],
           Taken(w, q)
    PROVE  TrackerInv'
<1>1. q = [op |-> op, by |-> u, scope |-> o, saw |-> NoRow, item |-> Unset, name |-> n,
           row |-> row, who |-> Unset, arg |-> arg, at |-> "write"]
  BY DEF OnOrg
<1>2. NoRow \in RepoRow
  BY DEF NoRow, RepoRow
<1>3. /\ op \in TrackOps
      /\ op \notin OnItems \cup Refers
                   \cup {"create", "watch", "ref", "assign", "unassign", "label", "unlabel",
                         "labelset", "labelremove", "milestonecreate", "milestone",
                         "milestonestate"}
  BY DEF OnItems, Refers, TrackOps, OnOrgs
<1>4. /\ q.op = op /\ q.by = u /\ q.scope = o /\ q.saw = NoRow /\ q.item = Unset
      /\ q.name = n /\ q.row = row /\ q.who = Unset /\ q.arg = arg /\ q.at = "write"
  BY <1>1
<1>5. q \in Job
  <2>1. /\ o \in Scopes
        /\ arg \in {"issue", "mr", "on", "off", "default", "watching", "muted", Unset}
                     \cup Shas
    BY DEF Scopes
  <2>2. /\ op \in TrackOps /\ n \in TrackNames \cup {Unset}
        /\ Unset \in ItemIds \cup {Unset} /\ Unset \in Users \cup {Unset}
    BY <1>3
  <2>3. [op |-> op, by |-> u, scope |-> o, saw |-> NoRow, item |-> Unset, name |-> n,
         row |-> row, who |-> Unset, arg |-> arg, at |-> "write"] \in Job
    BY <1>2, <2>1, <2>2, JobRecord, Zenon
  <2> QED
    BY <1>1, <2>3
<1>6. op = "orgmilestonestate" => row \in TrackRow /\ row[1] = "milestone"
  BY DEF TrackRow, Scopes
<1>7. JobFits(q)
  BY <1>3, <1>4, <1>5, <1>6 DEF JobFits
<1>8. JobStands(q, item, repo, accessOps)
  BY <1>3, <1>4 DEF JobStands
<1> QED
  BY <1>4, <1>7, <1>8, TakenKeeps

\* The row a title resolves to.
LEMMA MilestoneFound ==
    ASSUME TrackerInv, NEW r \in RepoIds, NEW title
    PROVE  LET row == MilestoneByTitle(r, title)
           IN  /\ row \in TrackRow \cup {Unset}
               /\ row # Unset => row[1] = "milestone" /\ row[2] \in {r, repo[r].owner}
<1>1. rows \subseteq TrackRow
  BY DEF TrackerInv, RowsHold
<1> DEFINE x == <<"milestone", repo[r].owner, title>>
           y == <<"milestone", r, title>>
<1>2. CASE x \in rows
  BY <1>1, <1>2 DEF MilestoneByTitle
<1>3. CASE x \notin rows /\ y \in rows
  BY <1>1, <1>3 DEF MilestoneByTitle
<1>4. CASE x \notin rows /\ y \notin rows
  BY <1>4 DEF MilestoneByTitle
<1> QED
  BY <1>2, <1>3, <1>4

\* Creating an issue or a merge request.
LEMMA CreateAsked ==
    ASSUME TrackerInv, NEW w \in TrackWorkers, Waiting(w),
           runIssueCreate(w) \/ runMRCreate(w)
    PROVE  TrackerInv'
<1>1. \A o \in {"create"} : o \in TrackOps \ OnOrgs /\ o \notin OnItems /\ o \notin Refers
  BY DEF TrackOps, OnOrgs, OnItems, Refers
<1>2. ASSUME runIssueCreate(w)
      PROVE  TrackerInv'
  <2>1. PICK u \in Users, i \in ItemIds, r \in RepoIds, who \in Users \cup {Unset},
             n \in TrackNames \cup {Unset}, title \in TrackNames \cup {Unset} :
          /\ item[i].is = "none"
          /\ resolveRepo(u, r, "read") /\ refuseArchived(r)
          /\ title # Unset => MilestoneByTitle(r, title) # Unset
          /\ n # Unset \/ title # Unset \/ who # Unset => CanWrite(u, r)
          /\ Taken(w, [OnRepo("create", u, r, n, "issue") EXCEPT
                         !.item = i, !.who = who, !.row = MilestoneByTitle(r, title)])
    BY <1>2, Zenon DEF runIssueCreate
  <2> DEFINE row == MilestoneByTitle(r, title)
             a == OnRepo("create", u, r, n, "issue")
             b == [a EXCEPT !.item = i]
             c == [b EXCEPT !.who = who]
             q == [c EXCEPT !.row = row]
  <2>2. /\ row \in TrackRow \cup {Unset}
        /\ row # Unset => row[1] = "milestone" /\ row[2] \in {r, repo[r].owner}
    BY MilestoneFound
  <2>3. Taken(w, q)
    BY <2>1
  <2> HIDE DEF row
  <2>4. a = [op |-> "create", by |-> u, scope |-> r, saw |-> repo[r], item |-> Unset,
             name |-> n, row |-> Unset, who |-> Unset, arg |-> "issue", at |-> "write"]
    BY DEF OnRepo
  <2> HIDE DEF a
  <2>5. b = [op |-> "create", by |-> u, scope |-> r, saw |-> repo[r], item |-> i,
             name |-> n, row |-> Unset, who |-> Unset, arg |-> "issue", at |-> "write"]
    BY <2>4
  <2> HIDE DEF b
  <2>6. c = [op |-> "create", by |-> u, scope |-> r, saw |-> repo[r], item |-> i,
             name |-> n, row |-> Unset, who |-> who, arg |-> "issue", at |-> "write"]
    BY <2>5
  <2> HIDE DEF c
  <2>7. q = [op |-> "create", by |-> u, scope |-> r, saw |-> repo[r], item |-> i,
             name |-> n, row |-> row, who |-> who, arg |-> "issue", at |-> "write"]
    BY <2>6
  <2> HIDE DEF q
  <2>22. r \in RepoIds /\ Taken(w, q) /\ refuseArchived(r)
    BY <2>1, <2>3
  <2>23. /\ row \in TrackRow \cup {Unset}
         /\ row # Unset => row[1] = "milestone" /\ row[2] \in {r, repo[r].owner}
    BY <2>2
  <2>20. /\ q.op = "create" /\ q.scope = r /\ q.saw = repo[r] /\ q.item = i
         /\ q.row = row /\ q.arg = "issue" /\ q.at = "write"
    BY <2>7
  <2>21. q \in Job
    <3>1. /\ "create" \in TrackOps /\ r \in Scopes /\ repo[r] \in RepoRow
          /\ i \in ItemIds \cup {Unset} /\ who \in Users \cup {Unset}
          /\ "issue" \in {"issue", "mr", "on", "off", "default", "watching", "muted", Unset}
                      \cup Shas
      BY <2>22 DEF TrackOps, Scopes, TrackerInv, AccessInv, AccessShape, AccessTypeOK
    <3>2. [op |-> "create", by |-> u, scope |-> r, saw |-> repo[r], item |-> i,
           name |-> n, row |-> row, who |-> who, arg |-> "issue", at |-> "write"] \in Job
      BY <2>23, <3>1, JobRecord, Zenon
    <3> QED
      BY <2>7, <3>2
  <2>24. repo[r].owner \in Users \cup OrgIds
    BY <2>22 DEF TrackerInv, AccessOnce
  <2>25. JobFits(q)
    BY <2>20, <2>21, <2>22, <2>23, <2>24 DEF JobFits, refuseArchived, OnOrgs, Refers
  <2>26. JobStands(q, item, repo, accessOps)
    BY <2>20 DEF JobStands, OnItems
  <2> QED
    BY <2>20, <2>22, <2>25, <2>26, TakenKeeps
<1>3. ASSUME runMRCreate(w)
      PROVE  TrackerInv'
  <2>1. PICK u \in Users, i \in ItemIds, r \in RepoIds :
          /\ refuseArchived(r)
          /\ Taken(w, [OnRepo("create", u, r, Unset, "mr") EXCEPT !.item = i])
    BY <1>3 DEF runMRCreate
  <2> DEFINE q == [OnRepo("create", u, r, Unset, "mr") EXCEPT !.item = i]
  <2>2. q = [op |-> "create", by |-> u, scope |-> r, saw |-> repo[r], item |-> i,
             name |-> Unset, row |-> Unset, who |-> Unset, arg |-> "mr", at |-> "write"]
    BY DEF OnRepo
  <2>3. Taken(w, q)
    BY <2>1
  <2> HIDE DEF q
  <2> QED
    BY <1>1, <2>1, <2>2, <2>3, OnRepoTaken
<1> QED
  BY <1>2, <1>3

\* Commands on an issue or a merge request.
LEMMA ItemAsked ==
    ASSUME TrackerInv, NEW w \in TrackWorkers, Waiting(w),
           \/ setIssueState(w) \/ runIssueEdit(w) \/ runIssueLabel(w) \/ runIssueAssign(w)
           \/ setItemMilestone(w) \/ runComment(w) \/ runReact(w)
           \/ runMREdit(w) \/ runMRLabel(w) \/ runMRReviewRequest(w)
    PROVE  TrackerInv'
<1>1. ASSUME NEW op \in OnItems \ {"milestone"}, NEW u \in Users, NEW i \in ItemIds,
             NEW n \in TrackNames \cup {Unset}, NEW who \in Users \cup {Unset},
             NEW arg \in {"on", "off", Unset}, item[i].is = "here", Live(i),
             op \in {"assign", "unassign"} => who \in Users,
             op \in {"label", "unlabel"} => n \in TrackNames,
             Taken(w, OnItem(op, u, i, n, who, arg))
      PROVE  TrackerInv'
  <2>1. op \in OnItems /\ op # "milestone"
    OBVIOUS
  <2> QED
    BY <1>1, <2>1, OnItemTaken
<1>2. \A u \in Users, i \in ItemIds : \A need :
        issueRef(u, i, need) \/ mrRef(u, i, need) => item[i].is = "here"
  BY DEF issueRef, mrRef
<1>3. CASE \/ setIssueState(w) \/ runIssueEdit(w) \/ runMREdit(w) \/ runComment(w)
           \/ runReact(w)
  <2>1. {"state", "edit", "comment", "react"} \subseteq OnItems \ {"milestone"}
    BY DEF OnItems
  <2>2. PICK op \in {"state", "edit", "comment", "react"}, u \in Users, i \in ItemIds,
             who \in Users \cup {Unset}, arg \in {"on", "off", Unset} :
          /\ item[i].is = "here" /\ Live(i)
          /\ Taken(w, OnItem(op, u, i, Unset, who, arg))
    <3>1. CASE setIssueState(w)
      BY <1>2, <3>1 DEF setIssueState
    <3>2. CASE runIssueEdit(w)
      BY <1>2, <3>2 DEF runIssueEdit
    <3>3. CASE runMREdit(w)
      BY <1>2, <3>3 DEF runMREdit
    <3>4. CASE runComment(w)
      BY <1>2, <3>4 DEF runComment
    <3>5. CASE runReact(w)
      BY <1>2, <3>5 DEF runReact
    <3> QED
      BY <1>3, <3>1, <3>2, <3>3, <3>4, <3>5
  <2> QED
    BY <1>1, <2>1, <2>2
<1>4. CASE runIssueLabel(w) \/ runMRLabel(w)
  <2>1. {"label", "unlabel"} \subseteq OnItems \ {"milestone"}
    BY DEF OnItems
  <2>2. PICK op \in {"label", "unlabel"}, u \in Users, i \in ItemIds, n \in TrackNames :
          /\ item[i].is = "here" /\ Live(i)
          /\ Taken(w, OnItem(op, u, i, n, Unset, Unset))
    BY <1>2, <1>4 DEF runIssueLabel, runMRLabel
  <2> QED
    BY <1>1, <2>1, <2>2
<1>5. CASE runIssueAssign(w) \/ runMRReviewRequest(w)
  <2>1. {"assign", "unassign"} \subseteq OnItems \ {"milestone"}
    BY DEF OnItems
  <2>2. PICK op \in {"assign", "unassign"}, u \in Users, i \in ItemIds, v \in Users :
          /\ item[i].is = "here" /\ Live(i)
          /\ Taken(w, OnItem(op, u, i, Unset, v, Unset))
    BY <1>2, <1>5 DEF runIssueAssign, runMRReviewRequest
  <2> QED
    BY <1>1, <2>1, <2>2
<1>6. CASE setItemMilestone(w)
  <2>1. PICK u \in Users, i \in ItemIds, title \in TrackNames \cup {Unset} :
          LET row == IF title = Unset THEN Unset ELSE MilestoneByTitle(item[i].repo, title)
          IN  /\ issueRef(u, i, "write") \/ mrRef(u, i, "write")
              /\ Live(i)
              /\ title # Unset => row # Unset
              /\ Taken(w, [OnItem("milestone", u, i, title, Unset, Unset) EXCEPT
                             !.row = row])
    BY <1>6, Zenon DEF setItemMilestone
  <2> DEFINE r == item[i].repo
             row == IF title = Unset THEN Unset ELSE MilestoneByTitle(item[i].repo, title)
             a == OnRepo("milestone", u, r, title, Unset)
             b == [a EXCEPT !.item = i]
             c == [b EXCEPT !.who = Unset]
             q == [c EXCEPT !.row = row]
  <2>2. r \in RepoIds
    BY DEF TrackerInv, TrackShape, Item
  <2>3. /\ row \in TrackRow \cup {Unset}
        /\ row # Unset => row[1] = "milestone" /\ row[2] \in {r, repo[r].owner}
    BY <2>2, MilestoneFound
  <2>4. Taken(w, q) /\ refuseArchived(r)
    BY <2>1, Zenon DEF OnItem, Live
  <2>11. item[i].is = "here"
    BY <1>2, <2>1
  <2> HIDE DEF row
  <2>5. item[i].repo = r
    OBVIOUS
  <2> HIDE DEF r
  <2>6. a = [op |-> "milestone", by |-> u, scope |-> r, saw |-> repo[r], item |-> Unset,
             name |-> title, row |-> Unset, who |-> Unset, arg |-> Unset, at |-> "write"]
    BY DEF OnRepo
  <2> HIDE DEF a
  <2>7. b = [op |-> "milestone", by |-> u, scope |-> r, saw |-> repo[r], item |-> i,
             name |-> title, row |-> Unset, who |-> Unset, arg |-> Unset, at |-> "write"]
    BY <2>6
  <2> HIDE DEF b
  <2>8. c = [op |-> "milestone", by |-> u, scope |-> r, saw |-> repo[r], item |-> i,
             name |-> title, row |-> Unset, who |-> Unset, arg |-> Unset, at |-> "write"]
    BY <2>7
  <2> HIDE DEF c
  <2>9. q = [op |-> "milestone", by |-> u, scope |-> r, saw |-> repo[r], item |-> i,
             name |-> title, row |-> row, who |-> Unset, arg |-> Unset, at |-> "write"]
    BY <2>8
  <2> HIDE DEF q
  <2>22. r \in RepoIds /\ Taken(w, q) /\ refuseArchived(r)
    BY <2>2, <2>4
  <2>23. /\ row \in TrackRow \cup {Unset}
         /\ row # Unset => row[1] = "milestone" /\ row[2] \in {r, repo[r].owner}
    BY <2>3
  <2>20. /\ q.op = "milestone" /\ q.scope = r /\ q.saw = repo[r] /\ q.item = i
         /\ q.row = row /\ q.arg = Unset /\ q.at = "write"
    BY <2>9
  <2>21. q \in Job
    <3>1. /\ "milestone" \in TrackOps /\ r \in Scopes /\ repo[r] \in RepoRow
          /\ i \in ItemIds \cup {Unset} /\ Unset \in Users \cup {Unset}
          /\ Unset \in {"issue", "mr", "on", "off", "default", "watching", "muted", Unset}
                      \cup Shas
      BY <2>22 DEF TrackOps, Scopes, TrackerInv, AccessInv, AccessShape, AccessTypeOK
    <3>2. [op |-> "milestone", by |-> u, scope |-> r, saw |-> repo[r], item |-> i,
           name |-> title, row |-> row, who |-> Unset, arg |-> Unset, at |-> "write"] \in Job
      BY <2>23, <3>1, JobRecord, Zenon
    <3> QED
      BY <2>9, <3>2
  <2>24. repo[r].owner \in Users \cup OrgIds
    BY <2>22 DEF TrackerInv, AccessOnce
  <2>25. JobFits(q)
    BY <2>20, <2>21, <2>22, <2>23, <2>24 DEF JobFits, refuseArchived, OnOrgs, Refers
  <2>26. JobStands(q, item, repo, accessOps)
    BY <2>20, <2>5, <2>11 DEF JobStands, OnItems
  <2> QED
    BY <2>20, <2>22, <2>25, <2>26, TakenKeeps
<1> QED
  BY <1>3, <1>4, <1>5, <1>6

\* Commands on a repository's rows, watching, and what a message names.
LEMMA RepoAsked ==
    ASSUME TrackerInv, NEW w \in TrackWorkers, Waiting(w),
           \/ runLabelSet(w) \/ runLabelRemove(w) \/ runMilestoneCreate(w)
           \/ setMilestoneState(w) \/ setWatch(w)
           \/ ProcessCommitMessages(w) \/ ProcessMRDescription(w)
    PROVE  TrackerInv'
<1>1. \A o \in {"labelset", "labelremove", "milestonecreate", "milestonestate", "watch",
                "ref", "mrref"} :
        o \in TrackOps \ OnOrgs /\ o \notin OnItems
  BY DEF TrackOps, OnOrgs, OnItems
<1>2. \A o \in {"labelset", "labelremove", "milestonecreate", "milestonestate", "watch"} :
        o \notin Refers
  BY DEF Refers
<1>3. CASE runLabelSet(w) \/ runLabelRemove(w) \/ runMilestoneCreate(w)
  <2>1. PICK op \in {"labelset", "labelremove", "milestonecreate"}, u \in Users,
             r \in RepoIds, n \in TrackNames : Taken(w, OnRepo(op, u, r, n, Unset))
    BY <1>3 DEF runLabelSet, runLabelRemove, runMilestoneCreate
  <2> DEFINE q == OnRepo(op, u, r, n, Unset)
  <2>2. q = [op |-> op, by |-> u, scope |-> r, saw |-> repo[r], item |-> Unset,
             name |-> n, row |-> Unset, who |-> Unset, arg |-> Unset, at |-> "write"]
    BY DEF OnRepo
  <2>3. Taken(w, q)
    BY <2>1
  <2> HIDE DEF q
  <2> QED
    BY <1>1, <1>2, <2>2, <2>3, OnRepoTaken
<1>4. CASE setMilestoneState(w)
  <2>1. PICK u \in Users, r \in RepoIds, n \in TrackNames, v \in {"on", "off"} :
          Taken(w, [OnRepo("milestonestate", u, r, n, v) EXCEPT
                      !.row = <<"milestone", r, n>>])
    BY <1>4 DEF setMilestoneState
  <2> DEFINE row == <<"milestone", r, n>>
             q == [OnRepo("milestonestate", u, r, n, v) EXCEPT !.row = row]
  <2>2. row \in TrackRow /\ row[1] = "milestone"
    BY DEF TrackRow, Scopes
  <2>3. Taken(w, q)
    BY <2>1
  <2> HIDE DEF row
  <2>4. q = [op |-> "milestonestate", by |-> u, scope |-> r, saw |-> repo[r],
             item |-> Unset, name |-> n, row |-> row, who |-> Unset, arg |-> v,
             at |-> "write"]
    BY DEF OnRepo
  <2> HIDE DEF q
  <2> QED
    BY <1>1, <1>2, <2>2, <2>3, <2>4, OnRepoTaken
<1>5. CASE setWatch(w)
  <2>1. PICK u \in Users, r \in RepoIds, v \in {"default", "watching", "muted"} :
          Taken(w, OnRepo("watch", u, r, Unset, v))
    BY <1>5 DEF setWatch
  <2> DEFINE q == OnRepo("watch", u, r, Unset, v)
  <2>2. q = [op |-> "watch", by |-> u, scope |-> r, saw |-> repo[r], item |-> Unset,
             name |-> Unset, row |-> Unset, who |-> Unset, arg |-> v, at |-> "write"]
    BY DEF OnRepo
  <2>3. Taken(w, q)
    BY <2>1
  <2> HIDE DEF q
  <2> QED
    BY <1>1, <1>2, <2>2, <2>3, OnRepoTaken
<1>6. CASE ProcessCommitMessages(w) \/ ProcessMRDescription(w)
  <2>1. PICK op \in {"ref", "mrref"}, u \in Users, r \in RepoIds, i \in ItemIds,
             arg \in Shas \cup {Unset} :
          /\ refuseArchived(r)
          /\ op = "ref" => arg \in Shas
          /\ Taken(w, [OnRepo(op, u, r, Unset, arg) EXCEPT !.item = i])
    BY <1>6 DEF ProcessCommitMessages, ProcessMRDescription
  <2> DEFINE q == [OnRepo(op, u, r, Unset, arg) EXCEPT !.item = i]
  <2>2. q = [op |-> op, by |-> u, scope |-> r, saw |-> repo[r], item |-> i,
             name |-> Unset, row |-> Unset, who |-> Unset, arg |-> arg, at |-> "write"]
    BY DEF OnRepo
  <2>3. Taken(w, q)
    BY <2>1
  <2> HIDE DEF q
  <2> QED
    BY <1>1, <2>1, <2>2, <2>3, OnRepoTaken
<1> QED
  BY <1>3, <1>4, <1>5, <1>6

LEMMA OrgAsked ==
    ASSUME TrackerInv, NEW w \in TrackWorkers, Waiting(w),
           \/ runOrgLabelSet(w) \/ runOrgLabelRemove(w) \/ runOrgMilestoneCreate(w)
           \/ setOrgMilestoneState(w)
    PROVE  TrackerInv'
<1>1. CASE runOrgLabelSet(w) \/ runOrgLabelRemove(w) \/ runOrgMilestoneCreate(w)
  <2>1. PICK op \in {"orglabelset", "orglabelremove", "orgmilestonecreate"}, u \in Users,
             o \in OrgIds, n \in TrackNames : Taken(w, OnOrg(op, u, o, n, Unset))
    BY <1>1 DEF runOrgLabelSet, runOrgLabelRemove, runOrgMilestoneCreate
  <2>2. op \in OnOrgs /\ op # "orgmilestonestate"
    BY DEF OnOrgs
  <2> DEFINE q == OnOrg(op, u, o, n, Unset)
  <2>3. q = [OnOrg(op, u, o, n, Unset) EXCEPT !.row = Unset]
    BY DEF OnOrg
  <2>4. Taken(w, q)
    BY <2>1
  <2> HIDE DEF q
  <2> QED
    BY <2>2, <2>3, <2>4, OnOrgTaken
<1>2. CASE setOrgMilestoneState(w)
  <2>1. PICK u \in Users, o \in OrgIds, n \in TrackNames, v \in {"on", "off"} :
          Taken(w, [OnOrg("orgmilestonestate", u, o, n, v) EXCEPT
                      !.row = <<"milestone", o, n>>])
    BY <1>2 DEF setOrgMilestoneState
  <2>2. \A x \in {"orgmilestonestate"} : x \in OnOrgs
    BY DEF OnOrgs
  <2> DEFINE row == <<"milestone", o, n>>
             q == [OnOrg("orgmilestonestate", u, o, n, v) EXCEPT !.row = row]
  <2>3. row \in TrackRow /\ row = <<"milestone", o, n>>
    BY DEF TrackRow, Scopes
  <2>4. q = [OnOrg("orgmilestonestate", u, o, n, v) EXCEPT !.row = row] /\ Taken(w, q)
    BY <2>1
  <2> HIDE DEF row, q
  <2> QED
    BY <2>2, <2>3, <2>4, OnOrgTaken
<1> QED
  BY <1>1, <1>2

LEMMA AskTracked ==
    ASSUME TrackerInv, NEW w \in TrackWorkers, Waiting(w),
           AskIssue(w) \/ AskMR(w) \/ AskRows(w)
    PROVE  TrackerInv'
BY CreateAsked, ItemAsked, RepoAsked, OrgAsked DEF AskIssue, AskMR, AskRows

-----------------------------------------------------------------------------
(* Tracker: the writes that leave labels and milestones as they are *)

NoticeKinds == {"opened", "thread", "mention", "asked"}

LEMMA KindsOfNotice ==
    "opened" \in NoticeKinds /\ "thread" \in NoticeKinds
    /\ "mention" \in NoticeKinds /\ "asked" \in NoticeKinds
BY DEF NoticeKinds

\* What one call tells, of one kind.
Tells(N, why) == N \subseteq TrackNotice /\ \A n \in N : n.why = why

LEMMA NotifyTells ==
    ASSUME NEW r, NEW actor, NEW targets, targets \subseteq Users, NEW widen,
           NEW i, i \in ItemIds, NEW why, why \in NoticeKinds
    PROVE  Tells(notify(r, actor, targets, widen, i, why), why)
<1> DEFINE R == NotifyRecipients(r, actor, targets, widen)
           N == notify(r, actor, targets, widen, i, why)
<1>1. R \subseteq Users
  BY TrackerAssumption DEF NotifyRecipients, defaultWatchers
<1>2. N = {[to |-> u, item |-> i, why |-> why, may |-> CanRead(u, r)] : u \in R}
  BY Zenon DEF notify
<1>3. ASSUME NEW u \in Users
      PROVE  CanRead(u, r) \in BOOLEAN
  BY DEF CanRead, isOwner
<1> HIDE DEF N, R
<1>4. ASSUME NEW n \in N
      PROVE  n \in TrackNotice /\ n.why = why
  <2>1. PICK u \in R :
          n = [to |-> u, item |-> i, why |-> why, may |-> CanRead(u, r)]
    BY <1>2, <1>4
  <2>2. u \in Users
    BY <1>1
  <2> DEFINE may == CanRead(u, r)
  <2>3. may \in BOOLEAN /\ n = [to |-> u, item |-> i, why |-> why, may |-> may]
    BY <1>3, <2>1, <2>2
  <2> HIDE DEF may
  <2> QED
    BY <2>2, <2>3 DEF TrackNotice, NoticeKinds
<1>5. Tells(N, why)
  BY <1>4 DEF Tells
<1> QED
  BY <1>5 DEF N

LEMMA InboxQuiet ==
    ASSUME TrackerInv, UNCHANGED accessVars, NEW N, N \subseteq TrackNotice,
           \A n \in N : n.why # "mention" \/ n.may \/ accessOps = MaxAccessOps,
           inbox' = inbox \cup N
    PROVE  inbox' \subseteq TrackNotice /\ MentionsReachReaders'
<1>1. accessOps' = accessOps
  BY DEF accessVars
<1> QED
  BY <1>1 DEF TrackerInv, TrackShape, MentionsReachReaders

LEMMA InboxRests ==
    ASSUME TrackerInv, UNCHANGED accessVars, UNCHANGED inbox
    PROVE  inbox' \subseteq TrackNotice /\ MentionsReachReaders'
<1>1. accessOps' = accessOps
  BY DEF accessVars
<1> QED
  BY <1>1 DEF TrackerInv, TrackShape, MentionsReachReaders

\* One item written, its labels and its milestone left.
LEMMA ItemSet ==
    ASSUME item \in [ItemIds -> Item], NEW i \in ItemIds, NEW y \in Item,
           item' = [item EXCEPT ![i] = y],
           y.labels = item[i].labels, y.milestone = item[i].milestone,
           y.repo = item[i].repo, y.is = item[i].is
    PROVE  item' \in [ItemIds -> Item] /\ CarrySame /\ ItemsStay
<1>1. \A j \in ItemIds : item'[j] = IF j = i THEN y ELSE item[j]
  OBVIOUS
<1> QED
  BY <1>1 DEF CarrySame, ItemsStay

LEMMA ItemsRest ==
    ASSUME item \in [ItemIds -> Item], UNCHANGED item
    PROVE  item' \in [ItemIds -> Item] /\ CarrySame /\ ItemsStay
BY DEF CarrySame, ItemsStay

\* The command under way, and what the invariant says of it.
LEMMA JobNow ==
    ASSUME TrackerInv, NEW w \in TrackWorkers, job[w] # Unset
    PROVE  /\ JobFits(job[w]) /\ JobStands(job[w], item, repo, accessOps)
           /\ job[w] \in Job /\ job[w].by \in Users
           /\ job[w].op \in OnItems \cup Refers \cup {"create"} => job[w].item \in ItemIds
           /\ item \in [ItemIds -> Item]
           /\ \A i \in ItemIds : item[i] \in Item
<1>1. JobFits(job[w]) /\ JobStands(job[w], item, repo, accessOps)
  BY DEF TrackerInv, JobsKnown
<1>2. job[w] \in Job /\ job[w].by \in Users
  BY <1>1 DEF JobFits, Job
<1>3. job[w].op \in OnItems \cup Refers \cup {"create"} => job[w].item \in ItemIds
  BY <1>1 DEF JobFits
<1>4. item \in [ItemIds -> Item] /\ \A i \in ItemIds : item[i] \in Item
  BY DEF TrackerInv, TrackShape
<1> QED
  BY <1>1, <1>2, <1>3, <1>4

\* A step of a command that writes no row and records no reference.
LEMMA QuietWrite ==
    ASSUME TrackerInv, NEW w \in TrackWorkers, job[w] # Unset,
           UNCHANGED accessVars,
           UNCHANGED <<rows, shut, refs, acted, stale, strayed, trackOps>>,
           item' \in [ItemIds -> Item], CarrySame, ItemsStay,
           watch' \in [RepoIds -> [Users -> {"default", "watching", "muted"}]],
           inbox' \subseteq TrackNotice, MentionsReachReaders', GoesOn(w)
    PROVE  TrackerInv'
<1>1. UNCHANGED <<repo, accessOps>>
  BY DEF accessVars
<1>2. JobsKnown /\ job \in [TrackWorkers -> Job \cup {Unset}]
  BY DEF TrackerInv, TrackShape
<1>3. /\ \A v \in TrackWorkers : v # w => job'[v] = job[v]
      /\ job'[w] # Unset => job'[w].at # "act"
  BY <1>1, <1>2, JobsGoOn
<1>4. RefsHeld'
  BY <1>3, RefsRest DEF TrackerInv
<1>5. /\ refs' \subseteq ItemIds \X (Shas \cup {"mr"})
      /\ acted' \in [ItemIds \X (Shas \cup {"mr"}) -> 0..2]
  BY DEF TrackerInv, TrackShape
<1> QED
  BY <1>4, <1>5, QuietKeeps

LEMMA WatchRests ==
    ASSUME TrackerInv, UNCHANGED watch
    PROVE  watch' \in [RepoIds -> [Users -> {"default", "watching", "muted"}]]
BY DEF TrackerInv, TrackShape

LEMMA ItemPeople ==
    ASSUME NEW x \in Item
    PROVE  IssueParticipants(x) \subseteq Users
BY DEF IssueParticipants, Item

LEMMA CreateItemKeeps ==
    ASSUME TrackerInv, NEW w \in TrackWorkers, job[w] # Unset, CreateItem(w),
           UNCHANGED accessVars
    PROVE  TrackerInv'
<1> DEFINE q == job[w]
<1>1. /\ q.op = "create" /\ q.at = "write" /\ q.item \in ItemIds /\ q.by \in Users
      /\ q.scope \in RepoIds /\ q.arg \in {"issue", "mr"}
      /\ q.saw.owner \in Users \cup OrgIds
      /\ item \in [ItemIds -> Item]
  BY JobNow DEF CreateItem, Working, JobFits, OnOrgs
<1>2. UNCHANGED <<rows, shut, watch, refs, acted, stale, strayed, trackOps>>
  BY DEF CreateItem
<1>3. CASE item[q.item].is = "none"
  <2> DEFINE row == [is |-> "here", kind |-> q.arg, repo |-> q.scope,
                     author |-> q.by, open |-> TRUE, labels |-> {},
                     milestone |-> Unset, asked |-> {}, said |-> {},
                     mentioned |-> {}, edited |-> {}, reacted |-> {}]
             N == notify(q.scope, q.by, RepoNotifyTargets(q.saw), TRUE, q.item, "opened")
  <2>1. /\ item' = [item EXCEPT ![q.item] = row] /\ inbox' = inbox \cup N
        /\ Onward(w, "label")
    BY <1>3, Zenon DEF CreateItem
  <2>2. row \in Item /\ row.labels = {} /\ row.milestone = Unset /\ row.is = "here"
        /\ row.repo = q.scope
    BY <1>1 DEF Item
  <2> HIDE DEF row
  <2>3. /\ item' \in [ItemIds -> Item] /\ item'[q.item] = row
        /\ \A i \in ItemIds : i # q.item => item'[i] = item[i]
    BY <1>1, <2>1, <2>2
  <2>4. CarrySame /\ ItemsStay
    BY <1>3, <2>2, <2>3 DEF CarrySame, ItemsStay
  <2>5. GoesOn(w)
    BY <1>1, <2>1, <2>2, <2>3 DEF GoesOn
  <2>6. RepoNotifyTargets(q.saw) \subseteq Users
    BY <1>1 DEF RepoNotifyTargets
  <2>7. Tells(N, "opened")
    BY <1>1, <2>6, NotifyTells, KindsOfNotice, Zenon
  <2> HIDE DEF N
  <2>8. inbox' \subseteq TrackNotice /\ MentionsReachReaders'
    BY <2>1, <2>7, InboxQuiet DEF Tells
  <2>9. watch' \in [RepoIds -> [Users -> {"default", "watching", "muted"}]]
    BY <1>2, WatchRests
  <2> QED
    BY <1>2, <2>3, <2>4, <2>5, <2>8, <2>9, QuietWrite
<1>4. CASE item[q.item].is # "none"
  <2>1. UNCHANGED <<item, inbox>> /\ Finishes(w)
    BY <1>4 DEF CreateItem
  <2>2. GoesOn(w)
    BY <2>1 DEF GoesOn
  <2> QED
    BY <1>1, <1>2, <2>1, <2>2, ItemsRest, InboxRests, WatchRests, QuietWrite
<1> QED
  BY <1>3, <1>4

LEMMA SkipKeeps ==
    ASSUME TrackerInv, NEW w \in TrackWorkers, job[w] # Unset, SkipStep(w) \/ Interrupted(w),
           UNCHANGED accessVars
    PROVE  TrackerInv'
<1>1. item \in [ItemIds -> Item] /\ JobStands(job[w], item, repo, accessOps)
  BY JobNow
<1>2. /\ UNCHANGED <<rows, shut, watch, refs, acted, stale, strayed, trackOps>>
      /\ UNCHANGED <<item, inbox>>
  BY DEF SkipStep, Interrupted
<1>3. GoesOn(w)
  <2>1. CASE Interrupted(w)
    BY <2>1 DEF Interrupted, GoesOn
  <2>2. CASE SkipStep(w)
    <3>1. /\ job[w].op = "create"
          /\ \/ job[w].at = "label" /\ Onward(w, "milestone")
             \/ job[w].at = "milestone" /\ Onward(w, "assign")
             \/ job[w].at = "assign" /\ Finishes(w)
      BY <2>2 DEF SkipStep, Working
    <3> QED
      BY <1>1, <1>2, <3>1 DEF GoesOn, JobStands
  <2> QED
    BY <2>1, <2>2
<1> QED
  BY <1>1, <1>2, <1>3, ItemsRest, InboxRests, WatchRests, QuietWrite

LEMMA AssignKeeps ==
    ASSUME TrackerInv, NEW w \in TrackWorkers, job[w] # Unset, setItemUser(w),
           UNCHANGED accessVars
    PROVE  TrackerInv'
<1> DEFINE q == job[w]
<1>1. /\ q.item \in ItemIds /\ q.who \in Users
      /\ item \in [ItemIds -> Item] /\ item[q.item] \in Item
  <2>1. q \in Job /\ JobFits(q)
    BY JobNow
  <2>2. q.op = "assign" \/ (q.op = "create" /\ q.who # Unset)
    BY DEF setItemUser
  <2>3. "assign" \in OnItems
    BY DEF OnItems
  <2>4. q.who \in Users
    BY <2>1, <2>2 DEF JobFits, Job
  <2> QED
    BY <2>2, <2>3, <2>4, JobNow
<1>2. /\ UNCHANGED <<rows, shut, watch, refs, acted, stale, strayed, trackOps>>
      /\ Finishes(w)
  BY DEF setItemUser
<1>3. GoesOn(w)
  BY <1>2 DEF GoesOn
<1> DEFINE mr == item[q.item].kind = "mr"
           N == notify(q.scope, q.by, {q.who}, mr, q.item, "asked")
           y == [item[q.item] EXCEPT !.asked = @ \cup {q.who}]
<1>4. \/ item' = [item EXCEPT ![q.item].asked = @ \cup {q.who}]
         /\ (inbox' = inbox \cup N \/ inbox' = inbox)
      \/ UNCHANGED <<item, inbox>>
  BY Zenon DEF setItemUser
<1>5. CASE UNCHANGED <<item, inbox>>
  BY <1>1, <1>2, <1>3, <1>5, ItemsRest, InboxRests, WatchRests, QuietWrite
<1>6. CASE /\ item' = [item EXCEPT ![q.item].asked = @ \cup {q.who}]
           /\ inbox' = inbox \cup N \/ inbox' = inbox
  <2>1. item' = [item EXCEPT ![q.item] = y]
    BY <1>6
  <2>2. y \in Item /\ y.labels = item[q.item].labels /\ y.is = item[q.item].is
        /\ y.milestone = item[q.item].milestone /\ y.repo = item[q.item].repo
    BY <1>1 DEF Item
  <2> HIDE DEF y
  <2>3. item' \in [ItemIds -> Item] /\ CarrySame /\ ItemsStay
    BY <1>1, <2>1, <2>2, ItemSet
  <2>4. Tells(N, "asked")
    <3>1. {q.who} \subseteq Users
      BY <1>1
    <3> QED
      BY <1>1, <3>1, NotifyTells, KindsOfNotice, Zenon
  <2> HIDE DEF N
  <2>5. inbox' \subseteq TrackNotice /\ MentionsReachReaders'
    BY <1>6, <2>4, InboxQuiet, InboxRests DEF Tells
  <2> QED
    BY <1>2, <1>3, <2>3, <2>5, WatchRests, QuietWrite
<1> QED
  BY <1>4, <1>5, <1>6

LEMMA TextKeeps ==
    ASSUME TrackerInv, NEW w \in TrackWorkers, job[w] # Unset,
           removeItemUser(w) \/ SetIssueState(w) \/ updateText(w) \/ SetReaction(w),
           UNCHANGED accessVars
    PROVE  TrackerInv'
<1> DEFINE q == job[w]
<1>1. q.op \in OnItems
  BY DEF OnItems, removeItemUser, SetIssueState, updateText, SetReaction, Working
<1>2. /\ q.item \in ItemIds /\ q.by \in Users
      /\ item \in [ItemIds -> Item] /\ item[q.item] \in Item
  BY <1>1, JobNow
<1>3. /\ UNCHANGED <<rows, shut, watch, refs, acted, stale, strayed, trackOps>>
      /\ Finishes(w)
  BY DEF removeItemUser, SetIssueState, updateText, SetReaction
<1>4. GoesOn(w)
  BY <1>3 DEF GoesOn
<1> DEFINE N == notify(q.scope, q.by, IssueParticipants(item[q.item]), TRUE, q.item, "thread")
<1>5. inbox' = inbox \cup N \/ inbox' = inbox
  BY Zenon DEF removeItemUser, SetIssueState, updateText, SetReaction
<1>6. Tells(N, "thread")
  <2>1. IssueParticipants(item[q.item]) \subseteq Users
    BY <1>2, ItemPeople
  <2> QED
    BY <1>2, <2>1, NotifyTells, KindsOfNotice, Zenon
<1> HIDE DEF N
<1>7. inbox' \subseteq TrackNotice /\ MentionsReachReaders'
  BY <1>5, <1>6, InboxQuiet, InboxRests DEF Tells
<1>8. PICK y \in Item :
        /\ item' = [item EXCEPT ![q.item] = y]
        /\ y.labels = item[q.item].labels /\ y.is = item[q.item].is
        /\ y.milestone = item[q.item].milestone /\ y.repo = item[q.item].repo
  <2>1. CASE removeItemUser(w)
    <3> DEFINE y == [item[q.item] EXCEPT !.asked = @ \ {q.who}]
    <3>1. item' = [item EXCEPT ![q.item] = y]
      BY <2>1 DEF removeItemUser
    <3>2. y \in Item /\ y.labels = item[q.item].labels /\ y.is = item[q.item].is
          /\ y.milestone = item[q.item].milestone /\ y.repo = item[q.item].repo
      BY <1>2 DEF Item
    <3> QED
      BY <3>1, <3>2
  <2>2. CASE SetIssueState(w)
    <3> DEFINE o == q.arg = "on"
               y == [item[q.item] EXCEPT !.open = o]
    <3>1. item' = [item EXCEPT ![q.item] = y]
      BY <2>2 DEF SetIssueState
    <3>2. o \in BOOLEAN
      OBVIOUS
    <3> HIDE DEF o
    <3>3. y \in Item /\ y.labels = item[q.item].labels /\ y.is = item[q.item].is
          /\ y.milestone = item[q.item].milestone /\ y.repo = item[q.item].repo
      BY <1>2, <3>2 DEF Item
    <3> QED
      BY <3>1, <3>3
  <2>3. CASE updateText(w)
    <3> DEFINE y == [item[q.item] EXCEPT !.edited = @ \cup {q.by}]
    <3>1. item' = [item EXCEPT ![q.item] = y]
      BY <2>3 DEF updateText
    <3>2. y \in Item /\ y.labels = item[q.item].labels /\ y.is = item[q.item].is
          /\ y.milestone = item[q.item].milestone /\ y.repo = item[q.item].repo
      BY <1>2 DEF Item
    <3> QED
      BY <3>1, <3>2
  <2>4. CASE SetReaction(w)
    <3> DEFINE S == IF q.arg = "on" THEN item[q.item].reacted \cup {q.by}
                    ELSE item[q.item].reacted \ {q.by}
               y == [item[q.item] EXCEPT !.reacted = S]
    <3>1. item' = [item EXCEPT ![q.item] = y]
      BY <2>4 DEF SetReaction
    <3>2. S \in SUBSET Users
      BY <1>2 DEF Item
    <3> HIDE DEF S
    <3>3. y \in Item /\ y.labels = item[q.item].labels /\ y.is = item[q.item].is
          /\ y.milestone = item[q.item].milestone /\ y.repo = item[q.item].repo
      BY <1>2, <3>2 DEF Item
    <3> QED
      BY <3>1, <3>3
  <2> QED
    BY <2>1, <2>2, <2>3, <2>4
<1>9. item' \in [ItemIds -> Item] /\ CarrySame /\ ItemsStay
  BY <1>2, <1>8, ItemSet
<1> QED
  BY <1>3, <1>4, <1>7, <1>9, WatchRests, QuietWrite

\* Whoever a comment mentions can read the repository, as the command saw it.
LEMMA CommentKeeps ==
    ASSUME TrackerInv, NEW w \in TrackWorkers, job[w] # Unset, AddComment(w),
           UNCHANGED accessVars
    PROVE  TrackerInv'
<1> DEFINE q == job[w]
           said == [item[q.item] EXCEPT !.said = @ \cup {q.by}]
           named == ReadersOf(q, {q.who} \ {Unset})
           y == [said EXCEPT !.mentioned = @ \cup named]
           N == notify(q.scope, q.by, IssueParticipants(said), TRUE, q.item, "thread")
           M == notify(q.scope, q.by, named, FALSE, q.item, "mention")
<1>1. q.op = "comment" /\ q.op \in OnItems /\ q.op \notin OnOrgs
  BY DEF OnItems, OnOrgs, AddComment, Working
<1>2. /\ q.item \in ItemIds /\ q.by \in Users /\ q.who \in Users \cup {Unset}
      /\ item \in [ItemIds -> Item] /\ item[q.item] \in Item
      /\ JobFits(q) /\ JobStands(q, item, repo, accessOps)
  BY <1>1, JobNow DEF Job
<1>3. /\ UNCHANGED <<rows, shut, watch, refs, acted, stale, strayed, trackOps>>
      /\ Finishes(w)
      /\ item' = [item EXCEPT ![q.item] = y]
      /\ inbox' = inbox \cup N \cup M
  BY Zenon DEF AddComment
<1>4. GoesOn(w)
  BY <1>3 DEF GoesOn
<1>5. said \in Item /\ said.labels = item[q.item].labels /\ said.is = item[q.item].is
      /\ said.milestone = item[q.item].milestone /\ said.repo = item[q.item].repo
  BY <1>2 DEF Item
<1>6. named \subseteq Users
  BY <1>2 DEF ReadersOf
<1>7. accessOps < MaxAccessOps => \A u \in named : CanRead(u, q.scope)
  <2>1. q.scope \in RepoIds /\ (accessOps < MaxAccessOps => q.saw = repo[q.scope])
    BY <1>1, <1>2 DEF JobFits, JobStands
  <2> QED
    BY <2>1 DEF ReadersOf, CanRead, isOwner
<1>8. Tells(M, "mention")
  BY <1>2, <1>6, NotifyTells, KindsOfNotice, Zenon
<1> DEFINE P == NotifyRecipients(q.scope, q.by, named, FALSE)
<1>14. P \subseteq named
  BY DEF NotifyRecipients
<1>15. M = {[to |-> u, item |-> q.item, why |-> "mention", may |-> CanRead(u, q.scope)] :
              u \in P}
  BY Zenon DEF notify
<1> HIDE DEF P, M
<1>9. \A n \in M : n.may \/ accessOps = MaxAccessOps
  <2>1. accessOps < MaxAccessOps \/ accessOps = MaxAccessOps
    BY AccessAssumption DEF TrackerInv, AccessOnce
  <2>2. ASSUME NEW n \in M, accessOps < MaxAccessOps
        PROVE  n.may
    <3>1. PICK u \in P :
            n = [to |-> u, item |-> q.item, why |-> "mention", may |-> CanRead(u, q.scope)]
      BY <1>15, <2>2
    <3>2. n.may = CanRead(u, q.scope)
      BY <3>1
    <3> QED
      BY <1>7, <1>14, <2>2, <3>2
  <2> QED
    BY <2>1, <2>2
<1>10. Tells(N, "thread")
  <2>1. IssueParticipants(said) \subseteq Users
    BY <1>5, ItemPeople
  <2> QED
    BY <1>2, <2>1, NotifyTells, KindsOfNotice, Zenon
<1> HIDE DEF named
<1>11. y \in Item /\ y.labels = item[q.item].labels /\ y.is = item[q.item].is
       /\ y.milestone = item[q.item].milestone /\ y.repo = item[q.item].repo
  <2> HIDE DEF said
  <2> QED
    BY <1>5, <1>6 DEF Item
<1> HIDE DEF y, N, M, said
<1>12. item' \in [ItemIds -> Item] /\ CarrySame /\ ItemsStay
  BY <1>2, <1>3, <1>11, ItemSet
<1>13. inbox' \subseteq TrackNotice /\ MentionsReachReaders'
  <2> DEFINE B == N \cup M
  <2>1. B \subseteq TrackNotice /\ inbox' = inbox \cup B
        /\ \A n \in B : n.why # "mention" \/ n.may \/ accessOps = MaxAccessOps
    BY <1>3, <1>8, <1>9, <1>10 DEF Tells
  <2> HIDE DEF B
  <2> QED
    BY <2>1, InboxQuiet
<1> QED
  BY <1>3, <1>4, <1>12, <1>13, WatchRests, QuietWrite

LEMMA WatchKeeps ==
    ASSUME TrackerInv, NEW w \in TrackWorkers, job[w] # Unset, SetRepoWatch(w),
           UNCHANGED accessVars
    PROVE  TrackerInv'
<1> DEFINE q == job[w]
<1>1. /\ q.by \in Users /\ q.arg \in {"default", "watching", "muted"}
      /\ q.scope \in RepoIds /\ item \in [ItemIds -> Item]
  BY JobNow DEF SetRepoWatch, Working, JobFits, OnOrgs
<1>2. /\ UNCHANGED <<rows, shut, item, inbox, refs, acted, stale, strayed, trackOps>>
      /\ Finishes(w) /\ watch' = [watch EXCEPT ![q.scope][q.by] = q.arg]
  BY DEF SetRepoWatch
<1>3. GoesOn(w)
  BY <1>2 DEF GoesOn
<1>4. watch' \in [RepoIds -> [Users -> {"default", "watching", "muted"}]]
  BY <1>1, <1>2 DEF TrackerInv, TrackShape
<1> QED
  BY <1>1, <1>2, <1>3, <1>4, ItemsRest, InboxRests, QuietWrite

-----------------------------------------------------------------------------
(* Tracker: references *)

LEMMA RefNow ==
    ASSUME TrackerInv, NEW w \in TrackWorkers, job[w] # Unset, job[w].op \in Refers
    PROVE  /\ ActsOn(job[w]) \in ItemIds \X (Shas \cup {"mr"})
           /\ job[w].item \in ItemIds
<1>1. JobFits(job[w]) /\ job[w].item \in ItemIds
  BY JobNow
<1>2. RefKey(job[w]) \in Shas \cup {"mr"}
  BY <1>1 DEF RefKey, Refers, JobFits
<1> QED
  BY <1>1, <1>2 DEF ActsOn

\* The reference is recorded before it acts, by the first command that gets
\* there.
LEMMA RecordRefKeeps ==
    ASSUME TrackerInv, NEW w \in TrackWorkers, job[w] # Unset, TryRecordCommitRef(w),
           UNCHANGED accessVars
    PROVE  TrackerInv'
<1> DEFINE q == job[w]
           k == ActsOn(q)
<1>1. q.op \in Refers
  BY DEF TryRecordCommitRef, Working, Refers
<1>2. k \in ItemIds \X (Shas \cup {"mr"}) /\ q.item \in ItemIds
  BY <1>1, RefNow
<1>3. /\ UNCHANGED <<rows, shut, item, watch, inbox, acted, stale, strayed, trackOps>>
      /\ \/ k \notin refs /\ refs' = refs \cup {k} /\ Onward(w, "act")
         \/ UNCHANGED refs /\ Finishes(w)
  BY DEF TryRecordCommitRef, FreshRef, ActsOn
<1>4. item \in [ItemIds -> Item]
  BY JobNow
<1>5. CASE UNCHANGED refs /\ Finishes(w)
  <2>1. GoesOn(w)
    BY <1>5 DEF GoesOn
  <2> QED
    BY <1>3, <1>4, <1>5, <2>1, ItemsRest, InboxRests, WatchRests, QuietWrite
<1>6. CASE k \notin refs /\ refs' = refs \cup {k} /\ Onward(w, "act")
  <2>1. job \in [TrackWorkers -> Job \cup {Unset}] /\ q \in Job
    BY JobNow DEF TrackerInv, TrackShape
  <2>2. /\ job'[w] = [q EXCEPT !.at = "act"]
        /\ \A v \in TrackWorkers : v # w => job'[v] = job[v]
    BY <1>6, <2>1 DEF Onward
  <2>3. ActsOn(job'[w]) = k
    BY <2>1, <2>2 DEF ActsOn, RefKey, Job
  <2> HIDE DEF k
  <2>4. acted[k] = 0
    BY <1>2, <1>6 DEF TrackerInv, RefsHeld
  <2>5. \A v \in TrackWorkers :
          v # w /\ job'[v] # Unset /\ job'[v].at = "act"
            => /\ ActsOn(job[v]) \in refs /\ acted[ActsOn(job[v])] = 0
               /\ job'[v] = job[v] /\ job[v] # Unset /\ job[v].at = "act"
    BY <2>2 DEF TrackerInv, RefsHeld
  <2>6. RefsHeld'
    <3>1. \A x \in ItemIds \X (Shas \cup {"mr"}) :
            acted'[x] \in {0, 1} /\ (acted'[x] = 1 => x \in refs')
      BY <1>3, <1>6 DEF TrackerInv, RefsHeld
    <3>2. ASSUME NEW v \in TrackWorkers, job'[v] # Unset, job'[v].at = "act"
          PROVE  ActsOn(job'[v]) \in refs' /\ acted'[ActsOn(job'[v])] = 0
      BY <1>3, <1>6, <2>3, <2>4, <2>5, <3>2
    <3>3. ASSUME NEW v \in TrackWorkers, job'[v] # Unset, job'[v].at = "act",
                 NEW z \in TrackWorkers, job'[z] # Unset, job'[z].at = "act",
                 ActsOn(job'[z]) = ActsOn(job'[v])
          PROVE  z = v
      <4>1. v # w => ActsOn(job'[v]) # k
        BY <1>6, <2>5, <3>3
      <4>2. z # w => ActsOn(job'[z]) # k
        BY <1>6, <2>5, <3>3
      <4>3. v # w /\ z # w => z = v
        BY <2>5, <3>3 DEF TrackerInv, RefsHeld
      <4> QED
        BY <2>3, <3>3, <4>1, <4>2, <4>3
    <3>4. (\A v \in TrackWorkers :
             job[v] # Unset /\ job[v].at = "act" =>
               /\ ActsOn(job[v]) \in refs /\ acted[ActsOn(job[v])] = 0
               /\ \A z \in TrackWorkers :
                    /\ job[z] # Unset /\ job[z].at = "act"
                    /\ ActsOn(job[z]) = ActsOn(job[v])
                    => z = v)'
      BY <3>2, <3>3
    <3> QED
      BY <3>1, <3>4 DEF RefsHeld
  <2>7. refs' \subseteq ItemIds \X (Shas \cup {"mr"})
        /\ acted' \in [ItemIds \X (Shas \cup {"mr"}) -> 0..2]
    BY <1>2, <1>3, <1>6 DEF TrackerInv, TrackShape
  <2> QED
    BY <1>1, <1>3, <1>4, <1>6, <2>6, <2>7, ItemsRest, InboxRests, WatchRests, QuietKeeps
<1> QED
  BY <1>3, <1>5, <1>6

\* No other command acts on the reference: it acts once.
LEMMA ActKeeps ==
    ASSUME TrackerInv, NEW w \in TrackWorkers, job[w] # Unset, actOnIssue(w),
           UNCHANGED accessVars
    PROVE  TrackerInv'
<1> DEFINE q == job[w]
           k == ActsOn(q)
           y == [item[q.item] EXCEPT !.open = FALSE]
<1>1. q.op \in Refers /\ q.at = "act"
  BY DEF actOnIssue, Working, Refers
<1>2. k \in ItemIds \X (Shas \cup {"mr"}) /\ q.item \in ItemIds
  BY <1>1, RefNow
<1>3. /\ UNCHANGED <<rows, shut, watch, inbox, refs, stale, strayed, trackOps>>
      /\ Finishes(w)
      /\ acted' = [acted EXCEPT ![k] = @ + 1]
      /\ item' = [item EXCEPT ![q.item] = y] \/ UNCHANGED item
  BY DEF actOnIssue, ActsOn
<1>4. item \in [ItemIds -> Item] /\ item[q.item] \in Item
  BY <1>2, JobNow
<1>5. y \in Item /\ y.labels = item[q.item].labels /\ y.is = item[q.item].is
      /\ y.milestone = item[q.item].milestone /\ y.repo = item[q.item].repo
  BY <1>4 DEF Item
<1> HIDE DEF y
<1>6. item' \in [ItemIds -> Item] /\ CarrySame /\ ItemsStay
  BY <1>2, <1>3, <1>4, <1>5, ItemSet, ItemsRest
<1>7. GoesOn(w)
  BY <1>3 DEF GoesOn
<1>8. job \in [TrackWorkers -> Job \cup {Unset}]
      /\ acted \in [ItemIds \X (Shas \cup {"mr"}) -> 0..2]
  BY DEF TrackerInv, TrackShape
<1>9. job'[w] = Unset /\ \A v \in TrackWorkers : v # w => job'[v] = job[v]
  BY <1>3, <1>8 DEF Finishes
<1>10. /\ k \in refs /\ acted[k] = 0
       /\ \A v \in TrackWorkers :
            job[v] # Unset /\ job[v].at = "act" /\ ActsOn(job[v]) = k => v = w
  BY <1>1 DEF TrackerInv, RefsHeld
<1> HIDE DEF k
<1>11. acted'[k] = 1 /\ \A x \in ItemIds \X (Shas \cup {"mr"}) : x # k => acted'[x] = acted[x]
  BY <1>2, <1>3, <1>8, <1>10
<1>12. RefsHeld'
  <2>1. \A x \in ItemIds \X (Shas \cup {"mr"}) :
          acted'[x] \in {0, 1} /\ (acted'[x] = 1 => x \in refs')
    BY <1>3, <1>10, <1>11 DEF TrackerInv, RefsHeld
  <2>2. \A v \in TrackWorkers :
          job'[v] # Unset /\ job'[v].at = "act" =>
            /\ job'[v] = job[v] /\ v # w
            /\ ActsOn(job[v]) \in ItemIds \X (Shas \cup {"mr"})
            /\ ActsOn(job[v]) # k
    <3>1. ASSUME NEW v \in TrackWorkers, job'[v] # Unset, job'[v].at = "act"
          PROVE  ActsOn(job[v]) \in ItemIds \X (Shas \cup {"mr"})
      <4>1. job[v] # Unset /\ job[v].at = "act"
        BY <1>9, <3>1
      <4>2. job[v].op \in Refers
        BY <4>1 DEF TrackerInv, JobsKnown, JobFits
      <4> QED
        BY <4>1, <4>2, RefNow
    <3> QED
      BY <1>9, <1>10, <3>1
  <2>3. (\A v \in TrackWorkers :
           job[v] # Unset /\ job[v].at = "act" =>
             /\ ActsOn(job[v]) \in refs /\ acted[ActsOn(job[v])] = 0
             /\ \A z \in TrackWorkers :
                  /\ job[z] # Unset /\ job[z].at = "act"
                  /\ ActsOn(job[z]) = ActsOn(job[v])
                  => z = v)'
    <3>1. ASSUME NEW v \in TrackWorkers, job'[v] # Unset, job'[v].at = "act"
          PROVE  /\ ActsOn(job'[v]) \in refs' /\ acted'[ActsOn(job'[v])] = 0
                 /\ \A z \in TrackWorkers :
                      /\ job'[z] # Unset /\ job'[z].at = "act"
                      /\ ActsOn(job'[z]) = ActsOn(job'[v])
                      => z = v
      BY <1>3, <1>11, <2>2, <3>1 DEF TrackerInv, RefsHeld
    <3> QED
      BY <3>1
  <2> QED
    BY <2>1, <2>3 DEF RefsHeld
<1>13. refs' \subseteq ItemIds \X (Shas \cup {"mr"})
       /\ acted' \in [ItemIds \X (Shas \cup {"mr"}) -> 0..2]
  <2>1. ASSUME NEW x \in ItemIds \X (Shas \cup {"mr"})
        PROVE  acted'[x] \in 0..2
    BY <1>8, <1>11, <2>1
  <2> QED
    BY <1>3, <2>1 DEF TrackerInv, TrackShape
<1> QED
  BY <1>3, <1>6, <1>7, <1>12, <1>13, InboxRests, WatchRests, QuietKeeps

-----------------------------------------------------------------------------
(* Tracker: the writes to labels and milestones *)

\* A command that writes rows, and what it must leave in order.
LEMMA RowsWrite ==
    ASSUME TrackerInv, NEW w \in TrackWorkers, job[w] # Unset, UNCHANGED accessVars,
           UNCHANGED <<watch, inbox, refs, acted, strayed, trackOps>>,
           item' \in [ItemIds -> Item], ItemsStay, GoesOn(w), stale' \subseteq RepoIds,
           RowsHold', NoTwoOfEach', RowsInScope'
    PROVE  TrackerInv'
<1>1. UNCHANGED <<repo, accessOps>>
  BY DEF accessVars
<1>2. job \in [TrackWorkers -> Job \cup {Unset}]
  BY DEF TrackerInv, TrackShape
<1>3. /\ JobsKnown' /\ job' \in [TrackWorkers -> Job \cup {Unset}]
      /\ \A v \in TrackWorkers : v # w => job'[v] = job[v]
      /\ job'[w] # Unset => job'[w].at # "act"
  BY <1>1, <1>2, JobsGoOn DEF TrackerInv
<1>4. RefsHeld'
  BY <1>3, RefsRest DEF TrackerInv
<1>5. TrackShape'
  BY <1>3 DEF TrackerInv, TrackShape
<1>6. MentionsReachReaders'
  BY <1>1 DEF TrackerInv, MentionsReachReaders
<1> QED
  BY <1>3, <1>4, <1>5, <1>6, AccessRest DEF TrackerInv

\* The rows of an item: the repository's it is in, or those of its owner.
CarriesInScope(i) ==
    \A x \in item[i].labels \cup ({item[i].milestone} \ {Unset}) :
       x[2] \in {item[i].repo, repo[item[i].repo].owner}

LEMMA ScopeOf ==
    RowsInScope <=> \A i \in ItemIds : item[i].repo \in stale \cup strayed \/ CarriesInScope(i)
BY DEF RowsInScope, CarriesInScope

\* A row a repository adds when its owner has none of the name.
LEMMA RowAdded ==
    ASSUME TrackerInv, UNCHANGED accessVars, NEW t \in {"label", "milestone"},
           NEW r \in RepoIds, NEW n \in TrackNames,
           rows' = rows \cup {<<t, r, n>>}, UNCHANGED shut,
           <<t, repo[r].owner, n>> \notin rows \/ r \in stale', stale \subseteq stale'
    PROVE  NoTwoOfEach' /\ rows' \subseteq TrackRow /\ shut' \subseteq rows'
<1>1. UNCHANGED repo
  BY DEF accessVars
<1>2. \A s \in RepoIds : repo[s].owner \in Users \cup OrgIds
  BY DEF TrackerInv, AccessOnce
<1>3. ASSUME NEW s \in RepoIds, NEW tt \in {"label", "milestone"}, NEW m \in TrackNames,
             <<tt, s, m>> \in rows', <<tt, repo[s].owner, m>> \in rows'
      PROVE  s \in stale'
  <2>1. repo[s].owner # r
    BY <1>2, TrackerAssumption
  <2>2. <<tt, repo[s].owner, m>> \in rows
    BY <1>3, <2>1
  <2>3. CASE <<tt, s, m>> \in rows
    BY <2>2, <2>3 DEF TrackerInv, NoTwoOfEach
  <2>4. CASE <<tt, s, m>> = <<t, r, n>>
    BY <2>2, <2>4
  <2> QED
    BY <1>3, <2>3, <2>4
<1>4. NoTwoOfEach'
  BY <1>1, <1>3 DEF NoTwoOfEach
<1>5. <<t, r, n>> \in TrackRow
  BY DEF TrackRow, Scopes
<1> QED
  BY <1>4, <1>5 DEF TrackerInv, RowsHold

\* No row is written or taken out.
LEMMA RowsRest ==
    ASSUME TrackerInv, UNCHANGED accessVars, UNCHANGED rows, stale \subseteq stale'
    PROVE  NoTwoOfEach'
<1>1. UNCHANGED repo
  BY DEF accessVars
<1> QED
  BY <1>1 DEF TrackerInv, NoTwoOfEach

\* One item carries what y says.
LEMMA CarriesSet ==
    ASSUME TrackerInv, UNCHANGED accessVars, UNCHANGED <<shut, strayed>>,
           rows \subseteq rows', rows' \subseteq TrackRow, stale \subseteq stale',
           NEW i \in ItemIds, NEW y \in Item,
           y.repo = item[i].repo, y.is = item[i].is,
           item' = [item EXCEPT ![i] = y],
           \A x \in y.labels : x \in item[i].labels \/ (x \in rows' /\ x[1] = "label"),
           \/ y.milestone \in {item[i].milestone, Unset}
           \/ y.milestone \in rows' /\ y.milestone[1] = "milestone",
           \/ item[i].repo \in stale'
           \/ \A x \in y.labels : \/ x \in item[i].labels
                                  \/ x[2] \in {item[i].repo, repo[item[i].repo].owner},
           \/ item[i].repo \in stale' \/ y.milestone \in {item[i].milestone, Unset}
           \/ y.milestone[2] \in {item[i].repo, repo[item[i].repo].owner}
    PROVE  /\ item' \in [ItemIds -> Item] /\ ItemsStay
           /\ RowsHold' /\ RowsInScope'
<1>1. UNCHANGED repo
  BY DEF accessVars
<1>2. item \in [ItemIds -> Item]
  BY DEF TrackerInv, TrackShape
<1>3. item'[i] = y /\ \A j \in ItemIds : j # i => item'[j] = item[j]
  BY <1>2
<1>4. item' \in [ItemIds -> Item] /\ ItemsStay
  BY <1>2, <1>3 DEF ItemsStay
<1>5. RowsHold'
  <2>1. /\ \A x \in item'[i].labels : x \in rows' /\ x[1] = "label"
        /\ item'[i].milestone # Unset => /\ item'[i].milestone \in rows'
                                         /\ item'[i].milestone[1] = "milestone"
    BY <1>3 DEF TrackerInv, RowsHold
  <2>2. \A j \in ItemIds :
          /\ \A x \in item'[j].labels : x \in rows' /\ x[1] = "label"
          /\ item'[j].milestone # Unset => /\ item'[j].milestone \in rows'
                                           /\ item'[j].milestone[1] = "milestone"
    BY <1>3, <2>1 DEF TrackerInv, RowsHold
  <2> QED
    BY <2>2 DEF TrackerInv, RowsHold
<1>6. RowsInScope'
  <2>1. ASSUME NEW j \in ItemIds, item'[j].repo \notin stale' \cup strayed',
               NEW x \in item'[j].labels \cup ({item'[j].milestone} \ {Unset})
        PROVE  x[2] \in {item'[j].repo, repo[item'[j].repo].owner}
    <3>1. CASE j # i
      BY <1>3, <2>1, <3>1 DEF TrackerInv, RowsInScope
    <3>2. CASE j = i
      <4>1. item[i].repo \notin stale \cup strayed
        BY <1>3, <2>1, <3>2
      <4>2. CASE x \in item[i].labels \cup ({item[i].milestone} \ {Unset})
        BY <1>3, <3>2, <4>1, <4>2 DEF TrackerInv, RowsInScope
      <4>3. CASE x \notin item[i].labels \cup ({item[i].milestone} \ {Unset})
        <5>1. item[i].repo \notin stale' /\ item'[j] = y
          BY <1>3, <2>1, <3>2
        <5>2. x \in y.labels \/ (x = y.milestone /\ y.milestone # Unset)
          BY <2>1, <5>1
        <5> QED
          BY <4>3, <5>1, <5>2
      <4> QED
        BY <4>2, <4>3
    <3> QED
      BY <3>1, <3>2
  <2> QED
    BY <1>1, <2>1 DEF RowsInScope
<1> QED
  BY <1>4, <1>5, <1>6

\* A command that has read its repository writes under the owner there is,
\* or leaves a note that it did not.
LEMMA OwnerSeen ==
    ASSUME TrackerInv, NEW w \in TrackWorkers, job[w] # Unset, job[w].op \notin OnOrgs
    PROVE  /\ job[w].scope \in RepoIds /\ repo[job[w].scope].owner \in Users \cup OrgIds
           /\ ~ OldOwner(job[w]) => job[w].saw.owner = repo[job[w].scope].owner
<1>1. JobFits(job[w])
  BY JobNow
<1> QED
  BY <1>1 DEF JobFits, TrackerInv, AccessOnce, OldOwner

\* Attaching a label.
LEMMA LabelKeeps ==
    ASSUME TrackerInv, NEW w \in TrackWorkers, job[w] # Unset, setItemLabel(w),
           UNCHANGED accessVars
    PROVE  TrackerInv'
<1> DEFINE q == job[w]
           i == q.item
           new == <<"label", q.scope, q.name>>
           old == <<"label", q.saw.owner, q.name>>
           after == rows \cup (IF orgHoldsLabel(q) THEN {} ELSE {new})
           x == Resolves(q, after)
           L == item[i].labels \cup {x}
           y == [item[i] EXCEPT !.labels = L]
<1>1. /\ q.name # Unset
      /\ q.op = "label" \/ (q.op = "create" /\ q.at = "label")
      /\ rows' = after
      /\ item' = [item EXCEPT ![i].labels = @ \cup {x}]
      /\ stale' = IF OldOwner(q) THEN stale \cup {q.scope} ELSE stale
      /\ IF q.op = "create" THEN Onward(w, "milestone") ELSE Finishes(w)
      /\ UNCHANGED <<shut, watch, inbox, refs, acted, strayed, trackOps>>
  BY Zenon DEF setItemLabel
<1>2. /\ q.op \in OnItems \cup {"create"} /\ q.op \notin OnOrgs
      /\ q.op \in OnItems \/ (q.op = "create" /\ q.at # "write")
  BY <1>1 DEF OnItems, OnOrgs
<1>3. /\ JobFits(q) /\ JobStands(q, item, repo, accessOps) /\ q \in Job
      /\ q.item \in ItemIds /\ item[i] \in Item
  BY <1>2, JobNow
<1>4. /\ item[i].is = "here" /\ item[i].repo = q.scope
      /\ q.name \in TrackNames
  BY <1>1, <1>2, <1>3 DEF JobStands, Job
<1>5. /\ q.scope \in RepoIds /\ repo[q.scope].owner \in Users \cup OrgIds
      /\ ~ OldOwner(q) => q.saw.owner = repo[q.scope].owner
  BY <1>2, OwnerSeen
<1>6. \/ old \in rows /\ after = rows
      \/ old \notin rows /\ after = rows \cup {new}
  BY DEF orgHoldsLabel
<1>7. new \in TrackRow /\ rows \subseteq TrackRow
  BY <1>4, <1>5 DEF TrackRow, Scopes, TrackerInv, RowsHold
<1>8. /\ x \in after /\ x[1] = "label" /\ x[2] \in {q.saw.owner, q.scope}
  <2> DEFINE s == IF old \in after THEN q.saw.owner ELSE q.scope
  <2>1. <<"label", s, q.name>> \in after
    BY <1>6
  <2>2. x = CHOOSE z \in after : z[1] = "label" /\ z[3] = q.name /\ z[2] = s
    BY DEF Resolves
  <2> HIDE DEF after, x
  <2>3. \E z \in after : z[1] = "label" /\ z[3] = q.name /\ z[2] = s
    <3>1. <<"label", s, q.name>>[1] = "label" /\ <<"label", s, q.name>>[3] = q.name
          /\ <<"label", s, q.name>>[2] = s
      OBVIOUS
    <3> QED
      BY <2>1, <3>1
  <2> HIDE DEF s
  <2>4. x \in after /\ x[1] = "label" /\ x[3] = q.name /\ x[2] = s
    BY <2>2, <2>3
  <2> QED
    BY <2>4 DEF s
<1> HIDE DEF x, after
<1>9. rows \subseteq after /\ after \subseteq TrackRow /\ rows' = after
  BY <1>1, <1>6, <1>7
<1>10. stale \subseteq stale' /\ stale' \subseteq RepoIds
       /\ (OldOwner(q) => q.scope \in stale')
  BY <1>1, <1>5 DEF TrackerInv, TrackShape
<1>11. NoTwoOfEach'
  <2>1. CASE after = rows
    BY <1>1, <1>10, <2>1, RowsRest
  <2>2. CASE old \notin rows /\ after = rows \cup {new}
    <3>1. <<"label", repo[q.scope].owner, q.name>> \notin rows \/ q.scope \in stale'
      BY <1>5, <1>10, <2>2
    <3> HIDE DEF q
    <3>2. rows' = rows \cup {<<"label", q.scope, q.name>>}
      BY <1>1, <2>2
    <3>3. PICK t \in {"label", "milestone"} : t = "label"
      OBVIOUS
    <3> QED
      BY <1>1, <1>4, <1>5, <1>10, <3>1, <3>2, <3>3, RowAdded
  <2> QED
    BY <1>6, <2>1, <2>2
<1>12. /\ L \subseteq TrackRow /\ y \in Item /\ y.labels = L
       /\ y.milestone = item[i].milestone /\ y.repo = item[i].repo /\ y.is = item[i].is
       /\ item[i].milestone \in TrackRow \cup {Unset}
  <2>1. L \in SUBSET TrackRow
    BY <1>3, <1>8, <1>9 DEF Item
  <2> HIDE DEF L
  <2> QED
    BY <1>3, <2>1 DEF Item
<1>13. item' = [item EXCEPT ![i] = y]
  BY <1>1
<1>14. /\ item' \in [ItemIds -> Item] /\ ItemsStay
       /\ RowsHold' /\ RowsInScope'
  <2>1. \A z \in L : z \in item[i].labels \/ (z \in rows' /\ z[1] = "label")
    BY <1>8, <1>9
  <2>2. \/ item[i].repo \in stale'
        \/ \A z \in L : \/ z \in item[i].labels
                        \/ z[2] \in {item[i].repo, repo[item[i].repo].owner}
    BY <1>4, <1>5, <1>8, <1>10
  <2>3. UNCHANGED <<shut, strayed>> /\ i \in ItemIds
    BY <1>1, <1>3
  <2> HIDE DEF L, y, i, q
  <2> QED
    BY <1>9, <1>10, <1>12, <1>13, <2>1, <2>2, <2>3, CarriesSet
<1>15. GoesOn(w)
  <2>1. item'[i].is = "here" /\ item'[i].repo = q.scope
    BY <1>3, <1>4, <1>14 DEF ItemsStay
  <2> QED
    BY <1>1, <2>1 DEF GoesOn
<1> QED
  BY <1>1, <1>10, <1>11, <1>14, <1>15, RowsWrite

\* Taking a label off.
LEMMA UnlabelKeeps ==
    ASSUME TrackerInv, NEW w \in TrackWorkers, job[w] # Unset, removeItemLabel(w),
           UNCHANGED accessVars
    PROVE  TrackerInv'
<1> DEFINE q == job[w]
           i == q.item
           seen == {x \in rows : /\ x[1] = "label" /\ x[3] = q.name
                                 /\ x[2] \in {q.scope, q.saw.owner}}
           L == item[i].labels \ seen
           y == [item[i] EXCEPT !.labels = L]
<1>1. /\ q.op = "unlabel" /\ Finishes(w)
      /\ item' = [item EXCEPT ![i].labels = @ \ seen]
      /\ UNCHANGED <<rows, shut, watch, inbox, refs, acted, stale, strayed, trackOps>>
  BY Zenon DEF removeItemLabel, Working
<1>2. q.op \in OnItems
  BY <1>1 DEF OnItems
<1>3. q.item \in ItemIds /\ item[i] \in Item
  BY <1>2, JobNow
<1>4. /\ L \subseteq TrackRow /\ y \in Item /\ y.labels = L
      /\ y.milestone = item[i].milestone /\ y.repo = item[i].repo /\ y.is = item[i].is
      /\ item[i].milestone \in TrackRow \cup {Unset}
  <2>1. L \in SUBSET TrackRow
    BY <1>3 DEF Item
  <2> HIDE DEF L
  <2> QED
    BY <1>3, <2>1 DEF Item
<1>5. item' = [item EXCEPT ![i] = y]
  BY <1>1
<1>6. \A z \in L : z \in item[i].labels
  OBVIOUS
<1>7. rows \subseteq TrackRow /\ stale \subseteq RepoIds
  BY DEF TrackerInv, RowsHold, TrackShape
<1>8. NoTwoOfEach'
  BY <1>1, RowsRest
<1>9. GoesOn(w)
  BY <1>1 DEF GoesOn
<1>10. i \in ItemIds /\ UNCHANGED <<rows, shut, stale, strayed>>
  BY <1>1, <1>3
<1> HIDE DEF q, i, seen, L, y
<1>12. /\ item' \in [ItemIds -> Item] /\ ItemsStay
       /\ RowsHold' /\ RowsInScope'
  BY <1>4, <1>5, <1>6, <1>7, <1>10, CarriesSet
<1> QED
  BY <1>1, <1>7, <1>8, <1>9, <1>12, RowsWrite

\* Giving an item a milestone.
LEMMA MilestoneKeeps ==
    ASSUME TrackerInv, NEW w \in TrackWorkers, job[w] # Unset, recordItemMilestone(w),
           UNCHANGED accessVars
    PROVE  TrackerInv'
<1> DEFINE q == job[w]
           i == q.item
           m == IF q.row = Unset \/ q.row \in rows THEN q.row ELSE item[i].milestone
           y == [item[i] EXCEPT !.milestone = m]
<1>1. /\ q.op = "milestone" \/ (q.op = "create" /\ q.at = "milestone" /\ q.row # Unset)
      /\ item' = IF q.row = Unset \/ q.row \in rows
                 THEN [item EXCEPT ![i].milestone = q.row] ELSE item
      /\ stale' = IF OldOwner(q) THEN stale \cup {q.scope} ELSE stale
      /\ Finishes(w) \/ (q.op = "create" /\ Onward(w, "assign"))
      /\ UNCHANGED <<rows, shut, watch, inbox, refs, acted, strayed, trackOps>>
  BY Zenon DEF recordItemMilestone
<1>2. /\ q.op \in OnItems \cup {"create"} /\ q.op \notin OnOrgs
      /\ q.op \in OnItems \/ (q.op = "create" /\ q.at # "write")
      /\ q.op \in {"milestone", "create"}
  BY <1>1 DEF OnItems, OnOrgs
<1>3. /\ JobFits(q) /\ JobStands(q, item, repo, accessOps) /\ q \in Job
      /\ q.item \in ItemIds /\ item[i] \in Item
  BY <1>2, JobNow
<1>4. /\ item[i].is = "here" /\ item[i].repo = q.scope
      /\ q.row \in TrackRow \cup {Unset}
      /\ q.row # Unset => q.row[1] = "milestone" /\ q.row[2] \in {q.scope, q.saw.owner}
  BY <1>2, <1>3 DEF JobStands, JobFits, Job
<1>5. /\ q.scope \in RepoIds /\ repo[q.scope].owner \in Users \cup OrgIds
      /\ ~ OldOwner(q) => q.saw.owner = repo[q.scope].owner
  BY <1>2, OwnerSeen
<1>6. stale \subseteq stale' /\ stale' \subseteq RepoIds
      /\ (OldOwner(q) => q.scope \in stale')
  BY <1>1, <1>5 DEF TrackerInv, TrackShape
<1>7. NoTwoOfEach'
  BY <1>1, <1>6, RowsRest
<1>8. /\ m \in TrackRow \cup {Unset}
      /\ m \in {item[i].milestone, Unset} \/ (m \in rows /\ m[1] = "milestone")
      /\ \/ item[i].repo \in stale' \/ m \in {item[i].milestone, Unset}
         \/ m[2] \in {item[i].repo, repo[item[i].repo].owner}
  BY <1>3, <1>4, <1>5, <1>6 DEF Item
<1>9. item' = [item EXCEPT ![i] = y]
  <2>1. item \in [ItemIds -> Item]
    BY JobNow
  <2>2. CASE q.row = Unset \/ q.row \in rows
    BY <1>1, <2>2
  <2>3. CASE ~ (q.row = Unset \/ q.row \in rows)
    <3>1. y = item[i]
      BY <1>3, <2>3 DEF Item
    <3> QED
      BY <1>1, <2>1, <2>3, <3>1
  <2> QED
    BY <2>2, <2>3
<1> HIDE DEF m
<1>10. /\ y \in Item /\ y.labels = item[i].labels
       /\ y.milestone = m /\ y.repo = item[i].repo /\ y.is = item[i].is
       /\ item[i].labels \subseteq TrackRow
  BY <1>3, <1>8 DEF Item
<1>11. /\ rows \subseteq TrackRow /\ UNCHANGED <<rows, shut, strayed>>
       /\ i \in ItemIds
  BY <1>1, <1>3 DEF TrackerInv, RowsHold
<1> HIDE DEF y
<1>12. \A z \in y.labels : z \in item[i].labels
  BY <1>10
<1>13. /\ item' \in [ItemIds -> Item] /\ ItemsStay
       /\ RowsHold' /\ RowsInScope'
  <2> HIDE DEF q, i
  <2> QED
    BY <1>6, <1>8, <1>9, <1>10, <1>11, <1>12, CarriesSet
<1>14. GoesOn(w)
  <2>1. item'[i].is = "here" /\ item'[i].repo = q.scope
    BY <1>3, <1>4, <1>13 DEF ItemsStay
  <2> QED
    BY <1>1, <2>1 DEF GoesOn
<1> QED
  BY <1>1, <1>6, <1>7, <1>13, <1>14, RowsWrite

\* A row is written, and no item with it.
LEMMA ItemsKept ==
    ASSUME TrackerInv, UNCHANGED accessVars, UNCHANGED <<item, strayed>>,
           rows \subseteq rows', rows' \subseteq TrackRow, stale \subseteq stale',
           shut' \subseteq rows', \A x \in shut' : x[1] = "milestone"
    PROVE  /\ item' \in [ItemIds -> Item] /\ ItemsStay
           /\ RowsHold' /\ RowsInScope'
<1>1. UNCHANGED repo
  BY DEF accessVars
<1>2. item' \in [ItemIds -> Item] /\ ItemsStay
  BY DEF TrackerInv, TrackShape, ItemsStay
<1>3. RowsHold'
  BY DEF TrackerInv, RowsHold
<1>4. RowsInScope'
  BY <1>1 DEF TrackerInv, RowsInScope
<1> QED
  BY <1>2, <1>3, <1>4

\* A repository's own row, unless its owner has one of the name.
LEMMA OwnRowKeeps ==
    ASSUME TrackerInv, NEW w \in TrackWorkers, job[w] # Unset,
           SetLabel(w) \/ CreateMilestone(w), UNCHANGED accessVars
    PROVE  TrackerInv'
<1> DEFINE q == job[w]
<1>1. PICK t \in {"label", "milestone"} :
        /\ q.op = IF t = "label" THEN "labelset" ELSE "milestonecreate"
        /\ \/ UNCHANGED <<rows, stale>>
           \/ /\ <<t, q.saw.owner, q.name>> \notin rows
              /\ rows' = rows \cup {<<t, q.scope, q.name>>}
              /\ stale' = IF OldOwner(q) THEN stale \cup {q.scope} ELSE stale
        /\ Finishes(w)
        /\ UNCHANGED <<shut, item, watch, inbox, refs, acted, strayed, trackOps>>
  <2>1. CASE SetLabel(w)
    <3>1. /\ q.op = "labelset"
          /\ \/ UNCHANGED <<rows, stale>>
             \/ /\ <<"label", q.saw.owner, q.name>> \notin rows
                /\ rows' = rows \cup {<<"label", q.scope, q.name>>}
                /\ stale' = IF OldOwner(q) THEN stale \cup {q.scope} ELSE stale
          /\ Finishes(w)
          /\ UNCHANGED <<shut, item, watch, inbox, refs, acted, strayed, trackOps>>
      BY <2>1 DEF SetLabel, Working, orgHoldsLabel
    <3> QED
      BY <3>1
  <2>2. CASE CreateMilestone(w)
    <3>1. /\ q.op = "milestonecreate"
          /\ \/ UNCHANGED <<rows, stale>>
             \/ /\ <<"milestone", q.saw.owner, q.name>> \notin rows
                /\ rows' = rows \cup {<<"milestone", q.scope, q.name>>}
                /\ stale' = IF OldOwner(q) THEN stale \cup {q.scope} ELSE stale
          /\ Finishes(w)
          /\ UNCHANGED <<shut, item, watch, inbox, refs, acted, strayed, trackOps>>
      BY <2>2 DEF CreateMilestone, Working
    <3> QED
      BY <3>1
  <2> QED
    BY <2>1, <2>2
<1>2. q.op \in {"labelset", "milestonecreate"} /\ q.op \notin OnOrgs
  BY <1>1 DEF OnOrgs
<1>3. /\ q.scope \in RepoIds /\ repo[q.scope].owner \in Users \cup OrgIds
      /\ ~ OldOwner(q) => q.saw.owner = repo[q.scope].owner
  BY <1>2, OwnerSeen
<1>4. q.name \in TrackNames
  BY <1>2, JobNow DEF JobFits
<1>5. GoesOn(w)
  BY <1>1 DEF GoesOn
<1>6. stale \subseteq stale' /\ stale' \subseteq RepoIds
  BY <1>1, <1>3 DEF TrackerInv, TrackShape
<1>7. /\ NoTwoOfEach' /\ rows \subseteq rows' /\ rows' \subseteq TrackRow
      /\ shut' \subseteq rows'
  <2>1. CASE UNCHANGED <<rows, stale>>
    BY <1>1, <2>1, RowsRest DEF TrackerInv, RowsHold
  <2>2. CASE /\ <<t, q.saw.owner, q.name>> \notin rows
             /\ rows' = rows \cup {<<t, q.scope, q.name>>}
             /\ stale' = IF OldOwner(q) THEN stale \cup {q.scope} ELSE stale
    <3>1. <<t, repo[q.scope].owner, q.name>> \notin rows \/ q.scope \in stale'
      BY <1>3, <2>2
    <3>2. UNCHANGED shut /\ rows \subseteq rows'
      BY <1>1, <2>2
    <3> DEFINE r == q.scope
               n == q.name
    <3>3. r \in RepoIds /\ n \in TrackNames /\ rows' = rows \cup {<<t, r, n>>}
          /\ (<<t, repo[r].owner, n>> \notin rows \/ r \in stale')
      BY <1>3, <1>4, <2>2, <3>1
    <3> HIDE DEF r, n
    <3> QED
      BY <1>6, <3>2, <3>3, RowAdded
  <2> QED
    BY <1>1, <2>1, <2>2
<1>8. \A x \in shut' : x[1] = "milestone"
  BY <1>1 DEF TrackerInv, RowsHold
<1>9. /\ item' \in [ItemIds -> Item] /\ ItemsStay
      /\ RowsHold' /\ RowsInScope'
  BY <1>1, <1>6, <1>7, <1>8, ItemsKept
<1> QED
  BY <1>1, <1>5, <1>6, <1>7, <1>9, RowsWrite

\* Closing and reopening a milestone.
LEMMA ShutKeeps ==
    ASSUME TrackerInv, NEW w \in TrackWorkers, job[w] # Unset, SetMilestoneState(w),
           UNCHANGED accessVars
    PROVE  TrackerInv'
<1> DEFINE q == job[w]
<1>1. /\ q.op \in {"milestonestate", "orgmilestonestate"}
      /\ \/ shut' = shut \cup ({q.row} \cap rows)
         \/ shut' = shut \ {q.row}
      /\ Finishes(w)
      /\ UNCHANGED <<rows, item, watch, inbox, refs, acted, stale, strayed, trackOps>>
  BY Zenon DEF SetMilestoneState, Working
<1>2. q.row[1] = "milestone"
  BY <1>1, JobNow DEF JobFits
<1>3. GoesOn(w)
  BY <1>1 DEF GoesOn
<1>4. shut' \subseteq rows' /\ \A x \in shut' : x[1] = "milestone"
  BY <1>1, <1>2 DEF TrackerInv, RowsHold
<1>5. rows' \subseteq TrackRow /\ stale' \subseteq RepoIds
  BY <1>1 DEF TrackerInv, RowsHold, TrackShape
<1>6. NoTwoOfEach'
  BY <1>1, RowsRest
<1>7. /\ item' \in [ItemIds -> Item] /\ ItemsStay
      /\ RowsHold' /\ RowsInScope'
  BY <1>1, <1>4, <1>5, ItemsKept
<1> QED
  BY <1>1, <1>3, <1>5, <1>6, <1>7, RowsWrite

\* A label goes, and is taken off what carries it.
LEMMA DeleteKeeps ==
    ASSUME TrackerInv, NEW w \in TrackWorkers, job[w] # Unset, DeleteLabel(w),
           UNCHANGED accessVars
    PROVE  TrackerInv'
<1> DEFINE q == job[w]
<1>1. PICK x : /\ x[1] = "label"
               /\ rows' = rows \ {x} /\ item' = Without(x)
               /\ Finishes(w)
               /\ UNCHANGED <<shut, watch, inbox, refs, acted, stale, strayed, trackOps>>
  BY DEF DeleteLabel
<1>2. item \in [ItemIds -> Item]
  BY JobNow
<1>3. ASSUME NEW i \in ItemIds
      PROVE  /\ item'[i] \in Item /\ item'[i].labels = item[i].labels \ {x}
             /\ item'[i].milestone = item[i].milestone
             /\ item'[i].is = item[i].is /\ item'[i].repo = item[i].repo
  <2> DEFINE L == item[i].labels \ {x}
  <2>1. item[i] \in Item /\ L \in SUBSET TrackRow
    BY <1>2 DEF Item
  <2>2. item'[i] = [item[i] EXCEPT !.labels = L]
    BY <1>1 DEF Without
  <2> HIDE DEF L
  <2>3. /\ item'[i] \in Item /\ item'[i].labels = L
        /\ item'[i].milestone = item[i].milestone
        /\ item'[i].is = item[i].is /\ item'[i].repo = item[i].repo
    BY <2>1, <2>2 DEF Item
  <2> QED
    BY <2>3 DEF L
<1>4. item' \in [ItemIds -> Item] /\ ItemsStay
  <2>1. item' = [i \in ItemIds |-> item'[i]]
    BY <1>1 DEF Without
  <2> QED
    BY <1>3, <2>1 DEF ItemsStay
<1>5. RowsHold'
  <2>1. ASSUME NEW i \in ItemIds
        PROVE  /\ \A y \in item'[i].labels : y \in rows' /\ y[1] = "label"
               /\ item'[i].milestone # Unset => /\ item'[i].milestone \in rows'
                                                /\ item'[i].milestone[1] = "milestone"
    BY <1>1, <1>3 DEF TrackerInv, RowsHold
  <2>2. shut' \subseteq rows' /\ \A y \in shut' : y[1] = "milestone"
    BY <1>1 DEF TrackerInv, RowsHold
  <2>3. rows' \subseteq TrackRow
    BY <1>1 DEF TrackerInv, RowsHold
  <2> QED
    BY <2>1, <2>2, <2>3 DEF RowsHold
<1>6. UNCHANGED repo
  BY DEF accessVars
<1>7. NoTwoOfEach'
  BY <1>1, <1>6 DEF TrackerInv, NoTwoOfEach
<1>8. RowsInScope'
  BY <1>1, <1>3, <1>6 DEF TrackerInv, RowsInScope
<1>9. GoesOn(w)
  BY <1>1 DEF GoesOn
<1>10. stale' \subseteq RepoIds
  BY <1>1 DEF TrackerInv, TrackShape
<1> QED
  BY <1>1, <1>4, <1>5, <1>7, <1>8, <1>9, <1>10, RowsWrite

-----------------------------------------------------------------------------
(* Tracker: folding a repository's rows into its organization's *)

Carried(i) == item[i].labels \cup ({item[i].milestone} \ {Unset})

\* What an item carried stays, or gives way to the organization's row.
FoldedOnto(F, o) ==
    \A i \in ItemIds :
      /\ item'[i].repo = item[i].repo
      /\ \A x \in item'[i].labels \cup ({item'[i].milestone} \ {Unset}) :
           \/ x \in Carried(i) /\ x \notin F
           \/ \E y \in F : y \in Carried(i) /\ x = <<y[1], o, y[3]>>

LEMMA FoldKeeps ==
    ASSUME TrackerInv, NEW o, NEW F, F \subseteq rows,
           rows \ F \subseteq rows', rows' \subseteq TrackRow,
           \A x \in F : <<x[1], o, x[3]>> \in rows',
           shut' = shut \ F, item' = Folded(F, o)
    PROVE  /\ item' \in [ItemIds -> Item] /\ ItemsStay
           /\ RowsHold' /\ FoldedOnto(F, o)
<1>1. item \in [ItemIds -> Item]
  BY DEF TrackerInv, TrackShape
<1>2. ASSUME NEW i \in ItemIds
      PROVE  /\ item'[i] \in Item
             /\ item'[i].is = item[i].is /\ item'[i].repo = item[i].repo
             /\ item'[i].labels = {Onto(F, o, x) : x \in item[i].labels}
             /\ item'[i].milestone = IF item[i].milestone = Unset THEN Unset
                                     ELSE Onto(F, o, item[i].milestone)
             /\ item[i].milestone # Unset =>
                  Onto(F, o, item[i].milestone) \in rows'
             /\ \A x \in item[i].labels : Onto(F, o, x) \in rows'
    <2> DEFINE L == {Onto(F, o, x) : x \in item[i].labels}
               m == IF item[i].milestone = Unset THEN Unset
                    ELSE Onto(F, o, item[i].milestone)
               y == [item[i] EXCEPT !.labels = L]
    <2>1. item[i] \in Item
      BY <1>1
    <2>2. \A x \in rows : Onto(F, o, x) \in rows'
      BY DEF Onto
    <2>3. /\ \A x \in item[i].labels : x \in rows
          /\ item[i].milestone # Unset => item[i].milestone \in rows
      BY DEF TrackerInv, RowsHold
    <2>4. L \in SUBSET TrackRow /\ m \in TrackRow \cup {Unset}
      BY <2>2, <2>3
    <2>5. item'[i] = FoldedItem(item[i], F, o)
      BY DEF Folded
    <2> HIDE DEF L, m
    <2>6. item'[i] = [item[i] EXCEPT !.labels = L, !.milestone = m]
      <3>1. item[i].milestone = Unset => m = item[i].milestone
        BY DEF m
      <3>2. item[i].milestone # Unset => m = Onto(F, o, item[i].milestone)
        BY DEF m
      <3>3. FoldedItem(item[i], F, o) =
              [item[i] EXCEPT !.labels = {Onto(F, o, x) : x \in @},
                 !.milestone = IF @ = Unset THEN @ ELSE Onto(F, o, @)]
        BY Zenon DEF FoldedItem
      <3>4. L = {Onto(F, o, x) : x \in item[i].labels}
        BY Zenon DEF L
      <3>5. m = IF item[i].milestone = Unset THEN item[i].milestone
                ELSE Onto(F, o, item[i].milestone)
        BY <3>1, <3>2
      <3>6. FoldedItem(item[i], F, o) = [item[i] EXCEPT !.labels = L, !.milestone = m]
        BY <3>3, <3>4, <3>5, Zenon
      <3> QED
        BY <2>5, <3>6
    <2>9. item'[i] = [y EXCEPT !.milestone = m]
      BY <2>1, <2>6 DEF Item
    <2>10. y \in Item /\ y.labels = L /\ y.is = item[i].is /\ y.repo = item[i].repo
      BY <2>1, <2>4 DEF Item
    <2> HIDE DEF y
    <2>11. /\ item'[i] \in Item /\ item'[i].labels = L /\ item'[i].milestone = m
           /\ item'[i].is = item[i].is /\ item'[i].repo = item[i].repo
      BY <2>4, <2>9, <2>10 DEF Item
    <2> QED
      BY <2>2, <2>3, <2>11 DEF L, m
<1>3. item' \in [ItemIds -> Item] /\ ItemsStay
  <2>1. item' = [i \in ItemIds |-> item'[i]]
    BY DEF Folded
  <2> QED
    BY <1>2, <2>1 DEF ItemsStay
<1>4. \A x \in TrackRow : Onto(F, o, x)[1] = x[1]
  BY DEF Onto, TrackRow
<1>5. RowsHold'
  <2>1. ASSUME NEW i \in ItemIds, NEW x \in item'[i].labels
        PROVE  x \in rows' /\ x[1] = "label"
    <3>1. PICK y \in item[i].labels : x = Onto(F, o, y)
      BY <1>2, <2>1
    <3>2. y \in TrackRow /\ y[1] = "label"
      BY DEF TrackerInv, RowsHold
    <3> QED
      BY <1>2, <1>4, <3>1, <3>2
  <2>2. ASSUME NEW i \in ItemIds, item'[i].milestone # Unset
        PROVE  item'[i].milestone \in rows' /\ item'[i].milestone[1] = "milestone"
    <3>1. item[i].milestone # Unset /\ item'[i].milestone = Onto(F, o, item[i].milestone)
      BY <1>2, <2>2
    <3>2. item[i].milestone \in TrackRow /\ item[i].milestone[1] = "milestone"
      BY <3>1 DEF TrackerInv, RowsHold
    <3> QED
      BY <1>2, <1>4, <3>1, <3>2
  <2>3. shut' \subseteq rows' /\ \A x \in shut' : x[1] = "milestone"
    BY DEF TrackerInv, RowsHold
  <2> QED
    BY <2>1, <2>2, <2>3 DEF RowsHold
<1>6. ASSUME NEW i \in ItemIds,
             NEW x \in item'[i].labels \cup ({item'[i].milestone} \ {Unset})
      PROVE  \/ x \in Carried(i) /\ x \notin F
             \/ \E y \in F : y \in Carried(i) /\ x = <<y[1], o, y[3]>>
  <2>1. PICK y \in Carried(i) : x = Onto(F, o, y)
    <3>1. CASE x \in item'[i].labels
      BY <1>2, <3>1 DEF Carried
    <3>2. CASE x = item'[i].milestone /\ x # Unset
      <4>1. item[i].milestone # Unset /\ x = Onto(F, o, item[i].milestone)
        BY <1>2, <3>2
      <4> QED
        BY <4>1 DEF Carried
    <3> QED
      BY <1>6, <3>1, <3>2
  <2> QED
    BY <2>1 DEF Onto
<1> QED
  BY <1>2, <1>3, <1>5, <1>6 DEF FoldedOnto

\* An organization's row takes the place of its repositories' of the name.
LEMMA OrgRowKeeps ==
    ASSUME TrackerInv, NEW w \in TrackWorkers, job[w] # Unset, UNCHANGED accessVars,
           UNCHANGED <<watch, inbox, refs, acted, stale, strayed, trackOps>>, Finishes(w),
           NEW t \in {"label", "milestone"}, NEW o \in OrgIds, NEW n \in TrackNames,
           NEW F, F = UnderOrg(o, t, n),
           rows' = (rows \cup {<<t, o, n>>}) \ F, shut' = shut \ F, item' = Folded(F, o)
    PROVE  TrackerInv'
<1>1. UNCHANGED repo
  BY DEF accessVars
<1>2. /\ F \subseteq rows /\ rows \subseteq TrackRow
      /\ \A x \in F : /\ x[1] = t /\ x[3] = n /\ x[2] \in RepoIds /\ repo[x[2]].owner = o
  BY DEF UnderOrg, TrackerInv, RowsHold
<1>3. <<t, o, n>> \in TrackRow /\ <<t, o, n>> \in rows'
  BY <1>2, TrackerAssumption DEF TrackRow, Scopes
<1>4. rows \ F \subseteq rows' /\ rows' \subseteq TrackRow
      /\ \A x \in F : <<x[1], o, x[3]>> \in rows'
  BY <1>2, <1>3
<1>5. /\ item' \in [ItemIds -> Item] /\ ItemsStay
      /\ RowsHold' /\ FoldedOnto(F, o)
  BY <1>2, <1>4, FoldKeeps
<1>6. NoTwoOfEach'
  <2>1. ASSUME NEW r \in RepoIds, NEW tt \in {"label", "milestone"}, NEW m \in TrackNames,
               <<tt, r, m>> \in rows', <<tt, repo[r].owner, m>> \in rows'
        PROVE  r \in stale
    <3>1. <<tt, r, m>> \in rows /\ <<tt, r, m>> \notin F
      BY <2>1, TrackerAssumption
    <3>2. CASE <<tt, repo[r].owner, m>> \in rows
      BY <3>1, <3>2 DEF TrackerInv, NoTwoOfEach
    <3>3. CASE <<tt, repo[r].owner, m>> = <<t, o, n>>
      <4>1. tt = t /\ repo[r].owner = o /\ m = n
        BY <3>3
      <4>2. <<tt, r, m>> \in F
        BY <3>1, <4>1 DEF UnderOrg
      <4> QED
        BY <3>1, <4>2
    <3> QED
      BY <2>1, <3>2, <3>3
  <2> QED
    BY <1>1, <2>1 DEF NoTwoOfEach
<1>7. RowsInScope'
  <2>1. ASSUME NEW i \in ItemIds, item[i].repo \notin stale \cup strayed,
               NEW x \in item'[i].labels \cup ({item'[i].milestone} \ {Unset})
        PROVE  x[2] \in {item[i].repo, repo[item[i].repo].owner}
    <3>1. \A y \in Carried(i) : y[2] \in {item[i].repo, repo[item[i].repo].owner}
      BY <2>1 DEF TrackerInv, RowsInScope, Carried
    <3>2. CASE x \in Carried(i)
      BY <3>1, <3>2
    <3>3. CASE \E y \in F : y \in Carried(i) /\ x = <<y[1], o, y[3]>>
      <4>1. PICK y \in F : y \in Carried(i) /\ x = <<y[1], o, y[3]>>
        BY <3>3
      <4>2. y[2] \in RepoIds /\ repo[y[2]].owner = o /\ x[2] = o
        BY <1>2, <4>1
      <4>3. repo[item[i].repo].owner \in Users \cup OrgIds
        BY DEF TrackerInv, AccessOnce, TrackShape, Item
      <4>4. y[2] = item[i].repo
        BY <3>1, <4>1, <4>2, <4>3, TrackerAssumption
      <4> QED
        BY <4>2, <4>4
    <3> QED
      BY <1>5, <2>1, <3>2, <3>3 DEF FoldedOnto
  <2>2. \A i \in ItemIds : item'[i].repo = item[i].repo
    BY <1>5 DEF FoldedOnto
  <2> QED
    BY <1>1, <2>1, <2>2 DEF RowsInScope
<1>8. GoesOn(w)
  BY DEF GoesOn
<1>9. stale' \subseteq RepoIds
  BY DEF TrackerInv, TrackShape
<1> QED
  BY <1>5, <1>6, <1>7, <1>8, <1>9, RowsWrite

LEMMA OrgWritesKeep ==
    ASSUME TrackerInv, NEW w \in TrackWorkers, job[w] # Unset,
           SetOrgLabel(w) \/ CreateOrgMilestone(w), UNCHANGED accessVars
    PROVE  TrackerInv'
<1> DEFINE q == job[w]
           o == q.scope
           n == q.name
<1>1. q.op \in {"orglabelset", "orgmilestonecreate"}
  BY DEF SetOrgLabel, CreateOrgMilestone, Working
<1>2. o \in OrgIds /\ n \in TrackNames
  BY <1>1, JobNow DEF JobFits, OnOrgs
<1>3. UNCHANGED <<watch, inbox, refs, acted, stale, strayed, trackOps>> /\ Finishes(w)
  BY DEF SetOrgLabel, CreateOrgMilestone
<1>4. CASE UNCHANGED <<rows, shut, item>>
  <2>1. GoesOn(w)
    BY <1>3 DEF GoesOn
  <2>2. item \in [ItemIds -> Item]
    BY JobNow
  <2> QED
    BY <1>3, <1>4, <2>1, <2>2, ItemsRest, InboxRests, WatchRests, QuietWrite
<1>5. CASE /\ SetOrgLabel(w) /\ OrgHere(q.scope)
  <2> DEFINE F == UnderOrg(o, "label", n)
  <2>1. /\ rows' = (rows \cup {<<"label", o, n>>}) \ F /\ item' = Folded(F, o)
        /\ UNCHANGED shut
    BY <1>5, Zenon DEF SetOrgLabel
  <2>2. shut' = shut \ F
    BY <2>1 DEF TrackerInv, RowsHold, UnderOrg
  <2>3. PICK t \in {"label", "milestone"} : t = "label"
    OBVIOUS
  <2> DEFINE G == UnderOrg(o, t, n)
  <2>4. /\ rows' = (rows \cup {<<t, o, n>>}) \ G /\ item' = Folded(G, o)
        /\ shut' = shut \ G
    BY <2>1, <2>2, <2>3, Zenon
  <2>5. G = UnderOrg(o, t, n)
    OBVIOUS
  <2> HIDE DEF F, G, o, n
  <2> QED
    BY <1>2, <1>3, <2>4, <2>5, OrgRowKeeps
<1>6. CASE /\ CreateOrgMilestone(w) /\ OrgHere(q.scope)
           /\ <<"milestone", o, n>> \notin rows
  <2>3. PICK t \in {"label", "milestone"} : t = "milestone"
    OBVIOUS
  <2> DEFINE F == UnderOrg(o, "milestone", n)
             G == UnderOrg(o, t, n)
  <2>1. /\ rows' = (rows \cup {<<"milestone", o, n>>}) \ F /\ item' = Folded(F, o)
        /\ shut' = shut \ F
    BY <1>6, Zenon DEF CreateOrgMilestone
  <2>4. /\ rows' = (rows \cup {<<t, o, n>>}) \ G /\ item' = Folded(G, o)
        /\ shut' = shut \ G
    BY <2>1, <2>3, Zenon
  <2>5. G = UnderOrg(o, t, n)
    OBVIOUS
  <2> HIDE DEF F, G, o, n
  <2> QED
    BY <1>2, <1>3, <2>4, <2>5, OrgRowKeeps
<1>7. \/ UNCHANGED <<rows, shut, item>>
      \/ SetOrgLabel(w) /\ OrgHere(q.scope)
      \/ CreateOrgMilestone(w) /\ OrgHere(q.scope) /\ <<"milestone", o, n>> \notin rows
  <2>1. CASE SetOrgLabel(w) /\ ~ OrgHere(q.scope)
    BY <2>1 DEF SetOrgLabel
  <2>2. CASE CreateOrgMilestone(w) /\ ~ (OrgHere(q.scope) /\ <<"milestone", o, n>> \notin rows)
    BY <2>2 DEF CreateOrgMilestone
  <2> QED
    BY <2>1, <2>2
<1> QED
  BY <1>4, <1>5, <1>6, <1>7

-----------------------------------------------------------------------------
(* Tracker: the commands on the repositories *)

LEMMA OtherWorks == OtherWorker \in Workers
BY TrackerAssumption DEF OtherWorker

\* A command on the access rows that has been asked for is the last.
LEMMA AskedOnce ==
    ASSUME TrackerInv, NEW w \in Workers, asked[w] # Unset
    PROVE  accessOps = MaxAccessOps
BY AccessAssumption DEF TrackerInv, AccessOnce

\* What every one of them leaves in order.
LEMMA MeanwhileRests ==
    ASSUME TrackerInv, NEW w \in Workers, AccessStep(w), accessOps' = MaxAccessOps,
           UNCHANGED <<watch, inbox, refs, acted, job, stale, trackOps>>,
           item' \in [ItemIds -> Item], ItemsStay, strayed' \subseteq RepoIds,
           \A r \in RepoIds : repo'[r].owner \in Users \cup OrgIds,
           RowsHold', NoTwoOfEach', RowsInScope'
    PROVE  TrackerInv'
<1>1. AccessInv'
  BY AccessInvStays DEF TrackerInv, AccessNext
<1>2. AccessOnce'
  BY AccessAssumption DEF AccessOnce
<1>3. TrackShape'
  BY DEF TrackerInv, TrackShape
<1>4. JobsKnown'
  <2>1. ASSUME NEW v \in TrackWorkers, job[v] # Unset
        PROVE  JobFits(job[v]) /\ JobStands(job[v], item', repo', accessOps')
    <3>1. JobFits(job[v]) /\ JobStands(job[v], item, repo, accessOps)
      BY <2>1 DEF TrackerInv, JobsKnown
    <3>2. JobStands(job[v], item', repo', accessOps')
      BY <3>1, AccessAssumption DEF JobStands, JobFits, ItemsStay, OnItems
    <3> QED
      BY <3>1, <3>2
  <2> QED
    BY <2>1 DEF JobsKnown
<1>5. RefsHeld'
  BY DEF TrackerInv, RefsHeld
<1>6. MentionsReachReaders'
  BY DEF MentionsReachReaders
<1> QED
  BY <1>1, <1>2, <1>3, <1>4, <1>5, <1>6 DEF TrackerInv

\* Asking, visibility, the archive and a revoked grant leave owners alone.
LEMMA MeanwhileKeeps ==
    ASSUME TrackerInv, AccessMeanwhile(OtherWorker)
    PROVE  TrackerInv'
<1> DEFINE w == OtherWorker
<1>1. w \in Workers
  BY OtherWorks
<1>2. AccessStep(w) /\ UNCHANGED trackVars
  BY DEF AccessMeanwhile, AccessStep, Written, AskRepo
<1>3. accessOps' = MaxAccessOps
  <2>1. CASE MayAsk(w) /\ accessOps' = accessOps + 1
    BY <2>1, TrackerAssumption, AccessAssumption DEF MayAsk, TrackerInv, AccessOnce
  <2>2. CASE asked[w] # Unset /\ accessOps' = accessOps
    BY <1>1, <2>2, AskedOnce
  <2>3. \/ MayAsk(w) /\ accessOps' = accessOps + 1
        \/ asked[w] # Unset /\ accessOps' = accessOps
    BY DEF AccessMeanwhile, runRepoTransfer, setArchived, runSetVisibility, runAccessRevoke,
           Checked, SetRepoVisibility, archiveRepo, RevokeAccess
  <2> QED
    BY <2>1, <2>2, <2>3
<1>4. \A r \in RepoIds : repo'[r].owner = repo[r].owner
  <2>1. repo \in [RepoIds -> RepoRow]
    BY DEF TrackerInv, AccessInv, AccessShape, AccessTypeOK
  <2>2. CASE UNCHANGED repo
    BY <2>2
  <2>3. CASE SetRepoVisibility(w) \/ archiveRepo(w)
    <3>1. asked[w] # Unset /\ asked[w].op \in {"visibility", "archive"}
      BY <2>3 DEF SetRepoVisibility, archiveRepo
    <3>2. asked[w].repo \in RepoIds
      BY <1>1, <3>1 DEF TrackerInv, AccessInv, RequestsKnown, RequestFits
    <3>3. PICK r \in RepoIds : r = asked[w].repo
      BY <3>2
    <3> DEFINE on == asked[w].role = "on"
    <3>4. \/ repo' = [repo EXCEPT ![r].public = on]
          \/ repo' = [repo EXCEPT ![r].archived = on]
      BY <2>3, <3>3 DEF SetRepoVisibility, archiveRepo
    <3> HIDE DEF on
    <3> QED
      BY <2>1, <3>4 DEF RepoRow
  <2> QED
    BY <2>2, <2>3
       DEF AccessMeanwhile, runRepoTransfer, setArchived, runSetVisibility, runAccessRevoke,
           Checked, RevokeAccess
<1>5. UNCHANGED <<rows, shut, item, watch, inbox, refs, acted, job, stale, strayed, trackOps>>
  BY <1>2 DEF trackVars
<1>6. \A r \in RepoIds : repo'[r].owner \in Users \cup OrgIds
  BY <1>4 DEF TrackerInv, AccessOnce
<1>7. item' \in [ItemIds -> Item] /\ ItemsStay /\ strayed' \subseteq RepoIds
  BY <1>5 DEF TrackerInv, TrackShape, ItemsStay
<1>8. RowsHold'
  BY <1>5 DEF TrackerInv, RowsHold
<1>9. NoTwoOfEach'
  BY <1>4, <1>5 DEF TrackerInv, NoTwoOfEach
<1>10. RowsInScope'
  <2>1. \A i \in ItemIds : item[i].repo \in RepoIds
    BY DEF TrackerInv, TrackShape, Item
  <2> QED
    BY <1>4, <1>5, <2>1 DEF TrackerInv, RowsInScope
<1> HIDE DEF w
<1> QED
  BY <1>1, <1>2, <1>3, <1>5, <1>6, <1>7, <1>8, <1>9, <1>10, MeanwhileRests

\* The new owner's rows take the place of the repository's of their names.
LEMMA TransferKeeps ==
    ASSUME TrackerInv, TransferFolds(OtherWorker)
    PROVE  TrackerInv'
<1> DEFINE w == OtherWorker
           q == asked[w]
           s == q.repo
           o == q.who
           F == IF o \in OrgIds THEN Shared(s, o) ELSE {}
<1>1. w \in Workers
  BY OtherWorks
<1>2. /\ q # Unset /\ q.op = "transfer"
      /\ repo' = [repo EXCEPT ![s].owner = o]
      /\ UNCHANGED accessOps
      /\ rows' = rows \ F /\ shut' = shut \ F /\ item' = Folded(F, o)
      /\ strayed' = IF repo[s].owner \in OrgIds THEN strayed \cup {s} ELSE strayed
      /\ UNCHANGED <<watch, inbox, refs, acted, job, stale, trackOps>>
  BY Zenon DEF TransferFolds, TransferRepo
<1>3. AccessStep(w)
  BY DEF TransferFolds, AccessStep, Written
<1>4. s \in RepoIds /\ o \in Users \cup OrgIds
  BY <1>1, <1>2 DEF TrackerInv, AccessInv, RequestsKnown, RequestFits
<1>5. accessOps' = MaxAccessOps
  BY <1>1, <1>2, AskedOnce
<1>6. repo'[s].owner = o /\ \A r \in RepoIds : r # s => repo'[r].owner = repo[r].owner
  BY <1>2, <1>4 DEF TrackerInv, AccessInv, AccessShape, AccessTypeOK, RepoRow
<1>7. /\ F \subseteq rows
      /\ \A x \in F : x[2] = s /\ o \in OrgIds /\ <<x[1], o, x[3]>> \in rows
  BY DEF Shared
<1>8. rows \subseteq TrackRow /\ \A x \in rows : x[2] \in Scopes
  BY DEF TrackerInv, RowsHold, TrackRow
<1>9. \A x \in F : <<x[1], o, x[3]>> \in rows'
  <2> SUFFICES ASSUME NEW x \in F
               PROVE  <<x[1], o, x[3]>> \notin F
    BY <1>2, <1>7
  <2>1. <<x[1], o, x[3]>>[2] = o /\ o # s
    BY <1>4, <1>7, TrackerAssumption
  <2> QED
    BY <1>7, <2>1
<1>10. rows \ F \subseteq rows' /\ rows' \subseteq TrackRow
  BY <1>2, <1>8
<1>11. FoldedOnto(F, o) /\ item' \in [ItemIds -> Item] /\ ItemsStay /\ RowsHold'
  <2> HIDE DEF F, o, s, q
  <2> QED
    BY <1>2, <1>7, <1>9, <1>10, FoldKeeps
<1>12. \A r \in RepoIds : /\ repo[r].owner \in Users \cup OrgIds
                          /\ repo'[r].owner \in Users \cup OrgIds
  BY <1>4, <1>6 DEF TrackerInv, AccessOnce
<1>13. strayed' \subseteq RepoIds /\ strayed \subseteq strayed'
  BY <1>2, <1>4 DEF TrackerInv, TrackShape
<1>14. NoTwoOfEach'
  <2>1. ASSUME NEW r \in RepoIds, NEW t \in {"label", "milestone"}, NEW n \in TrackNames,
               <<t, r, n>> \in rows', <<t, repo'[r].owner, n>> \in rows'
        PROVE  r \in stale
    <3>1. CASE r # s
      BY <1>2, <1>6, <2>1, <3>1 DEF TrackerInv, NoTwoOfEach
    <3>2. CASE r = s
      <4>1. <<t, o, n>> \in rows /\ <<t, s, n>> \in rows /\ <<t, s, n>> \notin F
        BY <1>2, <1>6, <2>1, <3>2
      <4>2. o \in OrgIds
        <5>1. <<t, o, n>>[2] \in Scopes
          BY <1>8, <4>1
        <5> QED
          BY <1>4, <5>1, AccessAssumption, TrackerAssumption DEF Scopes
      <4>3. <<t, s, n>> \in F
        BY <4>1, <4>2 DEF Shared
      <4> QED
        BY <4>1, <4>3
    <3> QED
      BY <3>1, <3>2
  <2> QED
    BY <1>2, <2>1 DEF NoTwoOfEach
<1>15. RowsInScope'
  <2>1. ASSUME NEW i \in ItemIds, item[i].repo \notin stale \cup strayed',
               NEW x \in item'[i].labels \cup ({item'[i].milestone} \ {Unset})
        PROVE  x[2] \in {item[i].repo, repo'[item[i].repo].owner}
    <3>1. \A y \in Carried(i) : y[2] \in {item[i].repo, repo[item[i].repo].owner}
      BY <1>13, <2>1 DEF TrackerInv, RowsInScope, Carried
    <3>2. item[i].repo \in RepoIds
      BY DEF TrackerInv, TrackShape, Item
    <3>3. \A y \in Carried(i) : y[2] \in Scopes
      BY <1>8 DEF TrackerInv, RowsHold, Carried
    <3>4. CASE item[i].repo # s
      <4>1. repo'[item[i].repo].owner = repo[item[i].repo].owner
        BY <1>6, <3>2, <3>4
      <4>2. \A y \in Carried(i) : y[2] # s
        BY <1>4, <1>12, <3>1, <3>2, <3>4, TrackerAssumption
      <4>3. x \in Carried(i)
        BY <1>7, <1>11, <2>1, <4>2 DEF FoldedOnto
      <4> QED
        BY <3>1, <4>1, <4>3
    <3>5. CASE item[i].repo = s
      <4>1. repo[s].owner \in Users
        BY <1>2, <1>12, <2>1, <3>2, <3>5
      <4>2. \A y \in Carried(i) : y[2] = s
        BY <3>1, <3>3, <3>5, <4>1, AccessAssumption, TrackerAssumption DEF Scopes
      <4>3. x[2] = s \/ x[2] = o
        <5>1. CASE x \in Carried(i)
          BY <4>2, <5>1
        <5>2. CASE \E y \in F : y \in Carried(i) /\ x = <<y[1], o, y[3]>>
          BY <5>2
        <5> QED
          BY <1>11, <2>1, <5>1, <5>2 DEF FoldedOnto
      <4> QED
        BY <1>6, <3>5, <4>3
    <3> QED
      BY <3>4, <3>5
  <2>2. \A i \in ItemIds : item'[i].repo = item[i].repo
    BY <1>11 DEF FoldedOnto
  <2>3. UNCHANGED stale
    BY <1>2
  <2> HIDE DEF q, s, o, F, w
  <2> QED
    BY <2>1, <2>2, <2>3 DEF RowsInScope
<1> HIDE DEF w
<1> QED
  BY <1>1, <1>2, <1>3, <1>5, <1>11, <1>12, <1>13, <1>14, <1>15, MeanwhileRests

-----------------------------------------------------------------------------
(* Tracker: the theorems *)

LEMMA WritesKeep ==
    ASSUME TrackerInv, NEW w \in TrackWorkers, job[w] # Unset,
           Writes(w) \/ Interrupted(w)
    PROVE  TrackerInv'
<1>1. UNCHANGED accessVars
  BY DEF Writes, Interrupted
<1> QED
  BY <1>1, CreateItemKeeps, LabelKeeps, UnlabelKeeps, SkipKeeps, MilestoneKeeps, AssignKeeps,
     TextKeeps, CommentKeeps, OwnRowKeeps, DeleteKeeps, ShutKeeps, OrgWritesKeep, WatchKeeps,
     RecordRefKeeps, ActKeeps, Zenon DEF Writes

LEMMA TrackerInvStays ==
    TrackerInv /\ [TrackerNext]_<<accessVars, trackVars>> => TrackerInv'
<1> SUFFICES ASSUME TrackerInv, [TrackerNext]_<<accessVars, trackVars>>
             PROVE  TrackerInv'
  OBVIOUS
<1>1. CASE UNCHANGED <<accessVars, trackVars>>
  <2>1. /\ UNCHANGED accessVars /\ UNCHANGED <<repo, accessOps>>
        /\ UNCHANGED <<rows, shut, item, watch, inbox, refs, acted, job, stale, strayed,
                       trackOps>>
    BY <1>1 DEF accessVars, trackVars
  <2>2. TrackShape' /\ RowsHold' /\ RefsHeld'
    BY <2>1 DEF TrackerInv, TrackShape, RowsHold, RefsHeld
  <2>3. NoTwoOfEach' /\ RowsInScope' /\ MentionsReachReaders'
    BY <2>1 DEF TrackerInv, NoTwoOfEach, RowsInScope, MentionsReachReaders
  <2>4. JobsKnown'
    BY <2>1 DEF TrackerInv, JobsKnown
  <2> QED
    BY <2>1, <2>2, <2>3, <2>4, AccessRest DEF TrackerInv
<1>2. CASE TrackerNext
  <2>1. ASSUME NEW w \in TrackWorkers,
               Waiting(w) /\ (AskIssue(w) \/ AskMR(w) \/ AskRows(w))
        PROVE  TrackerInv'
    BY <2>1, AskTracked
  <2>2. ASSUME NEW w \in TrackWorkers, job[w] # Unset /\ (Writes(w) \/ Interrupted(w))
        PROVE  TrackerInv'
    BY <2>2, WritesKeep
  <2> QED
    BY <1>2, <2>1, <2>2, MeanwhileKeeps, TransferKeeps DEF TrackerNext
<1> QED
  BY <1>1, <1>2

\* The invariants of the tracker follow from the inductive one.
LEMMA TrackerInvImplies == TrackerInv => TrackTypeOK /\ ItemsInOrder
<1> SUFFICES ASSUME TrackerInv
             PROVE  TrackTypeOK /\ ItemsInOrder
  OBVIOUS
<1>1. TrackTypeOK
  <2>1. \A w \in TrackWorkers : job[w] = Unset \/ job[w] \in Job
    BY DEF TrackerInv, TrackShape
  <2> QED
    BY <2>1 DEF TrackTypeOK, TrackerInv, TrackShape, RowsHold
<1>2. RefActsOnce
  BY DEF RefActsOnce, TrackerInv, TrackShape, RefsHeld
<1> QED
  BY <1>1, <1>2 DEF ItemsInOrder, TrackerInv

\* Items, rows, marks of watchers, notices, references and commands under way
\* keep their shape, and an item carries only rows that are there (the tables
\* of store/issues.go, labels.go, milestones.go and inbox.go).
THEOREM TrackerTypeCorrect == TrackerSpec => []TrackTypeOK
<1> QED
  BY TrackerInvStarts, TrackerInvStays, TrackerInvImplies, PTL DEF TrackerSpec

\* Labels, milestones, notices and commit references stay in order while
\* repositories move between owners, for any number of repositories, threads
\* and commands under way: no repository sees two rows of one name, an item
\* carries only rows its repository sees, a mention reaches those who can
\* read, and a commit acts once, but for what the invariant excepts
\* (store/labels.go, milestones.go, repos.go, control/commitrefs.go).
THEOREM ItemsStayInOrder == TrackerSpec => []ItemsInOrder
<1> QED
  BY TrackerInvStarts, TrackerInvStays, TrackerInvImplies, PTL DEF TrackerSpec

\* An item but for what it carries.
Bare(x) == [x EXCEPT !.labels = {}, !.milestone = Unset]

LEMMA BareLabels ==
    ASSUME NEW x \in Item, NEW L, NEW y, y = [x EXCEPT !.labels = L]
    PROVE  Bare(y) = Bare(x)
BY DEF Bare, Item

OnThreads == OnItems \cup Refers \cup {"create"}

\* A command that works on a thread goes on with every write.
LEMMA ThreadWriteMoves ==
    ASSUME TrackerInv, NEW w \in TrackWorkers, job[w] # Unset, Writes(w),
           job[w].op \in OnThreads
    PROVE  job'[w] # job[w] /\ ~ job[w].saw.archived
<1> DEFINE q == job[w]
<1>1. /\ q \in Job /\ job \in [TrackWorkers -> Job \cup {Unset}] /\ ~ q.saw.archived
  BY JobNow DEF JobFits, OnThreads, TrackerInv, TrackShape
<1>2. ASSUME NEW at, Onward(w, at), q.at # at
      PROVE  job'[w] # q
  <2>1. job'[w] = [q EXCEPT !.at = at]
    BY <1>1, <1>2 DEF Onward
  <2> QED
    BY <1>1, <1>2, <2>1 DEF Job
<1>3. CASE Finishes(w)
  BY <1>1, <1>3 DEF Finishes
<1>4. CASE ~ Finishes(w)
  <2>1. \E at : Onward(w, at) /\ q.at # at
    <3>1. CASE CreateItem(w)
      BY <1>4, <3>1 DEF CreateItem
    <3>2. CASE setItemLabel(w)
      BY <1>4, <3>2 DEF setItemLabel
    <3>3. CASE SkipStep(w)
      BY <1>4, <3>3 DEF SkipStep
    <3>4. CASE recordItemMilestone(w)
      BY <1>4, <3>4 DEF recordItemMilestone
    <3>5. CASE TryRecordCommitRef(w)
      BY <1>4, <3>5 DEF TryRecordCommitRef
    <3>6. removeItemLabel(w) \/ setItemUser(w) \/ removeItemUser(w) => Finishes(w)
      BY Zenon DEF removeItemLabel, setItemUser, removeItemUser
    <3>7. SetIssueState(w) \/ updateText(w) \/ AddComment(w) => Finishes(w)
      BY Zenon DEF SetIssueState, updateText, AddComment
    <3>8. SetReaction(w) \/ SetLabel(w) \/ CreateMilestone(w) => Finishes(w)
      BY Zenon DEF SetReaction, SetLabel, CreateMilestone
    <3>9. DeleteLabel(w) \/ SetMilestoneState(w) \/ SetOrgLabel(w) => Finishes(w)
      BY Zenon DEF DeleteLabel, SetMilestoneState, SetOrgLabel
    <3>10. CreateOrgMilestone(w) \/ SetRepoWatch(w) \/ actOnIssue(w) => Finishes(w)
      BY Zenon DEF CreateOrgMilestone, SetRepoWatch, actOnIssue
    <3> QED
      BY <1>4, <3>1, <3>2, <3>3, <3>4, <3>5, <3>6, <3>7, <3>8, <3>9, <3>10 DEF Writes
  <2>2. PICK at : Onward(w, at) /\ q.at # at
    BY <2>1
  <2>3. job'[w] # q
    BY <1>2, <2>2
  <2> QED
    BY <1>1, <2>3
<1> QED
  BY <1>1, <1>3, <1>4

\* Deleting and folding rows changes only what items carry.
LEMMA RowWriteBare ==
    ASSUME TrackerInv, NEW i \in ItemIds,
           \/ UNCHANGED item
           \/ \E x : item' = Without(x)
           \/ \E F, o : item' = Folded(F, o)
    PROVE  Bare(item'[i]) = Bare(item[i])
<1>1. item[i] \in Item
  BY DEF TrackerInv, TrackShape
<1>2. CASE \E x : item' = Without(x)
  <2>1. PICK x : item' = Without(x)
    BY <1>2
  <2> DEFINE L == item[i].labels \ {x}
  <2>2. item'[i] = [item[i] EXCEPT !.labels = L]
    BY <2>1 DEF Without
  <2> HIDE DEF L
  <2> QED
    BY <1>1, <2>2, BareLabels
<1>3. CASE \E F, o : item' = Folded(F, o)
  <2>1. PICK F, o : item' = Folded(F, o)
    BY <1>3
  <2> DEFINE L == {Onto(F, o, x) : x \in item[i].labels}
             m == IF item[i].milestone = Unset THEN item[i].milestone
                  ELSE Onto(F, o, item[i].milestone)
  <2>2. item'[i] = FoldedItem(item[i], F, o)
    BY <2>1 DEF Folded
  <2>3. FoldedItem(item[i], F, o) = [item[i] EXCEPT !.labels = L, !.milestone = m]
    BY Zenon DEF FoldedItem
  <2>4. item'[i] = [item[i] EXCEPT !.labels = L, !.milestone = m]
    BY <2>2, <2>3
  <2> HIDE DEF L, m
  <2>5. Bare([item[i] EXCEPT !.labels = L, !.milestone = m]) = Bare(item[i])
    BY <1>1 DEF Bare, Item
  <2> QED
    BY <2>4, <2>5, Zenon
<1> QED
  BY <1>2, <1>3

LEMMA ArchivedStep ==
    ASSUME TrackerInv, TrackerNext, NEW i \in ItemIds, Bare(item[i]) # Bare(item'[i])
    PROVE  \E w \in TrackWorkers :
             /\ job[w] # Unset /\ job'[w] # job[w]
             /\ ~ job[w].saw.archived
<1>1. PICK w \in TrackWorkers : job[w] # Unset /\ Writes(w)
  <2>1. ASSUME NEW w \in TrackWorkers,
               Waiting(w) /\ (AskIssue(w) \/ AskMR(w) \/ AskRows(w))
        PROVE  UNCHANGED item
    <3>1. runIssueCreate(w) \/ setIssueState(w) \/ runIssueEdit(w)
            => UNCHANGED item
      <4>1. ASSUME NEW q, Taken(w, q)
            PROVE  UNCHANGED item
        BY <4>1 DEF Taken
      <4>2. runIssueCreate(w) => \E q : Taken(w, q)
        BY Zenon DEF runIssueCreate
      <4> QED
        BY <4>1, <4>2 DEF Taken, setIssueState, runIssueEdit
    <3>2. runIssueLabel(w) \/ runIssueAssign(w) \/ setItemMilestone(w)
            => UNCHANGED item
      BY DEF Taken, runIssueLabel, runIssueAssign, setItemMilestone
    <3>3. runComment(w) \/ runReact(w) \/ ProcessCommitMessages(w)
            => UNCHANGED item
      BY DEF Taken, runComment, runReact, ProcessCommitMessages
    <3>4. ProcessMRDescription(w) \/ runMRCreate(w) \/ runMREdit(w)
            => UNCHANGED item
      BY DEF Taken, ProcessMRDescription, runMRCreate, runMREdit
    <3>5. runMRLabel(w) \/ runMRReviewRequest(w) \/ runLabelSet(w)
            => UNCHANGED item
      BY DEF Taken, runMRLabel, runMRReviewRequest, runLabelSet
    <3>6. runLabelRemove(w) \/ runMilestoneCreate(w) \/ setMilestoneState(w)
            => UNCHANGED item
      BY DEF Taken, runLabelRemove, runMilestoneCreate, setMilestoneState
    <3>7. runOrgLabelSet(w) \/ runOrgLabelRemove(w) \/ runOrgMilestoneCreate(w)
            => UNCHANGED item
      BY DEF Taken, runOrgLabelSet, runOrgLabelRemove, runOrgMilestoneCreate
    <3>8. setOrgMilestoneState(w) \/ setWatch(w)
            => UNCHANGED item
      BY DEF Taken, setOrgMilestoneState, setWatch
    <3> QED
      BY <2>1, <3>1, <3>2, <3>3, <3>4, <3>5, <3>6, <3>7, <3>8 DEF AskIssue, AskMR, AskRows
  <2>2. ASSUME NEW w \in TrackWorkers, Interrupted(w)
        PROVE  UNCHANGED item
    BY <2>2 DEF Interrupted
  <2>3. AccessMeanwhile(OtherWorker) => UNCHANGED item
    BY DEF AccessMeanwhile, trackVars
  <2>4. TransferFolds(OtherWorker) => \E F, o : item' = Folded(F, o)
    BY Zenon DEF TransferFolds
  <2> QED
    BY <2>1, <2>2, <2>3, <2>4, RowWriteBare DEF TrackerNext
<1>2. job[w].op \in OnThreads
  <2> SUFFICES ASSUME job[w].op \notin OnThreads
               PROVE  FALSE
    OBVIOUS
  <2>1. job[w].op \notin {"create", "label", "unlabel", "milestone", "assign", "unassign",
                          "state", "edit", "comment", "react", "ref", "mrref"}
    BY DEF OnThreads, OnItems, Refers
  <2>2. \/ SetLabel(w) \/ CreateMilestone(w) \/ DeleteLabel(w) \/ SetMilestoneState(w)
        \/ SetOrgLabel(w) \/ CreateOrgMilestone(w) \/ SetRepoWatch(w)
    BY <1>1, <2>1 DEF Writes, CreateItem, setItemLabel, removeItemLabel, SkipStep,
       recordItemMilestone, setItemUser, removeItemUser, SetIssueState, updateText,
       AddComment, SetReaction, TryRecordCommitRef, actOnIssue, Working
  <2>3. \/ UNCHANGED item
        \/ \E x : item' = Without(x)
        \/ \E F, o : item' = Folded(F, o)
    <3>1. CASE DeleteLabel(w)
      BY <3>1, Zenon DEF DeleteLabel
    <3>2. CASE SetOrgLabel(w)
      BY <3>2, Zenon DEF SetOrgLabel
    <3>3. CASE CreateOrgMilestone(w)
      BY <3>3, Zenon DEF CreateOrgMilestone
    <3>4. CASE SetLabel(w) \/ CreateMilestone(w) \/ SetMilestoneState(w) \/ SetRepoWatch(w)
      BY <3>4 DEF SetLabel, CreateMilestone, SetMilestoneState, SetRepoWatch
    <3> QED
      BY <2>2, <3>1, <3>2, <3>3, <3>4
  <2> QED
    BY <2>3, RowWriteBare
<1> QED
  BY <1>1, <1>2, ThreadWriteMoves

\* An archived repository's threads stay as they are: what writes to one is a
\* command that read the repository before it was archived (refuseArchived in
\* the handlers of control/issue.go, mr.go, thread.go and react.go), but for
\* rows that are deleted or folded.
THEOREM ArchivedThreadsStay == TrackerSpec => ArchivedStays
<1>1. ASSUME TrackerInv, [TrackerNext]_<<accessVars, trackVars>>
      PROVE  [\A i \in ItemIds :
                LET bare(x) == [x EXCEPT !.labels = {}, !.milestone = Unset]
                IN  /\ repo[item[i].repo].archived
                    /\ bare(item[i]) # bare(item'[i])
                    => \E w \in TrackWorkers :
                         /\ job[w] # Unset /\ job'[w] # job[w]
                         /\ ~ job[w].saw.archived]_<<accessVars, trackVars>>
  <2>1. TrackerNext => \A i \in ItemIds : Bare(item[i]) # Bare(item'[i])
                         => \E w \in TrackWorkers :
                              /\ job[w] # Unset /\ job'[w] # job[w]
                              /\ ~ job[w].saw.archived
    BY <1>1, ArchivedStep
  <2> QED
    BY <1>1, <2>1 DEF Bare
<1> QED
  BY <1>1, TrackerInvStarts, TrackerInvStays, PTL DEF TrackerSpec, ArchivedStays
=============================================================================
