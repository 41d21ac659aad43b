---------------------------- MODULE MailReplies ----------------------------
(***************************************************************************)
(* Replies by mail (internal/mailin, store/mailreply.go): the poller       *)
(* reads a mailbox, checks each unseen message, claims it and its DKIM     *)
(* signatures, posts it as a comment and marks it seen.                    *)
(*                                                                         *)
(* A message is its uid and the keys it is claimed under: its Message-ID   *)
(* and its signatures, for the account and thread its token names. Two     *)
(* messages that share a key are copies. What a check decides is left      *)
(* open, because the account and its settings change meanwhile.            *)
(***************************************************************************)
EXTENDS Integers, Sequences, FiniteSets

CONSTANTS
    Uids,          \* messages that may arrive
    Keys,          \* claim keys
    ClaimKeys,     \* message -> the sequence of its keys
    MaxTries,      \* failures before a message is given up on (5 in the code)
    MaxPollFaults  \* bound: failed polls and restarts

ASSUME ReplyAssumption ==
    /\ Uids \subseteq Nat
    /\ ClaimKeys \in [Uids -> Seq(Keys) \ {<<>>}]
    /\ MaxTries \in Nat \ {0} /\ MaxPollFaults \in Nat

VARIABLES
    unseen,   \* messages in the mailbox that are not marked seen
    arrived,  \* messages that have arrived
    expired,  \* messages whose token is too old
    tries,    \* the processor's count of failures, in memory
    claims,   \* rows of mail_replies
    poller,   \* the poll under way
    posts,    \* history: key -> comments posted under it
    excused,  \* history: messages refused, given up on, or cut by a restart
    pollFaults \* counter for the bound

replyVars == <<unseen, arrived, expired, tries, claims, poller, posts,
               excused, pollFaults>>

\* list: the uids still to handle; at: the step for the first of them; n: how
\* many of its keys are claimed.
Poller == [list: SUBSET Uids, n: Nat,
           at: {"idle", "next", "claim", "post", "posted", "unclaim",
                "release", "refused", "failed"}]
IdlePoller == [list |-> {}, n |-> 0, at |-> "idle"]

ReplyTypeOK ==
    /\ arrived \subseteq Uids /\ unseen \subseteq arrived
    /\ expired \subseteq Uids /\ excused \subseteq Uids
    /\ tries \in [Uids -> 0..MaxTries]
    /\ claims \subseteq Keys
    /\ poller \in Poller
    /\ posts \in [Keys -> Nat]
    /\ pollFaults \in 0..MaxPollFaults

ReplyInit ==
    /\ unseen = {} /\ arrived = {} /\ expired = {} /\ excused = {}
    /\ tries = [u \in Uids |-> 0]
    /\ claims = {}
    /\ poller = IdlePoller
    /\ posts = [k \in Keys |-> 0]
    /\ pollFaults = 0

-----------------------------------------------------------------------------
(* The mailbox *)

Arrives(u) ==
    /\ u \notin arrived
    /\ arrived' = arrived \cup {u}
    /\ unseen' = unseen \cup {u}
    /\ UNCHANGED <<expired, tries, claims, poller, posts, excused, pollFaults>>

\* Copies carry one token and expire together. (A poll lasts ten minutes at
\* most and a claim is kept a day longer than a token, so an expiry during a
\* poll is one after it.)
TokenExpires(k) ==
    LET S == {u \in Uids : \E i \in DOMAIN ClaimKeys[u] : ClaimKeys[u][i] = k}
    IN  /\ ~(S \subseteq expired)
        /\ poller.at = "idle"
        /\ expired' = expired \cup S
        /\ UNCHANGED <<unseen, arrived, tries, claims, poller, posts, excused,
                       pollFaults>>

-----------------------------------------------------------------------------
(* A poll *)

Uid == CHOOSE u \in poller.list : \A v \in poller.list : u <= v
Key(i) == ClaimKeys[Uid][i]

At(step) == poller' = [poller EXCEPT !.at = step]

\* Unseen.
ListUnseen ==
    /\ poller.at = "idle"
    /\ unseen # {}
    /\ poller' = [IdlePoller EXCEPT !.list = unseen, !.at = "next"]
    /\ UNCHANGED <<unseen, arrived, expired, tries, claims, posts, excused,
                   pollFaults>>

\* Handle, up to its first claim: fetched and checked, or refused, or a
\* failure that may pass.
CheckMessage ==
    /\ poller.at = "next"
    /\ poller.list # {}
    /\ \/ /\ tries[Uid] < MaxTries /\ Uid \notin expired
          /\ At("claim")
          /\ UNCHANGED excused
       \/ /\ tries[Uid] < MaxTries
          /\ At("failed")
          /\ UNCHANGED excused
       \/ /\ At("refused")
          /\ excused' = excused \cup {Uid}
    /\ UNCHANGED <<unseen, arrived, expired, tries, claims, posts, pollFaults>>

\* A plausible mistake: the key of the message alone is claimed.
ClaimFirst ==
    LET k == Key(1)
    IN  /\ poller.at = "claim"
        /\ IF k \notin claims
           THEN /\ claims' = claims \cup {k}
                /\ poller' = [poller EXCEPT !.n = 1, !.at = "post"]
           ELSE At("unclaim") /\ UNCHANGED claims
    /\ UNCHANGED <<unseen, arrived, expired, tries, posts, excused, pollFaults>>

\* ClaimMailReply: the key is inserted unless it is there. A key that is
\* taken, or a failure, gives the earlier ones back.
Claim ==
    LET k == Key(poller.n + 1)
    IN  /\ poller.at = "claim"
        /\ \/ /\ k \notin claims
              /\ claims' = claims \cup {k}
              /\ poller' = [poller EXCEPT !.n = @ + 1,
                              !.at = IF poller.n + 1 = Len(ClaimKeys[Uid])
                                     THEN "post" ELSE "claim"]
           \/ k \in claims /\ At("unclaim") /\ UNCHANGED claims
           \/ At("release") /\ UNCHANGED claims
    /\ UNCHANGED <<unseen, arrived, expired, tries, posts, excused, pollFaults>>

\* The comment command, run as the account: posted, refused (no access any
\* more, archived, gone) or failed.
PostComment ==
    /\ poller.at = "post"
    /\ \/ /\ At("posted")
          /\ posts' = [k \in Keys |->
                         IF \E i \in DOMAIN ClaimKeys[Uid] : Key(i) = k
                         THEN posts[k] + 1 ELSE posts[k]]
          /\ UNCHANGED excused
       \/ /\ At("unclaim")
          /\ excused' = excused \cup {Uid}
          /\ UNCHANGED posts
       \/ /\ At("release")
          /\ UNCHANGED <<posts, excused>>
    /\ UNCHANGED <<unseen, arrived, expired, tries, claims, pollFaults>>

\* A plausible mistake: the claims stay.
ReleaseNoClaims ==
    /\ poller.at \in {"unclaim", "release"}
    /\ At(IF poller.at = "unclaim" THEN "refused" ELSE "failed")
    /\ UNCHANGED <<unseen, arrived, expired, tries, claims, posts, excused,
                   pollFaults>>

\* ReleaseMailReply for each key claimed: the message was refused ("unclaim")
\* or may be tried again ("release").
ReleaseClaims ==
    /\ poller.at \in {"unclaim", "release"}
    /\ IF poller.n > 0
       THEN /\ claims' = claims \ {Key(poller.n)}
            /\ poller' = [poller EXCEPT !.n = @ - 1]
       ELSE /\ At(IF poller.at = "unclaim" THEN "refused" ELSE "failed")
            /\ UNCHANGED claims
    /\ UNCHANGED <<unseen, arrived, expired, tries, posts, excused, pollFaults>>

\* On to the next message of the list, or the end of the poll.
NextMessage ==
    poller' = IF poller.list = {Uid} THEN IdlePoller
              ELSE [list |-> poller.list \ {Uid}, n |-> 0, at |-> "next"]

\* A plausible mistake: failures are not counted.
FailedForever ==
    /\ poller.at = "failed"
    /\ NextMessage
    /\ UNCHANGED <<unseen, arrived, expired, tries, claims, posts, excused,
                   pollFaults>>

\* A failure counts a try; the last one gives the message up.
Failed ==
    /\ poller.at = "failed"
    /\ IF tries[Uid] + 1 < MaxTries
       THEN /\ tries' = [tries EXCEPT ![Uid] = @ + 1]
            /\ NextMessage
            /\ UNCHANGED excused
       ELSE /\ At("refused")
            /\ excused' = excused \cup {Uid}
            /\ UNCHANGED tries
    /\ UNCHANGED <<unseen, arrived, expired, claims, posts, pollFaults>>

MarkSeen ==
    /\ poller.at \in {"posted", "refused"}
    /\ unseen' = unseen \ {Uid}
    /\ tries' = [tries EXCEPT ![Uid] = 0]
    /\ NextMessage
    /\ UNCHANGED <<arrived, expired, claims, posts, excused, pollFaults>>

\* The connection fails at a fetch or while marking: the poll ends.
PollFails ==
    /\ pollFaults < MaxPollFaults
    /\ poller.at \in {"next", "posted", "refused"}
    /\ pollFaults' = pollFaults + 1
    /\ poller' = IdlePoller
    /\ UNCHANGED <<unseen, arrived, expired, tries, claims, posts, excused>>

\* A restart forgets the poll and the tries; a message cut between its claim
\* and its comment finds its own claim in its way.
ReplyRestart ==
    /\ pollFaults < MaxPollFaults
    /\ pollFaults' = pollFaults + 1
    /\ poller' = IdlePoller
    /\ tries' = [u \in Uids |-> 0]
    /\ excused' = IF poller.n > 0 /\ poller.at # "posted"
                  THEN excused \cup {u \in Uids :
                         \E i \in DOMAIN ClaimKeys[u], j \in DOMAIN ClaimKeys[Uid] :
                             ClaimKeys[u][i] = Key(j)}
                  ELSE excused
    /\ UNCHANGED <<unseen, arrived, expired, claims, posts>>

\* PruneMailReplies after a poll: claims older than any token still valid.
PruneClaims ==
    /\ poller.at = "idle"
    /\ LET old == {k \in claims : \A u \in Uids :
                     (\E i \in DOMAIN ClaimKeys[u] : ClaimKeys[u][i] = k)
                         => u \in expired}
       IN  old # {} /\ claims' = claims \ old
    /\ UNCHANGED <<unseen, arrived, expired, tries, poller, posts, excused,
                   pollFaults>>

PollStep == ListUnseen \/ CheckMessage \/ Claim \/ PostComment \/ ReleaseClaims
            \/ Failed \/ MarkSeen

ReplyNext ==
    \/ \E u \in Uids : Arrives(u)
    \/ \E k \in Keys : TokenExpires(k)
    \/ PollStep \/ PollFails \/ PruneClaims \/ ReplyRestart

ReplySpec == ReplyInit /\ [][ReplyNext]_replyVars

\* The poller polls on its interval, and every call it makes has a deadline.
ReplyFairness == WF_replyVars(PollStep)

-----------------------------------------------------------------------------
(* Properties *)

\* A reply is posted once, whatever copies of it arrive under another
\* Message-ID, however its polls fail, are retried or are cut by a restart,
\* and although old claims are pruned.
PostedOnce == \A k \in Keys : posts[k] <= 1

\* A message that carries one signature twice: its second claim finds the
\* first, and the message is taken for a copy of itself.
CarriesTwice(u) ==
    \E i, j \in DOMAIN ClaimKeys[u] : i # j /\ ClaimKeys[u][i] = ClaimKeys[u][j]

\* A message is marked seen only when it, or a copy of it, was posted, or it
\* was refused, given up on, cut between its claim and its comment, or took
\* its own claim for a copy's.
NoReplyLost ==
    \A u \in arrived \ unseen :
        \/ u \in excused \/ CarriesTwice(u)
        \/ \E i \in DOMAIN ClaimKeys[u] : posts[ClaimKeys[u][i]] > 0

\* Every message is dealt with in the end, also after polls that failed.
EveryMessageIsSeen == ReplyFairness => []<>(unseen = {})

\* A reply by mail is posted once, and not given up silently (mailin.go).
RepliesPostOnce == PostedOnce /\ NoReplyLost
=============================================================================
