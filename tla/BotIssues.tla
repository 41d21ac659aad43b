----------------------------- MODULE BotIssues -----------------------------
(***************************************************************************)
(* The issue the server keeps about a repository: known-vulnerable or      *)
(* outdated dependencies (internal/deps) and code-scanning findings        *)
(* (control/security.go), both through internal/botissue. A check, or a    *)
(* runner's upload, brings a set of findings; people dismiss findings,     *)
(* reopen them, and close the issue by hand.                               *)
(*                                                                         *)
(* A process is one check or one dismissal, a database statement per step. *)
(* Issues are numbered as they are created; an issue is its state and the  *)
(* findings its text lists.                                                *)
(***************************************************************************)
EXTENDS Integers, Sequences, FiniteSets

CONSTANTS
    Findings,     \* advisories, outdated dependencies or scan findings
    Checkers,     \* processes
    MaxBotRuns,   \* bound: checks and dismissals
    MaxByHand     \* bound: closings, reopenings, disablings, restarts

ASSUME BotAssumption ==
    MaxBotRuns \in Nat /\ MaxByHand \in Nat

VARIABLES
    enabled,    \* the row of dep_checks or security_scans exists
    number,     \* the issue it records, 0 for none
    reported,   \* the saved set
    dismissed,  \* the dismissals
    issues,     \* the issues the bot opened
    checker,    \* the processes
    steady,     \* history: see IssueMatchesReport
    botRuns, byHand   \* counters for the bounds

botVars == <<enabled, number, reported, dismissed, issues, checker, steady,
             botRuns, byHand>>

-----------------------------------------------------------------------------
(* The shape of the state *)

Reads == {"number", "reported", "dismissed"}
Issue == [open: BOOLEAN, lists: SUBSET Findings]

\* at: the next statement of Maintain. reads: what is still to be read;
\* found: the set to report; num, was, out: what was read; dismissing: it is
\* a dismissal, which reports the saved set again; alone: nothing else has
\* interfered since it began.
Checker == [at: {"idle", "read", "maintain", "close", "forget", "save",
                 "saveEmpty", "update", "create", "record"},
            reads: SUBSET Reads, found: SUBSET Findings, num: Nat,
            was: SUBSET Findings, out: SUBSET Findings,
            dismissing: BOOLEAN, alone: BOOLEAN]
IdleChecker == [at |-> "idle", reads |-> {}, found |-> {}, num |-> 0,
                was |-> {}, out |-> {}, dismissing |-> FALSE, alone |-> FALSE]

BotTypeOK ==
    /\ enabled \in BOOLEAN
    /\ number \in 0..Len(issues)
    /\ reported \subseteq Findings
    /\ dismissed \subseteq Findings
    /\ issues \in Seq(Issue)
    /\ checker \in [Checkers -> Checker]
    /\ steady \in BOOLEAN
    /\ botRuns \in 0..MaxBotRuns
    /\ byHand \in 0..MaxByHand

BotInit ==
    /\ enabled = FALSE
    /\ number = 0
    /\ reported = {}
    /\ dismissed = {}
    /\ issues = <<>>
    /\ checker = [p \in Checkers |-> IdleChecker]
    /\ steady = TRUE
    /\ botRuns = 0
    /\ byHand = 0

Busy == {p \in Checkers : checker[p].at # "idle"}

\* Something comes between the steps of every process under way.
Interfere(ch) == [p \in Checkers |-> [ch[p] EXCEPT !.alone = FALSE]]

ByHand == byHand < MaxByHand /\ byHand' = byHand + 1

-----------------------------------------------------------------------------
(* Switching on and off, and what people do to the issue *)

\* repo deps enable, repo security enable.
EnableCheck ==
    /\ ~enabled
    /\ enabled' = TRUE
    /\ UNCHANGED <<number, reported, dismissed, issues, checker, steady,
                   botRuns, byHand>>

\* The row and the saved set go in one transaction; the dismissals and the
\* issue stay.
DisableCheck ==
    /\ ByHand
    /\ enabled
    /\ enabled' = FALSE
    /\ number' = 0
    /\ reported' = {}
    /\ checker' = Interfere(checker)
    /\ steady' = (Busy = {})
    /\ UNCHANGED <<dismissed, issues, botRuns>>

\* A maintainer closes the issue, or opens it again.
CloseByHand(i) ==
    /\ ByHand
    /\ i \in DOMAIN issues
    /\ issues' = [issues EXCEPT ![i].open = ~@]
    /\ checker' = Interfere(checker)
    /\ steady' = (steady /\ Busy = {} /\ issues[i].open)
    /\ UNCHANGED <<enabled, number, reported, dismissed, botRuns>>

-----------------------------------------------------------------------------
(* Checks and dismissals *)

Begins(p, c) ==
    /\ botRuns < MaxBotRuns
    /\ checker[p].at = "idle"
    /\ enabled
    /\ botRuns' = botRuns + 1
    /\ checker' = [Interfere(checker) EXCEPT ![p] = c]
    /\ steady' = (steady /\ Busy = {})

\* A check or an upload brings a set. (One that fails, or whose lookups all
\* fail, reports nothing and is only stamped.)
BeginCheck(p, S) ==
    /\ Begins(p, [IdleChecker EXCEPT !.at = "read", !.reads = Reads,
                                     !.found = S, !.alone = Busy = {}])
    /\ UNCHANGED <<enabled, number, reported, dismissed, issues, byHand>>

\* A dismissal, or its taking back, names findings of the saved set; then the
\* issue is maintained with that set.
ChangeDismissals(p, S, dismiss) ==
    /\ S # {} /\ S \subseteq reported
    /\ Begins(p, [IdleChecker EXCEPT !.at = "read",
                    !.reads = Reads \ {"reported"}, !.found = reported,
                    !.dismissing = TRUE, !.alone = Busy = {}])
    /\ dismissed' = IF dismiss THEN dismissed \cup S ELSE dismissed \ S
    /\ UNCHANGED <<enabled, number, reported, issues, byHand>>

\* The row, the saved set and the dismissals are read by separate statements,
\* in an order that differs between the callers. A check that finds its row
\* gone ends.
ReadBefore(p) ==
    LET c == checker[p]
    IN  /\ c.at = "read"
        /\ \E r \in c.reads :
             LET after == IF c.reads = {r} THEN "maintain" ELSE "read"
                 d == [c EXCEPT !.reads = @ \ {r}, !.at = after]
             IN  checker' = [checker EXCEPT ![p] =
                   CASE r = "number" ->
                          IF enabled THEN [d EXCEPT !.num = number]
                          ELSE IdleChecker
                     [] r = "reported" -> [d EXCEPT !.was = reported]
                     [] r = "dismissed" -> [d EXCEPT !.out = dismissed]]
        /\ UNCHANGED <<enabled, number, reported, dismissed, issues, steady,
                       botRuns, byHand>>

\* Whether the set differs from the last report; a dismissal always does.
Changed(c) == c.dismissing \/ c.was # c.found

\* A plausible mistake: what was dismissed is listed again.
ToListAll(c) == c.found

\* What the issue has to list.
ToList(c) == c.found \ c.out

\* openIssue: the recorded issue, unless it is closed.
HasIssue(c) == c.num # 0 /\ issues[c.num].open

\* The process ends. It leaves the issue in line if nothing interfered and
\* either it was in line before or the report was written anew.
Ends(p, written) ==
    /\ checker' = [checker EXCEPT ![p] = IdleChecker]
    /\ steady' = IF checker[p].alone THEN steady \/ written ELSE FALSE

\* Maintain looks the issue up and decides what to do.
Maintain(p) ==
    LET c == checker[p]
        go(step) == /\ checker' = [checker EXCEPT ![p].at = step,
                                     ![p].num = IF HasIssue(c) THEN @ ELSE 0]
                    /\ steady' = steady
    IN  /\ c.at = "maintain"
        /\ \/ ToList(c) = {} /\ HasIssue(c) /\ go("close")
           \/ ToList(c) = {} /\ ~HasIssue(c) /\ Changed(c) /\ go("saveEmpty")
           \/ ToList(c) = {} /\ ~HasIssue(c) /\ ~Changed(c) /\ Ends(p, FALSE)
           \/ ToList(c) # {} /\ Changed(c) /\ go("save")
           \/ ToList(c) # {} /\ ~Changed(c) /\ Ends(p, FALSE)
        /\ UNCHANGED <<enabled, number, reported, dismissed, issues, botRuns,
                       byHand>>

CloseIssue(p) ==
    /\ checker[p].at = "close"
    /\ issues' = [issues EXCEPT ![checker[p].num].open = FALSE]
    /\ checker' = [checker EXCEPT ![p].at = "forget"]
    /\ UNCHANGED <<enabled, number, reported, dismissed, steady, botRuns,
                   byHand>>

\* Record(0), and the set is saved if it changed.
ForgetIssue(p) ==
    /\ checker[p].at = "forget"
    /\ number' = 0
    /\ IF Changed(checker[p])
       THEN /\ checker' = [checker EXCEPT ![p].at = "saveEmpty"]
            /\ UNCHANGED steady
       ELSE Ends(p, FALSE)
    /\ UNCHANGED <<enabled, reported, dismissed, issues, botRuns, byHand>>

\* Save replaces the set in one transaction, row or no row; a dismissal has
\* nothing to save.
Saved(c) == IF c.dismissing THEN reported ELSE c.found

Save(p) ==
    LET c == checker[p]
    IN  /\ c.at \in {"save", "saveEmpty"}
        /\ reported' = Saved(c)
        /\ IF c.at = "saveEmpty"
           THEN Ends(p, TRUE)
           ELSE /\ checker' = [checker EXCEPT ![p].at =
                                 IF c.num # 0 THEN "update" ELSE "create"]
                /\ UNCHANGED steady
        /\ UNCHANGED <<enabled, number, dismissed, issues, botRuns, byHand>>

UpdateText(p) ==
    LET c == checker[p]
    IN  /\ c.at = "update"
        /\ issues' = [issues EXCEPT ![c.num].lists = ToList(c)]
        /\ Ends(p, TRUE)
        /\ UNCHANGED <<enabled, number, reported, dismissed, botRuns, byHand>>

CreateIssue(p) ==
    LET c == checker[p]
    IN  /\ c.at = "create"
        /\ issues' = Append(issues, [open |-> TRUE, lists |-> ToList(c)])
        /\ checker' = [checker EXCEPT ![p].at = "record",
                                      ![p].num = Len(issues) + 1]
        /\ UNCHANGED <<enabled, number, reported, dismissed, steady, botRuns,
                       byHand>>

\* An UPDATE of the row, if it is still there.
RecordNumber(p) ==
    /\ checker[p].at = "record"
    /\ number' = IF enabled THEN checker[p].num ELSE number
    /\ Ends(p, TRUE)
    /\ UNCHANGED <<enabled, reported, dismissed, issues, botRuns, byHand>>

\* A restart cuts every process short; what is written stays.
BotRestart ==
    /\ ByHand
    /\ Busy # {}
    /\ checker' = [p \in Checkers |-> IdleChecker]
    /\ steady' = FALSE
    /\ UNCHANGED <<enabled, number, reported, dismissed, issues, botRuns>>

BotNext ==
    \/ EnableCheck \/ DisableCheck \/ BotRestart
    \/ \E i \in 1..MaxBotRuns : CloseByHand(i)
    \/ \E p \in Checkers :
         \/ \E S \in SUBSET Findings :
              BeginCheck(p, S) \/ ChangeDismissals(p, S, TRUE)
              \/ ChangeDismissals(p, S, FALSE)
         \/ ReadBefore(p) \/ Maintain(p) \/ CloseIssue(p) \/ ForgetIssue(p)
         \/ Save(p) \/ UpdateText(p) \/ CreateIssue(p) \/ RecordNumber(p)

BotSpec == BotInit /\ [][BotNext]_botVars

-----------------------------------------------------------------------------
(* Properties *)

\* The issue says what was found (botissue.go): after a run that nothing
\* interfered with and that wrote its report, and through any number of such
\* runs, dismissals, reopenings and closings by hand, the recorded issue, if
\* it is open, lists the saved findings that are not dismissed, and there is
\* one if there is anything to list. One such run repairs whatever overlapping
\* runs or a restart left.
IssueMatchesReport ==
    steady /\ enabled /\ Busy = {} =>
        LET rest == reported \ dismissed
        IN  /\ number # 0 /\ issues[number].open =>
                 rest # {} /\ issues[number].lists = rest
            /\ rest # {} => number # 0
=============================================================================
