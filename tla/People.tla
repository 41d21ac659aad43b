------------------------------- MODULE People -------------------------------
(***************************************************************************)
(* What belongs to people: their accounts, their credentials, and what     *)
(* commands and pages show them.  Accounts and Credentials share no        *)
(* variable with the others or with each other, and the forms of Pages     *)
(* share only the access rows, so each is explored from its initial states *)
(* while the others rest: `working' says which.                            *)
(***************************************************************************)
EXTENDS Accounts, Credentials, Pages

VARIABLE working

AccessRests ==
    /\ repo = [r \in RepoIds |-> NoRow]
    /\ grant = [r \in RepoIds |-> [u \in Users |-> "none"]]
    /\ org = [o \in OrgIds |-> [is |-> "none", role |-> "read"]]
    /\ member = [o \in OrgIds |-> [u \in Users |-> "none"]]
    /\ team = [t \in TeamIds |-> NoTeam]
    /\ asked = [w \in Workers |-> Unset]
    /\ slipped = {} /\ accessOps = 0

\* A part that rests has one initial state.
PeopleInit ==
    /\ working \in {"accounts", "credentials", "reads", "forms", "topics", "domains"}
    /\ AccountInit /\ CredentialInit
    /\ \/ working = "accounts"
       \/ \A u \in People : /\ acct[u].is = "here"
                            /\ acct[u].admin <=> u = CHOOSE v \in People : TRUE
    /\ IF working \in {"accounts", "credentials"}
       THEN AccessRests /\ ReadsFresh /\ PagesFresh
       ELSE PagesInit

PeopleNext ==
    /\ UNCHANGED working
    /\ \/ working = "accounts" /\ AccountNext
          /\ UNCHANGED <<credentialVars, accessVars, readVars, pageVars>>
       \/ working = "credentials" /\ CredentialNext
          /\ UNCHANGED <<accountVars, accessVars, readVars, pageVars>>
       \/ working = "reads" /\ ReadsNext
          /\ UNCHANGED <<accountVars, credentialVars, pageVars>>
       \/ working = "forms" /\ FormsNext
          /\ UNCHANGED <<accountVars, credentialVars>>
       \/ working = "topics" /\ TopicsNext
          /\ UNCHANGED <<accountVars, credentialVars>>
       \/ working = "domains" /\ DomainsNext
          /\ UNCHANGED <<accountVars, credentialVars>>

peopleVars == <<working, accountVars, credentialVars, accessVars, readVars, pageVars>>

PeopleSpec == PeopleInit /\ [][PeopleNext]_peopleVars

\* The part at work keeps its state in shape.
PeopleTypeOK ==
    /\ working = "accounts" => AccountTypeOK
    /\ working = "credentials" => CredentialTypeOK
    /\ working = "reads" => ReadsTypeOK
    /\ working \in {"forms", "topics", "domains"} => ReadsTypeOK /\ PagesTypeOK

\* While access and rows change, commands show a repository to its readers,
\* its configuration to its administrators, and the list queries agree with
\* policy (control, store). Forms dispatch the same commands.
CommandsShown == working = "reads" => CommandsAgree

\* While access, rows and claims of domains change, pages show what commands
\* show and sites what the public may see (httpd).
PagesShown == working \in {"reads", "domains"} => PagesAgreeWithCommands

\* A connection ends with its key (sshd/revoke.go).
ConnectionsEnd == CommandsNeedALiveKey /\ DeadKeyIsCut
=============================================================================
