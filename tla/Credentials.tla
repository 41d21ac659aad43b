---------------------------- MODULE Credentials ----------------------------
(***************************************************************************)
(* What lets somebody act as an account: SSH keys and the connections they *)
(* open (internal/sshd), API tokens and what is made with them, login      *)
(* links and browser sessions (store/users.go, tokens.go, sessions.go,     *)
(* revoke.go; control/token.go, identity.go, web.go, loginlink.go;         *)
(* httpd/accounts.go and api.go), and their end: revocation, expiry,       *)
(* suspension of the account.                                              *)
(*                                                                         *)
(* A request takes a step for each read or write of the database. A        *)
(* revocation that the server process commits is announced to its SSH      *)
(* listener after the commit; one committed by gitbayd admin on the host   *)
(* is not.                                                                 *)
(***************************************************************************)
EXTENDS Integers, FiniteSets

CONSTANTS
    Holders,     \* accounts
    KeyIds,      \* rows of ssh_keys ever made
    TokenIds,    \* rows of api_tokens ever made
    SessionIds,  \* rows of web_sessions ever made
    Conns,       \* SSH connections ever made
    None,        \* no account, no token
    MaxEnds      \* bound: revocations and suspensions

ASSUME CredentialAssumption ==
    /\ None \notin Holders \cup TokenIds
    /\ KeyIds \subseteq Nat /\ TokenIds \subseteq Nat /\ MaxEnds \in Nat

VARIABLES
    keys, tokens,  \* the rows
    links,         \* accounts with an unused login link
    sessions,      \* the rows
    barred,        \* accounts that are disabled
    conns,         \* the listener's connections
    notices,       \* announcements committed and not yet made
    login,         \* a login link being redeemed
    apiCall,       \* an API request under way
    barring,       \* SetUserDisabled under way
    sweeper,       \* the listener's sweep
    cleared,       \* history: tokens revoked with what they created
    ends           \* counter for the bound

credentialVars == <<keys, tokens, links, sessions, barred, conns, notices,
                    login, apiCall, barring, sweeper, cleared, ends>>

-----------------------------------------------------------------------------
(* The shape of the state *)

\* by: created_by_token; line (history): the tokens it descends from as long
\* as the links between them hold; expires: it has an expiry.
Credential == [is: {"none", "live", "expired", "gone"},
               owner: Holders \cup {None}, by: TokenIds \cup {None},
               line: SUBSET TokenIds, expires: BOOLEAN]
NoCredential == [is |-> "none", owner |-> None, by |-> None, line |-> {},
                 expires |-> FALSE]
\* late (history): the account was disabled when the row was written.
Session == [owner: Holders \cup {None}, late: BOOLEAN]
NoSession == [owner |-> None, late |-> FALSE]
EndedSession == [owner |-> None, late |-> TRUE]

\* running: a command passed its checks and has not ended.
Conn == [at: {"none", "handshake", "open", "closed"}, key: KeyIds \cup {None},
         running: BOOLEAN]
NoConn == [at |-> "none", key |-> None, running |-> FALSE]
Notice == [ids: SUBSET KeyIds, who: Holders \cup {None}]

Login == [at: {"idle", "create"}, who: Holders \cup {None}]
ApiCall == [at: {"idle", "mint"}, tok: TokenIds \cup {None},
            who: Holders \cup {None}]
Idle == [at |-> "idle", who |-> None]
IdleCall == [at |-> "idle", tok |-> None, who |-> None]

\* The tables SetUserDisabled clears after it has written the account.
Barring == [at: {"idle", "sessions", "tokens", "links", "announce"},
            who: Holders \cup {None}, onHost: BOOLEAN]
IdleBarring == [at |-> "idle", who |-> None, onHost |-> FALSE]

Sweeper == [at: {"idle", "cut"}, dead: SUBSET KeyIds]
IdleSweeper == [at |-> "idle", dead |-> {}]

CredentialTypeOK ==
    /\ keys \in [KeyIds -> Credential] /\ tokens \in [TokenIds -> Credential]
    /\ \A t \in TokenIds : tokens[t].by # None => tokens[tokens[t].by].is
                                                     \in {"live", "expired"}
    /\ links \subseteq Holders
    /\ sessions \in [SessionIds -> Session]
    /\ barred \subseteq Holders
    /\ conns \in [Conns -> Conn]
    /\ notices \subseteq Notice
    /\ login \in Login /\ apiCall \in ApiCall
    /\ barring \in Barring
    /\ sweeper \in Sweeper
    /\ cleared \subseteq TokenIds
    /\ ends \in 0..MaxEnds

CredentialInit ==
    /\ \E u \in Holders, k \in KeyIds : /\ \A j \in KeyIds : k <= j
         /\ keys = [i \in KeyIds |->
                   IF i = k THEN [NoCredential EXCEPT !.is = "live", !.owner = u]
                   ELSE NoCredential]
    /\ tokens = [t \in TokenIds |-> NoCredential]
    /\ links = {}
    /\ sessions = [s \in SessionIds |-> NoSession]
    /\ barred = {}
    /\ conns = [c \in Conns |-> NoConn]
    /\ notices = {}
    /\ login = Idle /\ apiCall = IdleCall
    /\ barring = IdleBarring
    /\ sweeper = IdleSweeper
    /\ cleared = {} /\ ends = 0

End == ends < MaxEnds /\ ends' = ends + 1
InTable(c) == c.is \in {"live", "expired"}
LiveKey(k) == keys[k].is = "live" /\ keys[k].owner \notin barred

-----------------------------------------------------------------------------
(* Making credentials *)

\* The next row of a table.
Fresh(table) == {i \in DOMAIN table :
                    /\ table[i].is = "none"
                    /\ \A j \in DOMAIN table : j < i => table[j].is # "none"}

\* A plausible mistake: no foreign key.
ParentAny(t) == TRUE

\* The foreign key on created_by_token.
Parent(t) == IF t = None THEN TRUE ELSE InTable(tokens[t])

Made(u, t, expires) ==
    [is |-> "live", owner |-> u, by |-> t, expires |-> expires,
     line |-> IF t = None THEN {} ELSE {t} \cup tokens[t].line]

\* CreateAPIToken. A token with an expiry creates nothing (CanMint), so
\* those are left out.
CreateAPIToken(u, t) ==
    \E new \in Fresh(tokens) :
        /\ Parent(t)
        /\ tokens' = [tokens EXCEPT ![new] = Made(u, t, FALSE)]
        /\ keys' = keys

AddSSHKeyFrom(u, t) ==
    \E new \in Fresh(keys), expires \in BOOLEAN :
        /\ Parent(t)
        /\ keys' = [keys EXCEPT ![new] = Made(u, t, expires)]
        /\ tokens' = tokens

\* apiAuth: the token and its account are read once for the request; a
\* disabled account's token answers nothing.
ApiAuth(t) ==
    /\ apiCall = IdleCall
    /\ tokens[t].is = "live"
    /\ tokens[t].owner \notin barred
    /\ apiCall' = [at |-> "mint", tok |-> t, who |-> tokens[t].owner]
    /\ UNCHANGED <<keys, tokens, links, sessions, barred, conns, notices,
                   login, barring, sweeper, cleared, ends>>

\* token create and keys add through the API; the insert may be refused.
ApiMint ==
    /\ apiCall.at = "mint"
    /\ \/ CreateAPIToken(apiCall.who, apiCall.tok)
       \/ AddSSHKeyFrom(apiCall.who, apiCall.tok)
       \/ UNCHANGED <<keys, tokens>>
    /\ apiCall' = IdleCall
    /\ UNCHANGED <<links, sessions, barred, conns, notices, login, barring,
                   sweeper, cleared, ends>>

\* A link is asked for as long as it could still become a session: their
\* number is the bound.
AskLink(u) ==
    /\ u \notin links /\ login = Idle
    /\ \E s \in SessionIds : sessions[s] = NoSession
    /\ links' = links \cup {u}

\* The same commands, and web login, on an SSH connection.
CommandMints(c) ==
    LET u == keys[conns[c].key].owner
    IN  /\ conns[c].running /\ ~keys[conns[c].key].expires
        /\ \/ (CreateAPIToken(u, None) \/ AddSSHKeyFrom(u, None))
              /\ UNCHANGED links
           \/ AskLink(u) /\ UNCHANGED <<keys, tokens>>
        /\ conns' = [conns EXCEPT ![c].running = FALSE]
        /\ UNCHANGED <<sessions, barred, notices, login, apiCall, barring,
                       sweeper, cleared, ends>>

\* RequestLoginLink, for an account that is not suspended.
RequestLoginLink(u) ==
    /\ u \notin barred /\ AskLink(u)
    /\ UNCHANGED <<keys, tokens, sessions, barred, conns, notices, login,
                   apiCall, barring, sweeper, cleared, ends>>

\* The link is used up and the account's row read: a suspended one gets no
\* further. (A suspension between the two comes to the same as one before.)
ConsumeLoginToken(u) ==
    /\ login = Idle /\ u \in links
    /\ links' = links \ {u}
    /\ login' = IF u \in barred THEN Idle ELSE [at |-> "create", who |-> u]
    /\ UNCHANGED <<keys, tokens, sessions, barred, conns, notices, apiCall,
                   barring, sweeper, cleared, ends>>

CreateWebSession ==
    /\ login.at = "create"
    /\ login' = Idle
    /\ \E s \in SessionIds :
         /\ sessions[s] = NoSession
         /\ sessions' = [sessions EXCEPT ![s] =
              [owner |-> login.who, late |-> login.who \in barred]]
    /\ UNCHANGED <<keys, tokens, links, barred, conns, notices, apiCall,
                   barring, sweeper, cleared, ends>>

\* Logging out, web sessions revoke, idleness and the cap.
SessionEnds(s) ==
    /\ sessions[s].owner # None
    /\ sessions' = [sessions EXCEPT ![s] = EndedSession]
    /\ UNCHANGED <<keys, tokens, links, barred, conns, notices, login, apiCall,
                   barring, sweeper, cleared, ends>>

-----------------------------------------------------------------------------
(* Ending credentials *)

\* A plausible mistake: the tokens it created itself.
ChainOneDeep(t) == {c \in TokenIds : InTable(tokens[c])
                                     /\ (c = t \/ tokens[c].by = t)}

\* chainCTE: the token and every token created from it, at any depth.
Chain(t) == {c \in TokenIds : InTable(tokens[c])
                              /\ (c = t \/ t \in tokens[c].line)}

\* What the tokens of S created loses its link when they go.
Unlinked(table, S) ==
    [i \in DOMAIN table |->
        [table[i] EXCEPT
           !.by = IF @ \in S THEN None ELSE @,
           !.line = @ \ UNION {{t} \cup tokens[t].line : t \in S \cap @}]]

TokensGone(S) == [t \in TokenIds |->
                    IF t \in S THEN [NoCredential EXCEPT !.is = "gone"]
                    ELSE Unlinked(tokens, S)[t]]
KeysGone(S) ==
    [k \in KeyIds |->
        IF k \in S THEN [keys[k] EXCEPT !.is = "gone", !.by = None, !.line = {}]
        ELSE keys[k]]

\* RevokeAPIToken without --created.
RevokeToken(t) ==
    /\ End
    /\ InTable(tokens[t])
    /\ tokens' = TokensGone({t})
    /\ keys' = Unlinked(keys, {t})
    /\ UNCHANGED <<links, sessions, barred, conns, notices, login, apiCall,
                   barring, sweeper, cleared>>

\* RevokeAPIToken with --created: the chain and the keys it made, in one
\* transaction; the keys are announced.
RevokeChain(t) ==
    LET chain == Chain(t)
        made == {k \in KeyIds : InTable(keys[k]) /\ keys[k].by \in chain}
    IN  /\ End
        /\ InTable(tokens[t])
        /\ tokens' = TokensGone(chain)
        /\ keys' = KeysGone(made)
        /\ notices' = notices \cup {[ids |-> made, who |-> None]}
        /\ cleared' = cleared \cup {t}
        /\ UNCHANGED <<links, sessions, barred, conns, login, apiCall,
                       barring, sweeper>>

\* keys remove.
RemoveKey(k) ==
    /\ End
    /\ InTable(keys[k])
    /\ keys' = KeysGone({k})
    /\ notices' = notices \cup {[ids |-> {k}, who |-> None]}
    /\ UNCHANGED <<tokens, links, sessions, barred, conns, login, apiCall,
                   barring, sweeper, cleared>>

KeyExpires(k) ==
    /\ keys[k].is = "live" /\ keys[k].expires
    /\ keys' = [keys EXCEPT ![k].is = "expired"]
    /\ UNCHANGED <<tokens, links, sessions, barred, conns, notices, login,
                   apiCall, barring, sweeper, cleared, ends>>

-----------------------------------------------------------------------------
(* Suspension: SetUserDisabled, a statement at a time *)

\* A plausible mistake: the browser sessions are left.
BarOrderShort == [idle |-> "tokens", tokens |-> "links", links |-> "announce",
                  announce |-> "idle"]

\* The order in which the tables are cleared once the account is written.
BarOrder == [idle |-> "sessions", sessions |-> "tokens", tokens |-> "links",
             links |-> "announce", announce |-> "idle"]

Bar(u, onHost) ==
    /\ barring = IdleBarring /\ u \notin barred /\ End
    /\ barred' = barred \cup {u}
    /\ barring' = [at |-> BarOrder["idle"], who |-> u, onHost |-> onHost]
    /\ UNCHANGED <<keys, tokens, links, sessions, conns, notices, login,
                   apiCall, sweeper, cleared>>

BarStep ==
    LET u == barring.who
        next == BarOrder[barring.at]
    IN  /\ barring.at # "idle"
        /\ barring' = IF next = "idle" THEN IdleBarring
                      ELSE [barring EXCEPT !.at = next]
        /\ sessions' = IF barring.at # "sessions" THEN sessions
                       ELSE [s \in SessionIds |-> IF sessions[s].owner = u
                               THEN EndedSession ELSE sessions[s]]
        /\ LET S == {t \in TokenIds : InTable(tokens[t]) /\ tokens[t].owner = u}
           IN  IF barring.at = "tokens"
               THEN tokens' = TokensGone(S) /\ keys' = Unlinked(keys, S)
               ELSE UNCHANGED <<tokens, keys>>
        /\ links' = IF barring.at = "links" THEN links \ {u} ELSE links
        /\ notices' = IF barring.at = "announce" /\ ~barring.onHost
                      THEN notices \cup {[ids |-> {}, who |-> u]} ELSE notices
        /\ UNCHANGED <<barred, conns, login, apiCall, sweeper, cleared, ends>>

Unbar(u) ==
    /\ barring = IdleBarring /\ u \in barred
    /\ barred' = barred \ {u}
    /\ UNCHANGED <<keys, tokens, links, sessions, conns, notices, login,
                   apiCall, barring, sweeper, cleared, ends>>

-----------------------------------------------------------------------------
(* The SSH listener *)

\* authenticate: the key is registered and has not expired. (Whether the
\* account may do anything is asked for each command.)
Authenticate(c, k) ==
    /\ conns[c].at = "none" /\ keys[k].is = "live"
    /\ conns' = [conns EXCEPT ![c] = [at |-> "handshake", key |-> k,
                                      running |-> FALSE]]
    /\ UNCHANGED <<keys, tokens, links, sessions, barred, notices, login,
                   apiCall, barring, sweeper, cleared, ends>>

\* handleConn: only from here on a revocation finds the connection.
RecordKey(c) ==
    /\ conns[c].at = "handshake"
    /\ conns' = [conns EXCEPT ![c].at = "open"]
    /\ UNCHANGED <<keys, tokens, links, sessions, barred, notices, login,
                   apiCall, barring, sweeper, cleared, ends>>

\* A plausible mistake: what was true when the connection was made is.
AdmittedOnce(c) == TRUE

\* runExec and Exec read the key and the account again for each command.
Admitted(c) == LiveKey(conns[c].key)

RunExec(c) ==
    /\ conns[c].at = "open" /\ ~conns[c].running
    /\ Admitted(c)
    /\ conns' = [conns EXCEPT ![c].running = TRUE]
    /\ UNCHANGED <<keys, tokens, links, sessions, barred, notices, login,
                   apiCall, barring, sweeper, cleared, ends>>

CommandEnds(c) ==
    /\ conns[c].running
    /\ conns' = [conns EXCEPT ![c].running = FALSE]
    /\ UNCHANGED <<keys, tokens, links, sessions, barred, notices, login,
                   apiCall, barring, sweeper, cleared, ends>>

ClientLeaves(c) ==
    /\ conns[c].at \in {"handshake", "open"}
    /\ conns' = [conns EXCEPT ![c] = [NoConn EXCEPT !.at = "closed"]]
    /\ UNCHANGED <<keys, tokens, links, sessions, barred, notices, login,
                   apiCall, barring, sweeper, cleared, ends>>

\* cut closes the connection and kills what runs on it.
Cut(which) ==
    conns' = [c \in Conns |->
                IF conns[c].at = "open" /\ conns[c].key \in which
                THEN [NoConn EXCEPT !.at = "closed"] ELSE conns[c]]

\* revoke.
Announce(n) ==
    /\ n \in notices
    /\ notices' = notices \ {n}
    /\ Cut(n.ids \cup {k \in KeyIds : n.who # None /\ keys[k].owner = n.who})
    /\ UNCHANGED <<keys, tokens, links, sessions, barred, login, apiCall,
                   barring, sweeper, cleared, ends>>

\* A plausible mistake: only removed keys count as dead.
DeadKeysRemoved(S) == {k \in S : ~InTable(keys[k])}

\* What LiveSSHKeys does not answer with.
DeadKeys(S) == {k \in S : ~LiveKey(k)}

\* sweepOnce: which keys of the open connections are dead (a key that dies
\* between the listing and the query counts, a connection made then does
\* not), and the end of their connections.
SweepAsk ==
    /\ sweeper = IdleSweeper
    /\ LET asked == {conns[c].key : c \in {d \in Conns : conns[d].at = "open"}}
       IN  asked # {} /\ sweeper' = [at |-> "cut", dead |-> DeadKeys(asked)]
    /\ UNCHANGED <<keys, tokens, links, sessions, barred, conns, notices,
                   login, apiCall, barring, cleared, ends>>

SweepCut ==
    /\ sweeper.at = "cut"
    /\ sweeper' = IdleSweeper
    /\ Cut(sweeper.dead)
    /\ UNCHANGED <<keys, tokens, links, sessions, barred, notices, login,
                   apiCall, barring, cleared, ends>>

-----------------------------------------------------------------------------

CredentialNext ==
    \/ \E t \in TokenIds : ApiAuth(t) \/ RevokeToken(t) \/ RevokeChain(t)
    \/ \E k \in KeyIds : RemoveKey(k) \/ KeyExpires(k)
    \/ \E u \in Holders : RequestLoginLink(u) \/ ConsumeLoginToken(u)
                          \/ Bar(u, TRUE) \/ Bar(u, FALSE) \/ Unbar(u)
    \/ \E s \in SessionIds : SessionEnds(s)
    \/ \E c \in Conns :
         \/ \E k \in KeyIds : Authenticate(c, k)
         \/ RecordKey(c) \/ RunExec(c) \/ CommandMints(c) \/ CommandEnds(c)
         \/ ClientLeaves(c)
    \/ \E n \in notices : Announce(n)
    \/ ApiMint \/ CreateWebSession \/ BarStep
    \/ SweepAsk \/ SweepCut

CredentialSpec == CredentialInit /\ [][CredentialNext]_credentialVars

\* The sweep's ticker; a handler goes on once it has begun.
CredentialFairness ==
    /\ WF_credentialVars(SweepAsk)
    /\ WF_credentialVars(SweepCut)

-----------------------------------------------------------------------------
(* Properties *)

\* Revoking a token with what it created leaves nothing of its line: no key
\* and no token made from it at any depth is in a table, not even one that a
\* request already past its authentication inserts afterwards.
CreatedGoWithIt ==
    /\ \A t \in TokenIds : InTable(tokens[t]) => tokens[t].line \cap cleared = {}
    /\ \A k \in KeyIds : InTable(keys[k]) => keys[k].line \cap cleared = {}

\* A suspension leaves an account no session, except one whose login had
\* read the account before it was suspended.
SuspensionEndsSessions ==
    barring = IdleBarring =>
        \A s \in SessionIds :
            sessions[s].owner \in barred => sessions[s].late

\* No command begins on a connection whose key is gone, has expired, or is
\* of a suspended account, however long the connection has been open and
\* although nothing has cut it yet.
CommandsNeedALiveKey ==
    [][\A c \in Conns : ~conns[c].running /\ conns'[c].running
                          => LiveKey(conns[c].key)]_credentialVars

\* A connection whose key is dead is cut, whether its revocation was
\* announced, came between its handshake and its registration, was made on
\* the host, or is an expiry.
DeadKeyIsCut ==
    CredentialFairness =>
        []<>(\A c \in Conns : conns[c].at = "open" => LiveKey(conns[c].key))

\* Revocation reaches what was made with a credential (store/tokens.go).
CredentialsInOrder == CreatedGoWithIt /\ SuspensionEndsSessions
=============================================================================
