---------------------------- MODULE PeopleProofs ----------------------------
(***************************************************************************)
(* Proofs about Credentials, for any accounts, rows and connections: what  *)
(* a revocation reaches, whatever depth of tokens made it and whatever     *)
(* request is under way, and what a suspension leaves.  About Accounts,    *)
(* for any people and addresses and any number of commands: what an        *)
(* address, a suspension and a deletion keep to while they cross.  And     *)
(* about Reads and Pages, for any accounts, organizations, repositories,   *)
(* snippets, topics and domains: what commands and pages show to whom.     *)
(***************************************************************************)
EXTENDS People, AccessProofs, FiniteSetTheorems, TLAPS

-----------------------------------------------------------------------------
(* The inductive invariant *)

\* The line of a row is what made it and the line of that, in order: nothing
\* of it is out of the table of tokens, and of two tokens one made the other.
Lineage(table, c) ==
    /\ \A y \in c.line : InTable(table[y])
    /\ c.by = None => c.line = {}
    /\ c.by # None => c.line = {c.by} \cup table[c.by].line
    /\ \A y \in c.line : table[y].line \subseteq c.line
    /\ \A y, z \in c.line : y = z \/ y \in table[z].line \/ z \in table[y].line

\* No token descends from itself.
TokensDescend(table) ==
    \A t \in TokenIds : Lineage(table, table[t]) /\ t \notin table[t].line

LinesOfDescent ==
    TokensDescend(tokens) /\ \A k \in KeyIds : Lineage(tokens, keys[k])

ClearedAreGone == \A t \in cleared : tokens[t].is = "gone"

\* A session of a suspended account is one of a late login, or the suspension
\* has yet to clear it.
SuspendedAreCleared ==
    \A s \in SessionIds : sessions[s].owner \in barred =>
        \/ sessions[s].late
        \/ barring.at = "sessions" /\ barring.who = sessions[s].owner

\* Whose a row is; a row of keys that was ever used has an owner for good,
\* and one that is out of the table has lost its link.
RowsAreOwned ==
    /\ \A k \in KeyIds : /\ keys[k].is # "none" => keys[k].owner \in Holders
                         /\ ~InTable(keys[k]) => keys[k].by = None
    /\ \A t \in TokenIds : InTable(tokens[t]) => tokens[t].owner \in Holders

RowsInv ==
    /\ keys \in [KeyIds -> Credential] /\ tokens \in [TokenIds -> Credential]
    /\ cleared \subseteq TokenIds
    /\ LinesOfDescent /\ ClearedAreGone /\ RowsAreOwned

\* A connection has the key it was made with, and a command its connection.
ConnsHaveKeys ==
    \A c \in Conns :
        /\ conns[c].at \in {"handshake", "open"} =>
              conns[c].key \in KeyIds /\ keys[conns[c].key].is # "none"
        /\ conns[c].running => conns[c].at = "open"

\* A request knows its token and its account.
CallsAreOwned ==
    /\ apiCall.at = "mint" => apiCall.who \in Holders /\ apiCall.tok \in TokenIds
    /\ login.at = "create" => login.who \in Holders

RestTypeOK ==
    /\ links \subseteq Holders
    /\ sessions \in [SessionIds -> Session]
    /\ barred \subseteq Holders
    /\ conns \in [Conns -> Conn]
    /\ notices \subseteq Notice
    /\ login \in Login /\ apiCall \in ApiCall
    /\ barring \in Barring
    /\ sweeper \in Sweeper
    /\ ends \in 0..MaxEnds

CredentialInv ==
    RowsInv /\ RestTypeOK /\ ConnsHaveKeys /\ CallsAreOwned /\ SuspendedAreCleared

-----------------------------------------------------------------------------
(* Lines of descent *)

\* What a line loses when the tokens of S go: those of S, and what made them.
Lost(table, c, S) == UNION {{t} \cup table[t].line : t \in S \cap c.line}

LEMMA LostIs ==
    ASSUME NEW table, NEW c, NEW S, NEW y
    PROVE  y \in Lost(table, c, S) <=>
             \E t \in S : t \in c.line /\ (y = t \/ y \in table[t].line)
BY DEF Lost

\* A row whose line loses what went has a line of descent in what is left.
LEMMA LineageSurvives ==
    ASSUME NEW table \in [TokenIds -> Credential], TokensDescend(table),
           NEW S \in SUBSET TokenIds, NEW new,
           \A t \in TokenIds \ S :
               /\ InTable(new[t]) <=> InTable(table[t])
               /\ new[t].line = table[t].line \ Lost(table, table[t], S),
           NEW c \in Credential, Lineage(table, c),
           NEW d, d.by = (IF c.by \in S THEN None ELSE c.by),
           d.line = c.line \ Lost(table, c, S)
    PROVE  Lineage(new, d)
<1>0. c.line \subseteq TokenIds /\ \A t \in TokenIds : table[t].line \subseteq TokenIds
  BY DEF Credential
<1>1. \A y \in d.line : y \in c.line /\ y \in TokenIds \ S
  BY <1>0, LostIs
<1>2. \A y \in d.line : InTable(new[y])
  BY <1>1 DEF Lineage
<1>3. d.by = None => d.line = {}
  <2>1. CASE c.by = None
    BY <2>1 DEF Lineage
  <2>2. CASE c.by # None /\ c.by \in S
    <3>1. c.line = {c.by} \cup table[c.by].line
      BY <2>2 DEF Lineage
    <3>2. \A y \in c.line : y \in Lost(table, c, S)
      BY <2>2, <3>1, LostIs
    <3> QED
      BY <3>2
  <2>3. CASE c.by # None /\ c.by \notin S
    BY <2>3
  <2> QED
    BY <2>1, <2>2, <2>3
<1>4. d.by # None => d.line = {d.by} \cup new[d.by].line
  <2> SUFFICES ASSUME d.by # None PROVE d.line = {d.by} \cup new[d.by].line
    OBVIOUS
  <2> DEFINE b == c.by
  <2>1. d.by = b /\ b \notin S /\ c.line = {b} \cup table[b].line
    BY DEF Lineage
  <2>2. b \in TokenIds /\ Lineage(table, table[b]) /\ b \notin table[b].line
    BY <1>0, <2>1 DEF TokensDescend
  <2>3. new[b].line = table[b].line \ Lost(table, table[b], S)
    BY <2>1, <2>2
  <2>4. \A y : y \in Lost(table, c, S) <=> y \in Lost(table, table[b], S)
    BY <2>1, LostIs
  <2>5. b \notin Lost(table, c, S)
    <3> SUFFICES ASSUME NEW t \in S, t \in c.line, b = t \/ b \in table[t].line
                 PROVE  FALSE
      BY LostIs
    <3>1. t \in table[b].line /\ b \in table[t].line
      BY <2>1
    <3>2. Lineage(table, table[t]) /\ t \notin table[t].line
      BY DEF TokensDescend
    <3>3. table[b].line \subseteq table[t].line
      BY <3>1, <3>2 DEF Lineage
    <3> QED
      BY <3>1, <3>2, <3>3
  <2> QED
    BY <2>1, <2>3, <2>4, <2>5
<1>5. ASSUME NEW y \in d.line, NEW z \in new[y].line
      PROVE  z \in d.line
  <2>1. y \in c.line /\ y \in TokenIds \ S /\ y \notin Lost(table, c, S)
    BY <1>1
  <2>2. z \in table[y].line /\ z \notin Lost(table, table[y], S)
    BY <2>1
  <2>3. z \in c.line
    BY <2>1, <2>2 DEF Lineage
  <2>4. ASSUME NEW t \in S, t \in c.line, z = t \/ z \in table[t].line
        PROVE  FALSE
    <3>1. y = t \/ y \in table[t].line \/ t \in table[y].line
      BY <2>1, <2>4 DEF Lineage
    <3>2. y # t /\ y \notin table[t].line
      BY <2>1, <2>4, LostIs
    <3>3. t \in table[y].line
      BY <3>1, <3>2
    <3> QED
      BY <2>2, <2>4, <3>3, LostIs
  <2> QED
    BY <2>3, <2>4, LostIs
<1>6. ASSUME NEW y \in d.line, NEW z \in d.line
      PROVE  y = z \/ y \in new[z].line \/ z \in new[y].line
  <2>1. ASSUME NEW x \in d.line, NEW w \in d.line, x \in table[w].line
        PROVE  x \in new[w].line
    <3>1. /\ w \in c.line /\ w \in TokenIds \ S
          /\ x \in c.line /\ x \notin Lost(table, c, S)
      BY <1>1
    <3>2. ASSUME NEW t \in S, t \in table[w].line, x = t \/ x \in table[t].line
          PROVE  FALSE
      <4>1. t \in c.line
        BY <3>1, <3>2 DEF Lineage
      <4> QED
        BY <3>1, <3>2, <4>1, LostIs
    <3>3. x \notin Lost(table, table[w], S)
      BY <3>2, LostIs
    <3> QED
      BY <2>1, <3>1, <3>3
  <2>2. y = z \/ y \in table[z].line \/ z \in table[y].line
    BY <1>1 DEF Lineage
  <2> QED
    BY <2>1, <2>2
<1> QED
  BY <1>2, <1>3, <1>4, <1>5, <1>6 DEF Lineage

-----------------------------------------------------------------------------
(* What a step does to the rows *)

LEMMA UnlinkedRow ==
    ASSUME NEW table, NEW S, NEW i \in DOMAIN table, table[i] \in Credential
    PROVE  LET d == Unlinked(table, S)[i]
           IN  /\ d \in Credential
               /\ d.is = table[i].is /\ d.owner = table[i].owner
               /\ d.by = IF table[i].by \in S THEN None ELSE table[i].by
               /\ d.line = table[i].line \ Lost(tokens, table[i], S)
<1> DEFINE d == Unlinked(table, S)[i]
           by == IF table[i].by \in S THEN None ELSE table[i].by
           line == table[i].line \ UNION {{t} \cup tokens[t].line : t \in S \cap table[i].line}
<1>1. d = [table[i] EXCEPT !.by = by, !.line = line]
  BY DEF Unlinked
<1>2. by \in TokenIds \cup {None} /\ line \in SUBSET TokenIds
  BY DEF Credential
<1>3. line = table[i].line \ Lost(tokens, table[i], S)
  BY DEF Lost
<1> HIDE DEF by, line, d
<1>4. d \in Credential /\ d.is = table[i].is /\ d.owner = table[i].owner
      /\ d.by = by /\ d.line = line
  BY <1>1, <1>2 DEF Credential
<1> QED
  BY <1>3, <1>4 DEF d, by

\* The tokens that stay, when those of S go.
LEMMA TokensLeft ==
    ASSUME RowsInv, NEW S \in SUBSET {t \in TokenIds : InTable(tokens[t])}
    PROVE  /\ TokensGone(S) \in [TokenIds -> Credential]
           /\ TokensDescend(TokensGone(S))
           /\ \A t \in S : TokensGone(S)[t].is = "gone"
           /\ \A t \in TokenIds \ S :
                /\ TokensGone(S)[t].is = tokens[t].is
                /\ TokensGone(S)[t].owner = tokens[t].owner
                /\ TokensGone(S)[t].line = tokens[t].line \ Lost(tokens, tokens[t], S)
           /\ \A c \in Credential : \A d :
                 /\ Lineage(tokens, c)
                 /\ d.by = (IF c.by \in S THEN None ELSE c.by)
                 /\ d.line = c.line \ Lost(tokens, c, S)
                 => Lineage(TokensGone(S), d)
<1> DEFINE new == TokensGone(S)
           gone == [NoCredential EXCEPT !.is = "gone"]
<1>1. tokens \in [TokenIds -> Credential] /\ TokensDescend(tokens) /\ S \in SUBSET TokenIds
  BY DEF RowsInv, LinesOfDescent
<1>2. gone \in Credential /\ gone.is = "gone" /\ gone.by = None /\ gone.line = {}
  BY DEF NoCredential, Credential
<1>3. \A t \in S : new[t] = gone
  BY <1>1 DEF TokensGone
<1>4. ASSUME NEW t \in TokenIds \ S
      PROVE  /\ new[t] \in Credential
             /\ new[t].is = tokens[t].is /\ new[t].owner = tokens[t].owner
             /\ new[t].by = IF tokens[t].by \in S THEN None ELSE tokens[t].by
             /\ new[t].line = tokens[t].line \ Lost(tokens, tokens[t], S)
  <2>1. new[t] = Unlinked(tokens, S)[t]
    BY DEF TokensGone
  <2>2. t \in DOMAIN tokens /\ tokens[t] \in Credential
    BY <1>1
  <2> QED
    BY <2>1, <2>2, UnlinkedRow
<1>5. new \in [TokenIds -> Credential]
  <2>1. new = [t \in TokenIds |-> new[t]]
    BY DEF TokensGone
  <2>2. \A t \in TokenIds : new[t] \in Credential
    BY <1>2, <1>3, <1>4
  <2> HIDE DEF new
  <2> QED
    BY <2>1, <2>2
<1> HIDE DEF new
<1>6. \A t \in TokenIds \ S :
        /\ InTable(new[t]) <=> InTable(tokens[t])
        /\ new[t].line = tokens[t].line \ Lost(tokens, tokens[t], S)
  BY <1>4 DEF InTable
<1>7. ASSUME NEW c \in Credential, NEW d, Lineage(tokens, c),
             d.by = (IF c.by \in S THEN None ELSE c.by),
             d.line = c.line \ Lost(tokens, c, S)
      PROVE  Lineage(new, d)
  BY <1>1, <1>6, <1>7, LineageSurvives
<1>8. ASSUME NEW t \in TokenIds
      PROVE  Lineage(new, new[t]) /\ t \notin new[t].line
  <2>1. CASE t \in S
    BY <1>2, <1>3, <2>1 DEF Lineage
  <2>2. CASE t \notin S
    <3>1. Lineage(tokens, tokens[t]) /\ t \notin tokens[t].line /\ tokens[t] \in Credential
      BY <1>1 DEF TokensDescend
    <3> QED
      BY <1>4, <1>7, <2>2, <3>1
  <2> QED
    BY <2>1, <2>2
<1>9. TokensDescend(new)
  BY <1>8 DEF TokensDescend
<1> QED
  BY <1>2, <1>3, <1>4, <1>5, <1>7, <1>9 DEF new

\* No key that was ever used becomes one that was not.
KeysOnlyAge ==
    \A k \in KeyIds : keys[k].is # "none" =>
        keys'[k].is # "none" /\ keys'[k].owner = keys[k].owner

\* Tokens go and what they created loses its link: revocation and suspension.
LEMMA UnlinkKeeps ==
    ASSUME RowsInv, NEW S \in SUBSET {t \in TokenIds : InTable(tokens[t])},
           tokens' = TokensGone(S), keys' = Unlinked(keys, S), cleared' = cleared
    PROVE  RowsInv' /\ KeysOnlyAge
<1>1. /\ tokens' \in [TokenIds -> Credential] /\ TokensDescend(tokens')
      /\ \A t \in S : tokens'[t].is = "gone"
      /\ \A t \in TokenIds \ S : /\ tokens'[t].is = tokens[t].is
                                 /\ tokens'[t].owner = tokens[t].owner
  BY TokensLeft
<1>2. keys \in [KeyIds -> Credential] /\ \A k \in KeyIds : Lineage(tokens, keys[k])
  BY DEF RowsInv, LinesOfDescent
<1>3. ASSUME NEW k \in KeyIds
      PROVE  /\ keys'[k] \in Credential
             /\ keys'[k].is = keys[k].is /\ keys'[k].owner = keys[k].owner
             /\ keys[k].by = None => keys'[k].by = None
             /\ Lineage(tokens', keys'[k])
  <2>1. k \in DOMAIN keys /\ keys[k] \in Credential /\ Lineage(tokens, keys[k])
    BY <1>2
  <2>2. /\ keys'[k] \in Credential
        /\ keys'[k].is = keys[k].is /\ keys'[k].owner = keys[k].owner
        /\ keys'[k].by = (IF keys[k].by \in S THEN None ELSE keys[k].by)
        /\ keys'[k].line = keys[k].line \ Lost(tokens, keys[k], S)
    BY <2>1, UnlinkedRow
  <2>3. Lineage(TokensGone(S), keys'[k])
    BY <2>1, <2>2, TokensLeft
  <2> QED
    BY <2>2, <2>3
<1>4. keys' \in [KeyIds -> Credential]
  <2>1. keys' = [k \in KeyIds |-> keys'[k]]
    BY <1>2 DEF Unlinked
  <2> QED
    BY <1>3, <2>1
<1>5. LinesOfDescent'
  BY <1>1, <1>3 DEF LinesOfDescent
<1>6. ClearedAreGone'
  BY <1>1 DEF RowsInv, ClearedAreGone
<1>7. RowsAreOwned'
  <2>1. \A t \in TokenIds : InTable(tokens'[t]) => tokens'[t].owner \in Holders
    BY <1>1 DEF RowsInv, RowsAreOwned, InTable
  <2>2. \A k \in KeyIds :
          /\ keys'[k].is # "none" => keys'[k].owner \in Holders
          /\ ~InTable(keys'[k]) => keys'[k].by = None
    BY <1>3 DEF RowsInv, RowsAreOwned, InTable
  <2> QED
    BY <2>1, <2>2 DEF RowsAreOwned
<1> QED
  BY <1>1, <1>3, <1>4, <1>5, <1>6, <1>7 DEF RowsInv, KeysOnlyAge

\* A revocation with what was created: a token goes with all its descendants,
\* and the keys they made go with it. The line of any other key has none of them.
LEMMA RevokeChainKeeps ==
    ASSUME RowsInv, NEW t \in TokenIds, RevokeChain(t)
    PROVE  RowsInv' /\ KeysOnlyAge
<1> DEFINE chain == Chain(t)
           made == {k \in KeyIds : InTable(keys[k]) /\ keys[k].by \in chain}
<1>1. /\ InTable(tokens[t]) /\ tokens' = TokensGone(chain) /\ keys' = KeysGone(made)
      /\ cleared' = cleared \cup {t}
  BY DEF RevokeChain
<1>2. chain \in SUBSET {c \in TokenIds : InTable(tokens[c])} /\ t \in chain
  BY <1>1 DEF Chain
<1>3. /\ tokens' \in [TokenIds -> Credential] /\ TokensDescend(tokens')
      /\ \A c \in chain : tokens'[c].is = "gone"
      /\ \A c \in TokenIds \ chain : /\ tokens'[c].is = tokens[c].is
                                     /\ tokens'[c].owner = tokens[c].owner
  BY <1>1, <1>2, TokensLeft
<1>4. keys \in [KeyIds -> Credential] /\ \A k \in KeyIds : Lineage(tokens, keys[k])
  BY DEF RowsInv, LinesOfDescent
<1>5. ASSUME NEW k \in made
      PROVE  /\ keys'[k] \in Credential /\ keys'[k].is = "gone"
             /\ keys'[k].owner = keys[k].owner /\ keys'[k].by = None
             /\ Lineage(tokens', keys'[k])
  <2>1. keys'[k] = [keys[k] EXCEPT !.is = "gone", !.by = None, !.line = {}]
    BY <1>1 DEF KeysGone
  <2>2. keys[k] \in Credential
    BY <1>4
  <2>3. keys'[k] \in Credential /\ keys'[k].is = "gone" /\ keys'[k].by = None
        /\ keys'[k].line = {} /\ keys'[k].owner = keys[k].owner
    BY <2>1, <2>2 DEF Credential
  <2> QED
    BY <2>3 DEF Lineage
<1>6. ASSUME NEW k \in KeyIds \ made
      PROVE  keys'[k] = keys[k] /\ Lineage(tokens', keys[k])
  <2>1. keys'[k] = keys[k] /\ keys[k] \in Credential /\ Lineage(tokens, keys[k])
    BY <1>1, <1>4 DEF KeysGone
  <2>2. keys[k].by \notin chain
    <3>1. CASE InTable(keys[k])
      BY <3>1
    <3>2. CASE ~InTable(keys[k])
      BY <1>2, <3>2, CredentialAssumption DEF RowsInv, RowsAreOwned
    <3> QED
      BY <3>1, <3>2
  <2>3. ASSUME NEW y \in keys[k].line, y \in chain PROVE FALSE
    <3>1. keys[k].by # None
      BY <2>1, <2>3 DEF Lineage
    <3>2. keys[k].line = {keys[k].by} \cup tokens[keys[k].by].line
      BY <2>1, <3>1 DEF Lineage
    <3>3. keys[k].by \in TokenIds /\ InTable(tokens[keys[k].by])
      BY <2>1, <3>1, <3>2 DEF Lineage, Credential
    <3>4. y = t \/ t \in tokens[y].line
      BY <2>3 DEF Chain
    <3>5. t \in keys[k].line
      BY <2>1, <2>3, <3>4 DEF Lineage
    <3>6. keys[k].by = t \/ t \in tokens[keys[k].by].line
      BY <3>2, <3>5
    <3> QED
      BY <2>2, <3>3, <3>6 DEF Chain
  <2>4. Lost(tokens, keys[k], chain) = {}
    BY <2>3, LostIs
  <2>5. /\ keys[k].by = (IF keys[k].by \in chain THEN None ELSE keys[k].by)
        /\ keys[k].line = keys[k].line \ Lost(tokens, keys[k], chain)
    BY <2>2, <2>4
  <2>6. Lineage(TokensGone(chain), keys[k])
    BY <1>2, <2>1, <2>5, TokensLeft
  <2> QED
    BY <1>1, <2>1, <2>6
<1>7. keys' \in [KeyIds -> Credential]
  <2>1. keys' = [k \in KeyIds |-> keys'[k]]
    BY <1>1 DEF KeysGone
  <2>2. \A k \in KeyIds : keys'[k] \in Credential
    BY <1>4, <1>5, <1>6
  <2> QED
    BY <2>1, <2>2
<1>8. LinesOfDescent'
  BY <1>3, <1>5, <1>6 DEF LinesOfDescent
<1>9. cleared' \subseteq TokenIds /\ ClearedAreGone'
  BY <1>1, <1>2, <1>3 DEF RowsInv, ClearedAreGone
<1>10. RowsAreOwned'
  <2>1. \A c \in TokenIds : InTable(tokens'[c]) => tokens'[c].owner \in Holders
    BY <1>3 DEF RowsInv, RowsAreOwned, InTable
  <2>2. \A k \in KeyIds :
          /\ keys'[k].is # "none" => keys'[k].owner \in Holders
          /\ ~InTable(keys'[k]) => keys'[k].by = None
    <3>1. \A k \in KeyIds : keys[k].is # "none" => keys[k].owner \in Holders
      BY DEF RowsInv, RowsAreOwned
    <3>2. \A k \in made : keys[k].is # "none"
      BY DEF InTable
    <3> QED
      BY <1>5, <1>6, <3>1, <3>2 DEF RowsInv, RowsAreOwned
  <2> QED
    BY <2>1, <2>2 DEF RowsAreOwned
<1>11. KeysOnlyAge
  BY <1>5, <1>6 DEF KeysOnlyAge
<1> QED
  BY <1>3, <1>7, <1>8, <1>9, <1>10, <1>11 DEF RowsInv

-----------------------------------------------------------------------------
(* Rows made *)

\* The row of what is made now, by a token that is in the table or by none.
LEMMA MadeIs ==
    ASSUME RowsInv, NEW u \in Holders, NEW t \in TokenIds \cup {None}, Parent(t),
           NEW expires \in BOOLEAN
    PROVE  LET d == Made(u, t, expires)
           IN  /\ d \in Credential /\ d.is = "live" /\ d.owner = u
               /\ d.line \subseteq {x \in TokenIds : InTable(tokens[x])}
               /\ Lineage(tokens, d)
<1> DEFINE line == IF t = None THEN {} ELSE {t} \cup tokens[t].line
           d == Made(u, t, expires)
<1>1. d = [is |-> "live", owner |-> u, by |-> t, expires |-> expires, line |-> line]
  BY DEF Made
<1>2. ASSUME t # None
      PROVE  t \in TokenIds /\ InTable(tokens[t]) /\ Lineage(tokens, tokens[t])
             /\ tokens[t] \in Credential
  BY <1>2 DEF Parent, RowsInv, LinesOfDescent, TokensDescend
<1>3. line \in SUBSET TokenIds
  BY <1>2 DEF Credential
<1>4. d \in Credential /\ d.is = "live" /\ d.owner = u /\ d.by = t /\ d.line = line
  <2> HIDE DEF line, d
  <2> QED
    BY <1>1, <1>3 DEF Credential
<1>5. Lineage(tokens, d)
  <2>1. CASE t = None
    BY <1>4, <2>1 DEF Lineage
  <2>2. CASE t # None
    <3>1. d.by = t /\ d.line = {t} \cup tokens[t].line
      BY <1>4, <2>2
    <3> QED
      BY <1>2, <2>2, <3>1 DEF Lineage
  <2> QED
    BY <2>1, <2>2
<1>6. \A x \in d.line : x \in TokenIds /\ InTable(tokens[x])
  BY <1>3, <1>4, <1>5 DEF Lineage
<1> QED
  BY <1>4, <1>5, <1>6

\* What is in the table is as it was: every line is.
LEMMA LineageStays ==
    ASSUME NEW table, NEW new, NEW c \in Credential, Lineage(table, c),
           \A t \in TokenIds : InTable(table[t]) => new[t] = table[t]
    PROVE  Lineage(new, c)
<1>1. \A y \in c.line : y \in TokenIds /\ InTable(table[y]) /\ new[y] = table[y]
  BY DEF Credential, Lineage
<1>2. c.by # None => c.by \in c.line
  BY DEF Lineage
<1>3. c.by # None => new[c.by] = table[c.by]
  BY <1>1, <1>2
<1> QED
  BY <1>1, <1>3 DEF Lineage

LEMMA TokenMintKeeps ==
    ASSUME RowsInv, NEW u \in Holders, NEW t \in TokenIds \cup {None},
           CreateAPIToken(u, t), cleared' = cleared
    PROVE  RowsInv' /\ KeysOnlyAge
<1>1. PICK new \in Fresh(tokens) : /\ Parent(t) /\ keys' = keys
                                   /\ tokens' = [tokens EXCEPT ![new] = Made(u, t, FALSE)]
  BY DEF CreateAPIToken
<1>2. /\ keys \in [KeyIds -> Credential] /\ tokens \in [TokenIds -> Credential]
      /\ TokensDescend(tokens) /\ \A k \in KeyIds : Lineage(tokens, keys[k])
  BY DEF RowsInv, LinesOfDescent
<1>3. new \in TokenIds /\ tokens[new].is = "none"
  BY <1>2 DEF Fresh
<1>4. /\ Made(u, t, FALSE) \in Credential /\ Made(u, t, FALSE).owner = u
      /\ Made(u, t, FALSE).line \subseteq {x \in TokenIds : InTable(tokens[x])}
      /\ Lineage(tokens, Made(u, t, FALSE))
  <2>1. FALSE \in BOOLEAN
    OBVIOUS
  <2> QED
    BY <1>1, <2>1, MadeIs
<1>5. /\ tokens' \in [TokenIds -> Credential] /\ tokens'[new] = Made(u, t, FALSE)
      /\ \A x \in TokenIds : x # new => tokens'[x] = tokens[x]
  BY <1>1, <1>2, <1>3, <1>4
<1>6. \A x \in TokenIds : InTable(tokens[x]) => tokens'[x] = tokens[x]
  BY <1>3, <1>5 DEF InTable
<1>7. \A c \in Credential : Lineage(tokens, c) => Lineage(tokens', c)
  BY <1>6, LineageStays
<1>8. ASSUME NEW x \in TokenIds
      PROVE  Lineage(tokens', tokens'[x]) /\ x \notin tokens'[x].line
  <2>1. CASE x = new
    BY <1>3, <1>4, <1>5, <1>7, <2>1 DEF InTable
  <2>2. CASE x # new
    BY <1>2, <1>5, <1>7, <2>2 DEF TokensDescend
  <2> QED
    BY <2>1, <2>2
<1>9. LinesOfDescent'
  <2>1. \A k \in KeyIds : Lineage(tokens', keys'[k])
    BY <1>1, <1>2, <1>7
  <2> QED
    BY <1>8, <2>1 DEF LinesOfDescent, TokensDescend
<1>10. ClearedAreGone'
  BY <1>3, <1>5 DEF RowsInv, ClearedAreGone
<1>11. RowsAreOwned'
  BY <1>1, <1>4, <1>5 DEF RowsInv, RowsAreOwned
<1> QED
  BY <1>1, <1>2, <1>5, <1>9, <1>10, <1>11 DEF RowsInv, KeysOnlyAge

LEMMA KeyMintKeeps ==
    ASSUME RowsInv, NEW u \in Holders, NEW t \in TokenIds \cup {None},
           AddSSHKeyFrom(u, t), cleared' = cleared
    PROVE  RowsInv' /\ KeysOnlyAge
<1>1. PICK new \in Fresh(keys), expires \in BOOLEAN :
        /\ Parent(t) /\ tokens' = tokens
        /\ keys' = [keys EXCEPT ![new] = Made(u, t, expires)]
  BY DEF AddSSHKeyFrom
<1>2. /\ keys \in [KeyIds -> Credential] /\ tokens \in [TokenIds -> Credential]
      /\ TokensDescend(tokens) /\ \A k \in KeyIds : Lineage(tokens, keys[k])
  BY DEF RowsInv, LinesOfDescent
<1>3. new \in KeyIds /\ keys[new].is = "none"
  BY <1>2 DEF Fresh
<1>4. /\ Made(u, t, expires) \in Credential /\ Made(u, t, expires).owner = u
      /\ Made(u, t, expires).is = "live"
      /\ Lineage(tokens, Made(u, t, expires))
  BY <1>1, MadeIs
<1>5. /\ keys' \in [KeyIds -> Credential] /\ keys'[new] = Made(u, t, expires)
      /\ \A k \in KeyIds : k # new => keys'[k] = keys[k]
  BY <1>1, <1>2, <1>3, <1>4
<1>6. LinesOfDescent'
  <2>1. \A k \in KeyIds : Lineage(tokens, keys'[k])
    BY <1>2, <1>4, <1>5
  <2> QED
    BY <1>1, <1>2, <2>1 DEF LinesOfDescent
<1>7. ClearedAreGone' /\ cleared' \subseteq TokenIds
  BY <1>1 DEF RowsInv, ClearedAreGone
<1>8. RowsAreOwned'
  <2>1. ASSUME NEW k \in KeyIds
        PROVE  /\ keys'[k].is # "none" => keys'[k].owner \in Holders
               /\ ~InTable(keys'[k]) => keys'[k].by = None
    BY <1>4, <1>5 DEF RowsInv, RowsAreOwned, InTable
  <2> QED
    BY <1>1, <2>1 DEF RowsInv, RowsAreOwned
<1>9. KeysOnlyAge
  BY <1>3, <1>5 DEF KeysOnlyAge
<1> QED
  BY <1>1, <1>2, <1>5, <1>6, <1>7, <1>8, <1>9 DEF RowsInv

-----------------------------------------------------------------------------
(* Keys that end *)

LEMMA RemoveKeyKeeps ==
    ASSUME RowsInv, NEW k \in KeyIds, RemoveKey(k)
    PROVE  RowsInv' /\ KeysOnlyAge
<1> DEFINE gone == [keys[k] EXCEPT !.is = "gone", !.by = None, !.line = {}]
<1>1. InTable(keys[k]) /\ tokens' = tokens /\ cleared' = cleared /\ keys' = KeysGone({k})
  BY DEF RemoveKey
<1>2. /\ keys \in [KeyIds -> Credential] /\ tokens \in [TokenIds -> Credential]
      /\ TokensDescend(tokens) /\ \A j \in KeyIds : Lineage(tokens, keys[j])
  BY DEF RowsInv, LinesOfDescent
<1>3. keys[k] \in Credential
  BY <1>2
<1>4. gone \in Credential /\ gone.is = "gone" /\ gone.by = None /\ gone.line = {}
      /\ gone.owner = keys[k].owner
  BY <1>3 DEF Credential
<1>5. /\ keys'[k] = gone
      /\ \A j \in KeyIds : j # k => keys'[j] = keys[j]
      /\ keys' = [j \in KeyIds |-> keys'[j]]
  BY <1>1 DEF KeysGone
<1> HIDE DEF gone
<1>6. keys' \in [KeyIds -> Credential]
  <2>1. \A j \in KeyIds : keys'[j] \in Credential
    BY <1>2, <1>4, <1>5
  <2> QED
    BY <1>5, <2>1
<1>7. LinesOfDescent'
  <2>1. \A j \in KeyIds : Lineage(tokens, keys'[j])
    BY <1>2, <1>4, <1>5 DEF Lineage
  <2> QED
    BY <1>1, <1>2, <2>1 DEF LinesOfDescent
<1>8. RowsAreOwned'
  <2>1. keys[k].is # "none" /\ keys[k].owner \in Holders
    BY <1>1 DEF RowsInv, RowsAreOwned, InTable
  <2>2. ASSUME NEW j \in KeyIds
        PROVE  /\ keys'[j].is # "none" => keys'[j].owner \in Holders
               /\ ~InTable(keys'[j]) => keys'[j].by = None
    BY <1>4, <1>5, <2>1 DEF RowsInv, RowsAreOwned
  <2> QED
    BY <1>1, <2>2 DEF RowsInv, RowsAreOwned
<1>9. KeysOnlyAge
  BY <1>4, <1>5 DEF KeysOnlyAge
<1> QED
  BY <1>1, <1>6, <1>7, <1>8, <1>9 DEF RowsInv, ClearedAreGone

LEMMA KeyExpiresKeeps ==
    ASSUME RowsInv, NEW k \in KeyIds, KeyExpires(k)
    PROVE  RowsInv' /\ KeysOnlyAge
<1> DEFINE old == [keys[k] EXCEPT !.is = "expired"]
<1>1. /\ keys[k].is = "live" /\ tokens' = tokens /\ cleared' = cleared
      /\ keys' = [keys EXCEPT ![k].is = "expired"]
  BY DEF KeyExpires
<1>2. /\ keys \in [KeyIds -> Credential] /\ tokens \in [TokenIds -> Credential]
      /\ TokensDescend(tokens) /\ \A j \in KeyIds : Lineage(tokens, keys[j])
  BY DEF RowsInv, LinesOfDescent
<1>3. keys[k] \in Credential
  BY <1>2
<1>4. old \in Credential /\ old.is = "expired" /\ old.by = keys[k].by
      /\ old.line = keys[k].line /\ old.owner = keys[k].owner
  BY <1>3 DEF Credential
<1>5. keys'[k] = old /\ \A j \in KeyIds : j # k => keys'[j] = keys[j]
  BY <1>1, <1>2
<1>6. keys' = [keys EXCEPT ![k] = old]
  BY <1>1
<1> HIDE DEF old
<1>7. keys' \in [KeyIds -> Credential]
  BY <1>2, <1>4, <1>6
<1>8. LinesOfDescent'
  <2>1. Lineage(tokens, old)
    BY <1>2, <1>4 DEF Lineage
  <2>2. \A j \in KeyIds : Lineage(tokens, keys'[j])
    BY <1>2, <1>5, <2>1
  <2> QED
    BY <1>1, <1>2, <2>2 DEF LinesOfDescent
<1>9. RowsAreOwned'
  <2>1. keys[k].owner \in Holders
    BY <1>1 DEF RowsInv, RowsAreOwned
  <2>2. ASSUME NEW j \in KeyIds
        PROVE  /\ keys'[j].is # "none" => keys'[j].owner \in Holders
               /\ ~InTable(keys'[j]) => keys'[j].by = None
    BY <1>4, <1>5, <2>1 DEF RowsInv, RowsAreOwned, InTable
  <2> QED
    BY <1>1, <2>2 DEF RowsInv, RowsAreOwned
<1>10. KeysOnlyAge
  BY <1>4, <1>5 DEF KeysOnlyAge
<1> QED
  BY <1>1, <1>7, <1>8, <1>9, <1>10 DEF RowsInv, ClearedAreGone

-----------------------------------------------------------------------------
(* The steps that make and end rows *)

LEMMA TokenRowsStay ==
    ASSUME RowsInv, UNCHANGED <<keys, tokens, cleared>>
    PROVE  RowsInv' /\ KeysOnlyAge
BY DEF RowsInv, LinesOfDescent, TokensDescend, Lineage, ClearedAreGone, RowsAreOwned,
       InTable, KeysOnlyAge

LEMMA ConnsStay ==
    ASSUME ConnsHaveKeys, KeysOnlyAge, conns' = conns
    PROVE  ConnsHaveKeys'
<1> SUFFICES ASSUME NEW c \in Conns
             PROVE  /\ conns[c].at \in {"handshake", "open"} =>
                          conns[c].key \in KeyIds /\ keys'[conns[c].key].is # "none"
                    /\ conns[c].running => conns[c].at = "open"
  BY DEF ConnsHaveKeys
<1> QED
  BY DEF ConnsHaveKeys, KeysOnlyAge

LEMMA EndCounts ==
    ASSUME RestTypeOK, End
    PROVE  ends' \in 0..MaxEnds
BY CredentialAssumption DEF RestTypeOK, End

\* Who a connection acts for.
LEMMA CommandsAreOwned ==
    ASSUME RowsInv, ConnsHaveKeys, NEW c \in Conns, conns[c].running
    PROVE  keys[conns[c].key].owner \in Holders
BY DEF RowsInv, RowsAreOwned, ConnsHaveKeys

LEMMA ApiMintStep ==
    ASSUME CredentialInv, ApiMint
    PROVE  CredentialInv'
<1>1. /\ apiCall.who \in Holders /\ apiCall.tok \in TokenIds \cup {None}
      /\ apiCall' = IdleCall /\ cleared' = cleared
      /\ UNCHANGED <<links, sessions, barred, conns, notices, login, barring,
                     sweeper, ends>>
  BY DEF ApiMint, CredentialInv, CallsAreOwned
<1>2. RowsInv' /\ KeysOnlyAge
  <2>1. CASE CreateAPIToken(apiCall.who, apiCall.tok)
    BY <1>1, <2>1, TokenMintKeeps DEF CredentialInv
  <2>2. CASE AddSSHKeyFrom(apiCall.who, apiCall.tok)
    BY <1>1, <2>2, KeyMintKeeps DEF CredentialInv
  <2>3. CASE UNCHANGED <<keys, tokens>>
    BY <1>1, <2>3, TokenRowsStay DEF CredentialInv
  <2> QED
    BY <2>1, <2>2, <2>3 DEF ApiMint
<1>3. RestTypeOK'
  BY <1>1 DEF CredentialInv, RestTypeOK, IdleCall, ApiCall
<1>4. ConnsHaveKeys'
  BY <1>1, <1>2, ConnsStay DEF CredentialInv
<1>5. CallsAreOwned' /\ SuspendedAreCleared'
  BY <1>1 DEF CredentialInv, CallsAreOwned, SuspendedAreCleared, IdleCall
<1> QED
  BY <1>2, <1>3, <1>4, <1>5 DEF CredentialInv

LEMMA RevocationStep ==
    ASSUME CredentialInv, NEW t \in TokenIds, RevokeToken(t) \/ RevokeChain(t)
    PROVE  CredentialInv'
<1>1. UNCHANGED <<links, sessions, barred, conns, login, apiCall, barring, sweeper>>
      /\ End
  BY DEF RevokeToken, RevokeChain
<1>2. RowsInv' /\ KeysOnlyAge
  <2>1. CASE RevokeToken(t)
    <3>1. /\ {t} \in SUBSET {x \in TokenIds : InTable(tokens[x])}
          /\ tokens' = TokensGone({t}) /\ keys' = Unlinked(keys, {t}) /\ cleared' = cleared
      BY <2>1 DEF RevokeToken
    <3> QED
      BY <3>1, UnlinkKeeps DEF CredentialInv
  <2>2. CASE RevokeChain(t)
    BY <2>2, RevokeChainKeeps DEF CredentialInv
  <2> QED
    BY <2>1, <2>2
<1>3. notices' \subseteq Notice
  <2>1. CASE RevokeToken(t)
    BY <2>1 DEF RevokeToken, CredentialInv, RestTypeOK
  <2>2. CASE RevokeChain(t)
    <3> DEFINE made == {k \in KeyIds : InTable(keys[k]) /\ keys[k].by \in Chain(t)}
    <3>1. notices' = notices \cup {[ids |-> made, who |-> None]} /\ made \in SUBSET KeyIds
      BY <2>2 DEF RevokeChain
    <3> HIDE DEF made
    <3> QED
      BY <3>1 DEF CredentialInv, RestTypeOK, Notice
  <2> QED
    BY <2>1, <2>2
<1>4. RestTypeOK'
  BY <1>1, <1>3, EndCounts DEF CredentialInv, RestTypeOK
<1>5. ConnsHaveKeys'
  BY <1>1, <1>2, ConnsStay DEF CredentialInv
<1>6. CallsAreOwned' /\ SuspendedAreCleared'
  BY <1>1 DEF CredentialInv, CallsAreOwned, SuspendedAreCleared
<1> QED
  BY <1>2, <1>4, <1>5, <1>6 DEF CredentialInv

LEMMA KeyEndsStep ==
    ASSUME CredentialInv, NEW k \in KeyIds, RemoveKey(k) \/ KeyExpires(k)
    PROVE  CredentialInv'
<1>1. UNCHANGED <<links, sessions, barred, conns, login, apiCall, barring, sweeper>>
  BY DEF RemoveKey, KeyExpires
<1>2. RowsInv' /\ KeysOnlyAge
  BY RemoveKeyKeeps, KeyExpiresKeeps DEF CredentialInv
<1>3. notices' \subseteq Notice /\ ends' \in 0..MaxEnds
  <2>1. CASE RemoveKey(k)
    BY <2>1, EndCounts DEF RemoveKey, CredentialInv, RestTypeOK, Notice
  <2>2. CASE KeyExpires(k)
    BY <2>2 DEF KeyExpires, CredentialInv, RestTypeOK
  <2> QED
    BY <2>1, <2>2
<1>4. RestTypeOK'
  BY <1>1, <1>3 DEF CredentialInv, RestTypeOK
<1>5. ConnsHaveKeys'
  BY <1>1, <1>2, ConnsStay DEF CredentialInv
<1>6. CallsAreOwned' /\ SuspendedAreCleared'
  BY <1>1 DEF CredentialInv, CallsAreOwned, SuspendedAreCleared
<1> QED
  BY <1>2, <1>4, <1>5, <1>6 DEF CredentialInv

LEMMA CommandMintsStep ==
    ASSUME CredentialInv, NEW c \in Conns, CommandMints(c)
    PROVE  CredentialInv'
<1> DEFINE u == keys[conns[c].key].owner
<1>1. /\ conns[c].running /\ conns' = [conns EXCEPT ![c].running = FALSE]
      /\ UNCHANGED <<sessions, barred, notices, login, apiCall, barring, sweeper,
                     cleared, ends>>
  BY DEF CommandMints
<1>2. u \in Holders /\ None \in TokenIds \cup {None}
  BY <1>1, CommandsAreOwned DEF CredentialInv
<1>3. RowsInv' /\ KeysOnlyAge
  <2>1. CASE CreateAPIToken(u, None)
    BY <1>1, <1>2, <2>1, TokenMintKeeps DEF CredentialInv
  <2>2. CASE AddSSHKeyFrom(u, None)
    BY <1>1, <1>2, <2>2, KeyMintKeeps DEF CredentialInv
  <2>3. CASE UNCHANGED <<keys, tokens>>
    BY <1>1, <2>3, TokenRowsStay DEF CredentialInv
  <2> QED
    BY <2>1, <2>2, <2>3 DEF CommandMints
<1>4. links' \subseteq Holders
  BY <1>2 DEF CommandMints, AskLink, CredentialInv, RestTypeOK
<1>5. conns \in [Conns -> Conn] /\ conns[c] \in Conn
  BY DEF CredentialInv, RestTypeOK
<1>6. /\ conns'[c].at = conns[c].at /\ conns'[c].key = conns[c].key
      /\ conns'[c].running = FALSE /\ conns'[c] \in Conn
      /\ \A d \in Conns : d # c => conns'[d] = conns[d]
  BY <1>1, <1>5 DEF Conn
<1>7. conns' \in [Conns -> Conn]
  <2>1. conns' = [d \in Conns |-> conns'[d]]
    BY <1>1, <1>5
  <2>2. \A d \in Conns : conns'[d] \in Conn
    BY <1>5, <1>6
  <2> QED
    BY <2>1, <2>2
<1>8. RestTypeOK'
  BY <1>1, <1>4, <1>7 DEF CredentialInv, RestTypeOK
<1>9. ConnsHaveKeys'
  <2> SUFFICES ASSUME NEW d \in Conns
               PROVE  /\ conns'[d].at \in {"handshake", "open"} =>
                            conns'[d].key \in KeyIds /\ keys'[conns'[d].key].is # "none"
                      /\ conns'[d].running => conns'[d].at = "open"
    BY DEF ConnsHaveKeys
  <2> QED
    BY <1>3, <1>6 DEF CredentialInv, ConnsHaveKeys, KeysOnlyAge
<1>10. CallsAreOwned' /\ SuspendedAreCleared'
  BY <1>1 DEF CredentialInv, CallsAreOwned, SuspendedAreCleared
<1> QED
  BY <1>3, <1>8, <1>9, <1>10 DEF CredentialInv

-----------------------------------------------------------------------------
(* The steps of logins, sessions and suspensions *)

LEMMA LoginStep ==
    ASSUME CredentialInv,
           \/ \E t \in TokenIds : ApiAuth(t)
           \/ \E u \in Holders : RequestLoginLink(u) \/ ConsumeLoginToken(u)
    PROVE  CredentialInv'
<1>1. UNCHANGED <<keys, tokens, cleared, sessions, barred, conns, notices, barring,
                  sweeper, ends>>
  BY DEF ApiAuth, RequestLoginLink, ConsumeLoginToken
<1>2. RowsInv' /\ KeysOnlyAge
  BY <1>1, TokenRowsStay DEF CredentialInv
<1>3. links' \subseteq Holders
  BY DEF ApiAuth, RequestLoginLink, ConsumeLoginToken, AskLink, CredentialInv, RestTypeOK
<1>4. login' \in Login /\ (login'.at = "create" => login'.who \in Holders)
  <2>1. CASE \E u \in Holders : ConsumeLoginToken(u)
    BY <2>1 DEF ConsumeLoginToken, Login, Idle
  <2>2. CASE login' = login
    BY <2>2 DEF CredentialInv, RestTypeOK, CallsAreOwned
  <2> QED
    BY <2>1, <2>2 DEF ApiAuth, RequestLoginLink
<1>5. apiCall' \in ApiCall
      /\ (apiCall'.at = "mint" => apiCall'.who \in Holders /\ apiCall'.tok \in TokenIds)
  <2>1. ASSUME NEW t \in TokenIds, ApiAuth(t)
        PROVE  /\ apiCall' = [at |-> "mint", tok |-> t, who |-> tokens[t].owner]
               /\ tokens[t].owner \in Holders
    BY <2>1 DEF ApiAuth, CredentialInv, RowsInv, RowsAreOwned, InTable
  <2>2. CASE \E t \in TokenIds : ApiAuth(t)
    BY <2>1, <2>2 DEF ApiCall
  <2>3. CASE apiCall' = apiCall
    BY <2>3 DEF CredentialInv, RestTypeOK, CallsAreOwned
  <2> QED
    BY <2>2, <2>3 DEF RequestLoginLink, ConsumeLoginToken
<1>6. RestTypeOK'
  BY <1>1, <1>3, <1>4, <1>5 DEF CredentialInv, RestTypeOK
<1>7. ConnsHaveKeys'
  BY <1>1, <1>2, ConnsStay DEF CredentialInv
<1>8. CallsAreOwned' /\ SuspendedAreCleared'
  BY <1>1, <1>4, <1>5 DEF CredentialInv, CallsAreOwned, SuspendedAreCleared
<1> QED
  BY <1>2, <1>6, <1>7, <1>8 DEF CredentialInv

\* A session of an account that is suspended by now is marked as late.
LEMMA SessionStep ==
    ASSUME CredentialInv, CreateWebSession \/ \E s \in SessionIds : SessionEnds(s)
    PROVE  CredentialInv'
<1>1. UNCHANGED <<keys, tokens, cleared, links, barred, conns, notices, apiCall,
                  barring, sweeper, ends>>
  BY DEF CreateWebSession, SessionEnds
<1>2. RowsInv' /\ KeysOnlyAge
  BY <1>1, TokenRowsStay DEF CredentialInv
<1>3. PICK s \in SessionIds, new \in Session :
        /\ sessions' = [sessions EXCEPT ![s] = new]
        /\ new.owner \in barred => new.late
  <2>1. CASE CreateWebSession
    <3> DEFINE late == login.who \in barred
               new == [owner |-> login.who, late |-> late]
    <3>1. PICK s \in SessionIds : sessions' = [sessions EXCEPT ![s] = new]
      BY <2>1 DEF CreateWebSession
    <3>2. late \in BOOLEAN /\ login.who \in Holders
      BY <2>1 DEF CreateWebSession, CredentialInv, CallsAreOwned
    <3>3. new.owner = login.who /\ new.late = late /\ (login.who \in barred => late)
      OBVIOUS
    <3> HIDE DEF late
    <3>4. new \in Session
      BY <3>2 DEF Session
    <3> QED
      BY <3>1, <3>3, <3>4
  <2>2. CASE \E s \in SessionIds : SessionEnds(s)
    <3>1. EndedSession \in Session /\ EndedSession.late
      BY DEF EndedSession, Session
    <3>2. \E s \in SessionIds : sessions' = [sessions EXCEPT ![s] = EndedSession]
      BY <2>2 DEF SessionEnds
    <3> QED
      BY <3>1, <3>2
  <2> QED
    BY <2>1, <2>2
<1>4. sessions' \in [SessionIds -> Session] /\ sessions'[s] = new
      /\ \A r \in SessionIds : r # s => sessions'[r] = sessions[r]
  BY <1>3 DEF CredentialInv, RestTypeOK
<1>5. login' = Idle \/ login' = login
  BY DEF CreateWebSession, SessionEnds
<1>6. login' \in Login /\ (login'.at = "create" => login'.who \in Holders)
  BY <1>5 DEF CredentialInv, RestTypeOK, CallsAreOwned, Idle, Login
<1>7. RestTypeOK'
  BY <1>1, <1>4, <1>6 DEF CredentialInv, RestTypeOK
<1>8. ConnsHaveKeys'
  BY <1>1, <1>2, ConnsStay DEF CredentialInv
<1>9. SuspendedAreCleared'
  <2> SUFFICES ASSUME NEW r \in SessionIds, sessions'[r].owner \in barred
               PROVE  \/ sessions'[r].late
                      \/ barring.at = "sessions" /\ barring.who = sessions'[r].owner
    BY <1>1 DEF SuspendedAreCleared
  <2>1. CASE r = s
    BY <1>3, <1>4, <2>1
  <2>2. CASE r # s
    BY <1>4, <2>2 DEF CredentialInv, SuspendedAreCleared
  <2> QED
    BY <2>1, <2>2
<1>10. CallsAreOwned'
  BY <1>1, <1>6 DEF CredentialInv, CallsAreOwned
<1> QED
  BY <1>2, <1>7, <1>8, <1>9, <1>10 DEF CredentialInv

LEMMA BarTurnsStep ==
    ASSUME CredentialInv, NEW u \in Holders, Bar(u, TRUE) \/ Bar(u, FALSE) \/ Unbar(u)
    PROVE  CredentialInv'
<1>1. UNCHANGED <<keys, tokens, cleared, links, sessions, conns, notices, login,
                  apiCall, sweeper>>
  BY DEF Bar, Unbar
<1>2. RowsInv' /\ KeysOnlyAge
  BY <1>1, TokenRowsStay DEF CredentialInv
<1>3. ends' \in 0..MaxEnds
  BY EndCounts DEF Bar, Unbar, CredentialInv, RestTypeOK
<1>4. barred' \subseteq Holders /\ barring = IdleBarring
  BY DEF Bar, Unbar, CredentialInv, RestTypeOK
<1>5. barring' \in Barring
      /\ \/ barring' = IdleBarring /\ barred' \subseteq barred
         \/ barring'.at = "sessions" /\ barring'.who = u /\ barred' = barred \cup {u}
  <2>1. ASSUME NEW h \in BOOLEAN, Bar(u, h)
        PROVE  /\ barring' = [at |-> "sessions", who |-> u, onHost |-> h]
               /\ barred' = barred \cup {u}
    BY <2>1 DEF Bar, BarOrder
  <2>2. CASE Bar(u, TRUE) \/ Bar(u, FALSE)
    <3>1. PICK h \in BOOLEAN : Bar(u, h)
      BY <2>2
    <3>2. barring' = [at |-> "sessions", who |-> u, onHost |-> h] /\ barred' = barred \cup {u}
      BY <2>1, <3>1
    <3> QED
      BY <3>2 DEF Barring
  <2>3. CASE Unbar(u)
    BY <1>4, <2>3 DEF Unbar, CredentialInv, RestTypeOK
  <2> QED
    BY <2>2, <2>3
<1>6. RestTypeOK'
  BY <1>1, <1>3, <1>4, <1>5 DEF CredentialInv, RestTypeOK
<1>7. ConnsHaveKeys'
  BY <1>1, <1>2, ConnsStay DEF CredentialInv
<1>8. SuspendedAreCleared'
  <2> SUFFICES ASSUME NEW s \in SessionIds, sessions[s].owner \in barred'
               PROVE  \/ sessions[s].late
                      \/ barring'.at = "sessions" /\ barring'.who = sessions[s].owner
    BY <1>1 DEF SuspendedAreCleared
  <2>1. CASE sessions[s].owner \in barred
    BY <1>4, <2>1 DEF CredentialInv, SuspendedAreCleared, IdleBarring
  <2>2. CASE sessions[s].owner \notin barred
    BY <1>5, <2>2
  <2> QED
    BY <2>1, <2>2
<1>9. CallsAreOwned'
  BY <1>1 DEF CredentialInv, CallsAreOwned
<1> QED
  BY <1>2, <1>6, <1>7, <1>8, <1>9 DEF CredentialInv

\* The statement that clears the sessions leaves none of the account's.
LEMMA BarStepStep ==
    ASSUME CredentialInv, BarStep
    PROVE  CredentialInv'
<1> DEFINE u == barring.who
           S == {t \in TokenIds : InTable(tokens[t]) /\ tokens[t].owner = u}
<1>1. UNCHANGED <<cleared, barred, conns, login, apiCall, sweeper, ends>>
      /\ barring.at # "idle"
  BY DEF BarStep
<1>2. RowsInv' /\ KeysOnlyAge
  <2>1. CASE barring.at = "tokens"
    <3>1. tokens' = TokensGone(S) /\ keys' = Unlinked(keys, S)
      BY <2>1 DEF BarStep
    <3> QED
      BY <1>1, <3>1, UnlinkKeeps DEF CredentialInv
  <2>2. CASE barring.at # "tokens"
    <3>1. UNCHANGED <<keys, tokens>>
      BY <2>2 DEF BarStep
    <3> QED
      BY <1>1, <3>1, TokenRowsStay DEF CredentialInv
  <2> QED
    BY <2>1, <2>2
<1>3. u \in Holders \cup {None} /\ barring \in Barring
  BY DEF CredentialInv, RestTypeOK, Barring
<1>4. barring' \in Barring /\ barring'.at # "sessions"
  <2>1. BarOrder[barring.at] \in {"tokens", "links", "announce", "idle"}
    BY <1>1, <1>3 DEF BarOrder, Barring
  <2>2. CASE BarOrder[barring.at] = "idle"
    BY <2>2 DEF BarStep, IdleBarring, Barring
  <2>3. CASE BarOrder[barring.at] # "idle"
    <3>1. barring' = [barring EXCEPT !.at = BarOrder[barring.at]]
      BY <2>3 DEF BarStep
    <3> QED
      BY <1>3, <2>1, <3>1 DEF Barring
  <2> QED
    BY <2>2, <2>3
<1>5. sessions' \in [SessionIds -> Session]
      /\ \A s \in SessionIds :
            \/ sessions'[s] = sessions[s] /\ (barring.at = "sessions" => sessions[s].owner # u)
            \/ sessions'[s] = EndedSession
  <2>1. sessions \in [SessionIds -> Session] /\ EndedSession \in Session
    BY DEF CredentialInv, RestTypeOK, EndedSession, Session
  <2>2. sessions' = IF barring.at # "sessions" THEN sessions
                    ELSE [s \in SessionIds |-> IF sessions[s].owner = u
                            THEN EndedSession ELSE sessions[s]]
    BY DEF BarStep
  <2> QED
    BY <2>1, <2>2
<1>6. links' \subseteq Holders
  BY DEF BarStep, CredentialInv, RestTypeOK
<1>7. notices' \subseteq Notice
  <2>1. \/ notices' = notices
        \/ notices' = notices \cup {[ids |-> {}, who |-> u]}
    BY DEF BarStep
  <2> HIDE DEF u
  <2> QED
    BY <1>3, <2>1 DEF CredentialInv, RestTypeOK, Notice
<1>8. RestTypeOK'
  BY <1>1, <1>4, <1>5, <1>6, <1>7 DEF CredentialInv, RestTypeOK
<1>9. ConnsHaveKeys'
  BY <1>1, <1>2, ConnsStay DEF CredentialInv
<1>10. SuspendedAreCleared'
  <2> SUFFICES ASSUME NEW s \in SessionIds, sessions'[s].owner \in barred
               PROVE  sessions'[s].late
    BY <1>1 DEF SuspendedAreCleared
  <2>1. CASE sessions'[s] = EndedSession
    BY <2>1 DEF EndedSession
  <2>2. CASE sessions'[s] = sessions[s] /\ (barring.at = "sessions" => sessions[s].owner # u)
    BY <2>2 DEF CredentialInv, SuspendedAreCleared
  <2> QED
    BY <1>5, <2>1, <2>2
<1>11. CallsAreOwned'
  BY <1>1 DEF CredentialInv, CallsAreOwned
<1> QED
  BY <1>2, <1>8, <1>9, <1>10, <1>11 DEF CredentialInv

-----------------------------------------------------------------------------
(* The steps of the listener *)

\* What stays when a step is about connections only.
OnlyConns ==
    UNCHANGED <<keys, tokens, links, sessions, barred, login, apiCall, barring,
                cleared, ends>>

\* A connection that takes a step: its key is one that was used.
LEMMA ConnStep ==
    ASSUME CredentialInv, NEW c \in Conns,
           \/ \E k \in KeyIds : Authenticate(c, k)
           \/ RecordKey(c) \/ RunExec(c) \/ CommandEnds(c) \/ ClientLeaves(c)
    PROVE  /\ OnlyConns /\ notices' = notices /\ sweeper' = sweeper
           /\ conns' \in [Conns -> Conn]
           /\ \A d \in Conns : d # c => conns'[d] = conns[d]
           /\ ConnsHaveKeys'
<1>1. OnlyConns /\ notices' = notices /\ sweeper' = sweeper
  BY DEF Authenticate, RecordKey, RunExec, CommandEnds, ClientLeaves, OnlyConns
<1>2. conns \in [Conns -> Conn] /\ conns[c] \in Conn
  BY DEF CredentialInv, RestTypeOK
<1>3. /\ conns[c].at \in {"handshake", "open"} =>
             conns[c].key \in KeyIds /\ keys[conns[c].key].is # "none"
      /\ conns[c].running => conns[c].at = "open"
  BY DEF CredentialInv, ConnsHaveKeys
<1>4. PICK new \in Conn :
        /\ conns' = [conns EXCEPT ![c] = new]
        /\ new.at \in {"handshake", "open"} =>
              new.key \in KeyIds /\ keys[new.key].is # "none"
        /\ new.running => new.at = "open"
  <2>1. CASE \E k \in KeyIds : Authenticate(c, k)
    <3>1. PICK k \in KeyIds : Authenticate(c, k)
      BY <2>1
    <3> DEFINE new == [at |-> "handshake", key |-> k, running |-> FALSE]
    <3>2. conns' = [conns EXCEPT ![c] = new] /\ keys[k].is = "live"
      BY <3>1 DEF Authenticate
    <3>3. new \in Conn /\ new.key = k /\ ~new.running
      BY DEF Conn
    <3> QED
      BY <3>2, <3>3
  <2>2. CASE RecordKey(c)
    <3> DEFINE new == [conns[c] EXCEPT !.at = "open"]
    <3>1. conns' = [conns EXCEPT ![c] = new] /\ conns[c].at = "handshake"
      BY <2>2 DEF RecordKey
    <3>2. new \in Conn /\ new.key = conns[c].key /\ new.at = "open"
      BY <1>2 DEF Conn
    <3> QED
      BY <1>3, <3>1, <3>2
  <2>3. CASE RunExec(c)
    <3> DEFINE new == [conns[c] EXCEPT !.running = TRUE]
    <3>1. conns' = [conns EXCEPT ![c] = new] /\ conns[c].at = "open"
      BY <2>3 DEF RunExec
    <3>2. new \in Conn /\ new.key = conns[c].key /\ new.at = conns[c].at
      BY <1>2 DEF Conn
    <3> QED
      BY <1>3, <3>1, <3>2
  <2>4. CASE CommandEnds(c)
    <3> DEFINE new == [conns[c] EXCEPT !.running = FALSE]
    <3>1. conns' = [conns EXCEPT ![c] = new]
      BY <2>4 DEF CommandEnds
    <3>2. new \in Conn /\ new.key = conns[c].key /\ new.at = conns[c].at /\ ~new.running
      BY <1>2 DEF Conn
    <3> QED
      BY <1>3, <3>1, <3>2
  <2>5. CASE ClientLeaves(c)
    <3> DEFINE new == [NoConn EXCEPT !.at = "closed"]
    <3>1. conns' = [conns EXCEPT ![c] = new]
      BY <2>5 DEF ClientLeaves
    <3>2. new \in Conn /\ new.at = "closed" /\ ~new.running
      BY DEF NoConn, Conn
    <3> QED
      BY <3>1, <3>2
  <2> QED
    BY <2>1, <2>2, <2>3, <2>4, <2>5
<1>5. conns' \in [Conns -> Conn] /\ conns'[c] = new
      /\ \A d \in Conns : d # c => conns'[d] = conns[d]
  BY <1>2, <1>4
<1>6. ConnsHaveKeys'
  <2> SUFFICES ASSUME NEW d \in Conns
               PROVE  /\ conns'[d].at \in {"handshake", "open"} =>
                            conns'[d].key \in KeyIds /\ keys[conns'[d].key].is # "none"
                      /\ conns'[d].running => conns'[d].at = "open"
    BY <1>1 DEF ConnsHaveKeys, OnlyConns
  <2>1. CASE d = c
    BY <1>4, <1>5, <2>1
  <2>2. CASE d # c
    BY <1>5, <2>2 DEF CredentialInv, ConnsHaveKeys
  <2> QED
    BY <2>1, <2>2
<1> QED
  BY <1>1, <1>5, <1>6

LEMMA CutKeeps ==
    ASSUME CredentialInv, NEW which, Cut(which), keys' = keys
    PROVE  /\ conns' \in [Conns -> Conn] /\ ConnsHaveKeys'
           /\ \A c \in Conns : conns'[c].running => conns[c].running
<1> DEFINE closed == [NoConn EXCEPT !.at = "closed"]
<1>1. closed \in Conn /\ closed.at = "closed" /\ ~closed.running
  BY DEF NoConn, Conn
<1>2. conns \in [Conns -> Conn]
  BY DEF CredentialInv, RestTypeOK
<1>3. conns' = [c \in Conns |-> IF conns[c].at = "open" /\ conns[c].key \in which
                                THEN closed ELSE conns[c]]
  BY DEF Cut
<1> HIDE DEF closed
<1>4. \A c \in Conns : conns'[c] = closed \/ conns'[c] = conns[c]
  BY <1>3
<1>5. conns' \in [Conns -> Conn]
  BY <1>1, <1>2, <1>3
<1>6. ConnsHaveKeys'
  <2> SUFFICES ASSUME NEW d \in Conns
               PROVE  /\ conns'[d].at \in {"handshake", "open"} =>
                            conns'[d].key \in KeyIds /\ keys[conns'[d].key].is # "none"
                      /\ conns'[d].running => conns'[d].at = "open"
    BY DEF ConnsHaveKeys
  <2>1. CASE conns'[d] = closed
    BY <1>1, <2>1
  <2>2. CASE conns'[d] = conns[d]
    BY <2>2 DEF CredentialInv, ConnsHaveKeys
  <2> QED
    BY <1>4, <2>1, <2>2
<1> QED
  BY <1>1, <1>4, <1>5, <1>6

LEMMA ListenerStep ==
    ASSUME CredentialInv,
           \/ \E c \in Conns :
                \/ \E k \in KeyIds : Authenticate(c, k)
                \/ RecordKey(c) \/ RunExec(c) \/ CommandEnds(c) \/ ClientLeaves(c)
           \/ \E n \in notices : Announce(n)
           \/ SweepAsk \/ SweepCut
    PROVE  CredentialInv'
<1>1. OnlyConns
  BY ConnStep DEF Announce, SweepAsk, SweepCut, OnlyConns
<1>2. RowsInv' /\ KeysOnlyAge
  BY <1>1, TokenRowsStay DEF CredentialInv, OnlyConns
<1>3. conns' \in [Conns -> Conn] /\ ConnsHaveKeys'
  <2>1. CASE \E c \in Conns :
                \/ \E k \in KeyIds : Authenticate(c, k)
                \/ RecordKey(c) \/ RunExec(c) \/ CommandEnds(c) \/ ClientLeaves(c)
    BY <2>1, ConnStep
  <2>2. CASE (\E n \in notices : Announce(n)) \/ SweepCut
    BY <1>1, <2>2, CutKeeps DEF Announce, SweepCut, OnlyConns
  <2>3. CASE SweepAsk
    BY <1>2, <2>3, ConnsStay DEF SweepAsk, CredentialInv, RestTypeOK
  <2> QED
    BY <2>1, <2>2, <2>3
<1>4. notices' \subseteq Notice
  <2>1. notices' \subseteq notices
    BY ConnStep DEF Announce, SweepAsk, SweepCut
  <2> QED
    BY <2>1 DEF CredentialInv, RestTypeOK
<1>5. sweeper' \in Sweeper
  <2>1. CASE SweepAsk
    <3> DEFINE asking == {conns[c].key : c \in {d \in Conns : conns[d].at = "open"}}
    <3>1. sweeper' = [at |-> "cut", dead |-> DeadKeys(asking)]
      BY <2>1 DEF SweepAsk
    <3>2. asking \subseteq KeyIds
      BY DEF CredentialInv, ConnsHaveKeys
    <3>3. DeadKeys(asking) \in SUBSET KeyIds
      BY <3>2 DEF DeadKeys
    <3> QED
      BY <3>1, <3>3 DEF Sweeper
  <2>2. CASE sweeper' = IdleSweeper \/ sweeper' = sweeper
    BY <2>2 DEF CredentialInv, RestTypeOK, IdleSweeper, Sweeper
  <2> QED
    BY <2>1, <2>2, ConnStep DEF Announce, SweepCut
<1>6. RestTypeOK'
  BY <1>1, <1>3, <1>4, <1>5 DEF CredentialInv, RestTypeOK, OnlyConns
<1>7. CallsAreOwned' /\ SuspendedAreCleared'
  BY <1>1 DEF CredentialInv, CallsAreOwned, SuspendedAreCleared, OnlyConns
<1> QED
  BY <1>2, <1>3, <1>6, <1>7 DEF CredentialInv

-----------------------------------------------------------------------------
(* The theorems *)

LEMMA CredentialInvInit ==
    CredentialInit => CredentialInv
<1> SUFFICES ASSUME CredentialInit PROVE CredentialInv
  OBVIOUS
<1>1. NoCredential \in Credential /\ NoCredential.is = "none" /\ NoCredential.by = None
      /\ NoCredential.line = {}
  BY DEF NoCredential, Credential
<1>2. PICK u \in Holders, k \in KeyIds :
        keys = [i \in KeyIds |->
                  IF i = k THEN [NoCredential EXCEPT !.is = "live", !.owner = u]
                  ELSE NoCredential]
  BY DEF CredentialInit
<1> DEFINE first == [NoCredential EXCEPT !.is = "live", !.owner = u]
<1>3. first \in Credential /\ first.is = "live" /\ first.owner = u /\ first.by = None
      /\ first.line = {}
  BY DEF NoCredential, Credential
<1> HIDE DEF first
<1>4. tokens = [t \in TokenIds |-> NoCredential] /\ cleared = {}
  BY DEF CredentialInit
<1>5. RowsInv
  <2>1. \A i \in KeyIds : keys[i] = first \/ keys[i] = NoCredential
    BY <1>2 DEF first
  <2>2. keys \in [KeyIds -> Credential] /\ tokens \in [TokenIds -> Credential]
    BY <1>1, <1>2, <1>3, <1>4 DEF first
  <2>3. LinesOfDescent
    BY <1>1, <1>3, <1>4, <2>1 DEF LinesOfDescent, TokensDescend, Lineage
  <2>4. RowsAreOwned
    BY <1>1, <1>3, <1>4, <2>1 DEF RowsAreOwned, InTable
  <2> QED
    BY <1>4, <2>2, <2>3, <2>4 DEF RowsInv, ClearedAreGone
<1>6. RestTypeOK
  <2>1. NoSession \in Session /\ NoConn \in Conn
    BY DEF NoSession, Session, NoConn, Conn
  <2>2. Idle \in Login /\ IdleCall \in ApiCall /\ IdleBarring \in Barring
        /\ IdleSweeper \in Sweeper /\ 0 \in 0..MaxEnds
    BY CredentialAssumption DEF Idle, Login, IdleCall, ApiCall, IdleBarring, Barring,
       IdleSweeper, Sweeper
  <2> QED
    BY <2>1, <2>2 DEF CredentialInit, RestTypeOK
<1>7. ConnsHaveKeys /\ CallsAreOwned /\ SuspendedAreCleared
  BY DEF CredentialInit, ConnsHaveKeys, CallsAreOwned, SuspendedAreCleared, NoConn,
         Idle, IdleCall
<1> QED
  BY <1>5, <1>6, <1>7 DEF CredentialInv

LEMMA CredentialInvNext ==
    CredentialInv /\ [CredentialNext]_credentialVars => CredentialInv'
<1> SUFFICES ASSUME CredentialInv, [CredentialNext]_credentialVars PROVE CredentialInv'
  OBVIOUS
<1>1. CASE \E t \in TokenIds : ApiAuth(t)
  BY <1>1, LoginStep
<1>2. CASE \E t \in TokenIds : RevokeToken(t) \/ RevokeChain(t)
  BY <1>2, RevocationStep
<1>3. CASE \E k \in KeyIds : RemoveKey(k) \/ KeyExpires(k)
  BY <1>3, KeyEndsStep
<1>4. CASE \E u \in Holders : RequestLoginLink(u) \/ ConsumeLoginToken(u)
  BY <1>4, LoginStep
<1>5. CASE \E u \in Holders : Bar(u, TRUE) \/ Bar(u, FALSE) \/ Unbar(u)
  BY <1>5, BarTurnsStep
<1>6. CASE CreateWebSession \/ \E s \in SessionIds : SessionEnds(s)
  BY <1>6, SessionStep
<1>7. CASE \E c \in Conns : CommandMints(c)
  BY <1>7, CommandMintsStep
<1>8. CASE \/ \E c \in Conns :
                \/ \E k \in KeyIds : Authenticate(c, k)
                \/ RecordKey(c) \/ RunExec(c) \/ CommandEnds(c) \/ ClientLeaves(c)
           \/ \E n \in notices : Announce(n)
           \/ SweepAsk \/ SweepCut
  BY <1>8, ListenerStep
<1>9. CASE ApiMint
  BY <1>9, ApiMintStep
<1>10. CASE BarStep
  BY <1>10, BarStepStep
<1>11. CASE UNCHANGED credentialVars
  <2>1. RowsInv' /\ KeysOnlyAge
    BY <1>11, TokenRowsStay DEF credentialVars, CredentialInv
  <2>2. ConnsHaveKeys'
    BY <1>11, <2>1, ConnsStay DEF credentialVars, CredentialInv
  <2> QED
    BY <1>11, <2>1, <2>2 DEF credentialVars, CredentialInv, RestTypeOK, CallsAreOwned,
       SuspendedAreCleared
<1> QED
  BY <1>1, <1>2, <1>3, <1>4, <1>5, <1>6, <1>7, <1>8, <1>9, <1>10, <1>11 DEF CredentialNext

LEMMA CredentialInvHolds == CredentialSpec => []CredentialInv
  BY CredentialInvInit, CredentialInvNext, PTL DEF CredentialSpec

LEMMA CredentialInvIsTyped == CredentialInv => CredentialTypeOK
<1> SUFFICES ASSUME CredentialInv PROVE CredentialTypeOK
  OBVIOUS
<1>1. ASSUME NEW t \in TokenIds, tokens[t].by # None
      PROVE  tokens[tokens[t].by].is \in {"live", "expired"}
  <2>1. tokens[t].by \in tokens[t].line /\ \A y \in tokens[t].line : InTable(tokens[y])
    BY <1>1 DEF CredentialInv, RowsInv, LinesOfDescent, TokensDescend, Lineage
  <2> QED
    BY <2>1 DEF InTable
<1> QED
  BY <1>1 DEF CredentialInv, RowsInv, RestTypeOK, CredentialTypeOK

\* Every variable keeps its shape, and what created a token is in the table
\* (the foreign key of api_tokens and ssh_keys).
THEOREM CredentialTypeCorrect == CredentialSpec => []CredentialTypeOK
BY CredentialInvIsTyped, CredentialInvHolds, PTL

\* A token revoked with what it created (RevokeAPIToken) leaves no key and no
\* token of its line, at any depth and whatever request was under way; and a
\* suspension (SetUserDisabled) leaves no session but one of a login that had
\* read the account before it.
THEOREM RevocationReachesAll == CredentialSpec => []CredentialsInOrder
<1>1. CredentialInv => CredentialsInOrder
  <2> SUFFICES ASSUME CredentialInv PROVE CredentialsInOrder
    OBVIOUS
  <2>1. \A x \in cleared : x \in TokenIds /\ ~InTable(tokens[x])
    BY DEF CredentialInv, RowsInv, ClearedAreGone, InTable
  <2>2. \A t \in TokenIds : \A x \in tokens[t].line : InTable(tokens[x])
    BY DEF CredentialInv, RowsInv, LinesOfDescent, TokensDescend, Lineage
  <2>3. \A k \in KeyIds : \A x \in keys[k].line : InTable(tokens[x])
    BY DEF CredentialInv, RowsInv, LinesOfDescent, Lineage
  <2>4. CreatedGoWithIt
    BY <2>1, <2>2, <2>3 DEF CreatedGoWithIt
  <2>5. SuspensionEndsSessions
    BY DEF CredentialInv, SuspendedAreCleared, SuspensionEndsSessions, IdleBarring
  <2> QED
    BY <2>4, <2>5 DEF CredentialsInOrder
<1> QED
  BY <1>1, CredentialInvHolds, PTL

\* Whatever step begins a command, the connection's key is in the table, has
\* not expired and is of an account that is not suspended (runExec, Exec).
THEOREM CommandsBeginAlive == CredentialSpec => CommandsNeedALiveKey
<1> DEFINE A == \A c \in Conns : ~conns[c].running /\ conns'[c].running
                                   => LiveKey(conns[c].key)
<1>1. ASSUME CredentialInv, [CredentialNext]_credentialVars, NEW c \in Conns,
             ~conns[c].running, conns'[c].running
      PROVE  LiveKey(conns[c].key)
  <2>1. conns \in [Conns -> Conn]
    BY <1>1 DEF CredentialInv, RestTypeOK
  <2>2. ASSUME NEW d \in Conns, NEW k \in KeyIds, Authenticate(d, k) PROVE FALSE
    BY <1>1, <2>1, <2>2 DEF Authenticate, Conn
  <2>3. ASSUME NEW d \in Conns, RecordKey(d) \/ ClientLeaves(d) \/ CommandEnds(d)
                                \/ CommandMints(d)
        PROVE  FALSE
    BY <1>1, <2>1, <2>3 DEF RecordKey, ClientLeaves, CommandEnds, CommandMints, Conn, NoConn
  <2>4. ASSUME NEW d \in Conns, RunExec(d) PROVE LiveKey(conns[c].key)
    BY <1>1, <2>1, <2>4 DEF RunExec, Admitted, Conn
  <2>5. ASSUME (\E n \in notices : Announce(n)) \/ SweepCut PROVE FALSE
    <3>1. keys' = keys /\ \E which : Cut(which)
      BY <2>5 DEF Announce, SweepCut
    <3> QED
      BY <1>1, <3>1, CutKeeps
  <2>6. conns' # conns
    BY <1>1
  <2> QED
    BY <1>1, <2>2, <2>3, <2>4, <2>5, <2>6
    DEF CredentialNext, credentialVars, ApiAuth, RevokeToken, RevokeChain, RemoveKey,
        KeyExpires, RequestLoginLink, ConsumeLoginToken, Bar, Unbar, SessionEnds,
        ApiMint, CreateWebSession, BarStep, SweepAsk
<1>2. CredentialInv /\ [CredentialNext]_credentialVars => [A]_credentialVars
  BY <1>1
<1> QED
  BY <1>2, CredentialInvHolds, PTL DEF CredentialSpec, CommandsNeedALiveKey

-----------------------------------------------------------------------------
(* Accounts: the inductive invariant *)

\* Rows and their histories.
OwnersAreHere ==
    \A a \in Addresses : mail[a].owner # Nobody => Here(mail[a].owner)
HandlersKnow ==
    \A u \in People :
      /\ handler[u].at = "verify" => <<u, handler[u].addr>> \in proven
      /\ handler[u].at = "clear" => VerifiedOf(u) # {}
ActiveIsReachable ==
    \A u \in People :
      Here(u) /\ acct[u].own /\ ~acct[u].pending => VerifiedOf(u) # {}
OnePrimary ==
    \A a, b \in Addresses :
      mail[a].owner = mail[b].owner /\ mail[a].primary /\ mail[b].primary
        => a = b
SuspendedAreHere == \A u \in suspended : Here(u)
MarkedAreDisabled ==
    \A u \in People : Here(u) /\ acct[u].after = "purging"
                        => acct[u].disabled \/ u \in reopened

RowsInOrder ==
    /\ VerifiedWasProven /\ SuspensionHolds
    /\ OwnersAreHere /\ HandlersKnow /\ ActiveIsReachable /\ OnePrimary
    /\ SuspendedAreHere /\ MarkedAreDisabled

\* The purge's list.
PurgedExisted ==
    /\ purger.at # "idle" => purger.list # {}
    /\ \A u \in purger.list : acct[u].is # "none"

PurgeInOrder == PurgedExisted /\ PurgeIsClaimed

AccountInv == AccountTypeOK /\ RowsInOrder /\ PurgeInOrder

-----------------------------------------------------------------------------
(* Accounts: the steps *)

LEMMA PurgedIsListed ==
    ASSUME AccountInv, purger.at # "idle"
    PROVE  Purged \in purger.list /\ Purged \in People /\ acct[Purged].is # "none"
BY DEF AccountInv, PurgeInOrder, PurgedExisted, Purged, AccountTypeOK, Purger

\* Steps that change no row and no history.
LEMMA RowsRest ==
    ASSUME AccountInv, UNCHANGED <<acct, mail, proven, handler, suspended, reopened>>
    PROVE  RowsInOrder'
BY DEF AccountInv, RowsInOrder, VerifiedWasProven, SuspensionHolds, OwnersAreHere,
   HandlersKnow, ActiveIsReachable, OnePrimary, SuspendedAreHere,
   MarkedAreDisabled, VerifiedOf, Here

\* A purge under way finds its account as it left it, or enabled or gone.
LEMMA PurgeRests ==
    ASSUME AccountInv, purger' = purger,
           \A u \in People : acct[u].is # "none" =>
             /\ acct'[u].is # "none"
             /\ Here(u)' => Here(u)
             /\ acct[u].after = "purging" =>
                  ~Here(u)' \/ acct'[u].after = "purging" \/ u \in reopened'
             /\ u \in reopened => ~Here(u)' \/ u \in reopened'
    PROVE  PurgeInOrder'
<1>1. PurgedExisted'
  BY DEF AccountInv, PurgeInOrder, PurgedExisted, AccountTypeOK, Purger
<1>2. PurgeIsClaimed'
  BY PurgedIsListed DEF AccountInv, PurgeInOrder, PurgeIsClaimed, Purged
<1> QED
  BY <1>1, <1>2 DEF PurgeInOrder

\* One row is written, of an account that is there.
LEMMA RowWritten ==
    ASSUME AccountInv, NEW u \in People, Here(u), NEW r \in Account,
           acct' = [acct EXCEPT ![u] = r], r.is = "here", r.own = acct[u].own,
           UNCHANGED <<mail, proven>>,
           r.own /\ ~r.pending => VerifiedOf(u) # {},
           suspended' \subseteq suspended \cup {u},
           u \in suspended' => r.disabled /\ r.after \in {"", "purging"},
           reopened' \in {reopened, reopened \cup {u}},
           r.after = "purging" => r.disabled \/ u \in reopened',
           acct[u].after = "purging" => r.after = "purging" \/ u \in reopened',
           \A v \in People : handler'[v].at \in {"verify", "clear"} =>
                               handler'[v] = handler[v]
    PROVE  RowsInOrder' /\ (purger' = purger => PurgeInOrder')
<1>0. /\ acct \in [People -> Account] /\ acct'[u] = r
      /\ \A v \in People : v # u => acct'[v] = acct[v]
      /\ suspended \subseteq People
  BY DEF AccountInv, AccountTypeOK
<1>1. \A v \in People : Here(v)' <=> Here(v)
  BY <1>0 DEF Here
<1>2. \A v \in People : VerifiedOf(v)' = VerifiedOf(v)
  BY DEF VerifiedOf
<1>3. VerifiedWasProven' /\ OnePrimary'
  BY DEF AccountInv, RowsInOrder, VerifiedWasProven, OnePrimary
<1>4. OwnersAreHere'
  BY <1>1 DEF AccountInv, AccountTypeOK, Address, RowsInOrder, OwnersAreHere
<1>5. HandlersKnow'
  BY <1>2 DEF AccountInv, RowsInOrder, HandlersKnow
<1>6. ActiveIsReachable'
  BY <1>0, <1>1, <1>2 DEF AccountInv, RowsInOrder, ActiveIsReachable
<1>7. SuspensionHolds' /\ SuspendedAreHere'
  BY <1>0, <1>1 DEF AccountInv, RowsInOrder, SuspensionHolds, SuspendedAreHere
<1>8. MarkedAreDisabled'
  BY <1>0, <1>1 DEF AccountInv, RowsInOrder, MarkedAreDisabled
<1>9. ASSUME purger' = purger PROVE PurgeInOrder'
  BY <1>0, <1>1, <1>9, PurgeRests
<1> QED
  BY <1>3, <1>4, <1>5, <1>6, <1>7, <1>8, <1>9 DEF RowsInOrder

LEMMA HandlerReset ==
    ASSUME AccountInv, NEW u \in People, handler' = [handler EXCEPT ![u] = IdleHandler]
    PROVE  \A v \in People : handler'[v].at \in {"verify", "clear"} =>
                               handler'[v] = handler[v]
BY DEF AccountInv, AccountTypeOK, IdleHandler

\* A handler that verifies belongs to an account with that address.
LEMMA ClearPendingKeeps ==
    ASSUME AccountInv, NEW u \in People, ClearPending(u)
    PROVE  AccountInv'
<1>1. VerifiedOf(u) # {} /\ Here(u)
  <2>1. VerifiedOf(u) # {}
    BY DEF ClearPending, AccountInv, RowsInOrder, HandlersKnow
  <2>2. PICK a \in Addresses : mail[a].owner = u
    BY <2>1 DEF VerifiedOf
  <2>3. mail[a].owner # Nobody
    BY <2>2, AccountAssumption
  <2>4. Here(mail[a].owner)
    BY <2>3 DEF AccountInv, RowsInOrder, OwnersAreHere
  <2> QED
    BY <2>1, <2>2, <2>4
<1>2. PICK r : r = [acct[u] EXCEPT !.pending = FALSE]
  OBVIOUS
<1>3. /\ acct' = [acct EXCEPT ![u] = r]
      /\ handler' = [handler EXCEPT ![u] = IdleHandler]
      /\ UNCHANGED <<mail, codes, invites, deletions, owns, wrote, orgAdmins, proven,
                     suspended, reopened, workers, acctOps>>
  BY <1>2 DEF ClearPending
<1>4. /\ r \in Account /\ r.is = acct[u].is /\ r.own = acct[u].own
      /\ r.disabled = acct[u].disabled /\ r.after = acct[u].after
  BY <1>2 DEF AccountInv, AccountTypeOK, Account
<1>5. AccountTypeOK'
  BY <1>3, <1>4 DEF AccountInv, AccountTypeOK, workers, IdleHandler, Handler
<1>6. /\ u \in suspended' => r.disabled /\ r.after \in {"", "purging"}
      /\ r.after = "purging" => r.disabled \/ u \in reopened'
  BY <1>1, <1>3, <1>4 DEF AccountInv, RowsInOrder, SuspensionHolds, MarkedAreDisabled
<1>7. purger' = purger /\ r.is = "here"
  BY <1>1, <1>3, <1>4 DEF workers, Here
<1>8. RowsInOrder' /\ PurgeInOrder'
  BY <1>1, <1>3, <1>4, <1>6, <1>7, HandlerReset, RowWritten
<1> QED
  BY <1>5, <1>8 DEF AccountInv

LEMMA SetAdminKeeps ==
    ASSUME AccountInv, NEW u \in People, NEW admin \in BOOLEAN, SetAdmin(u, admin)
    PROVE  AccountInv'
<1>1. PICK r : r = [acct[u] EXCEPT !.admin = admin]
  OBVIOUS
<1>2. /\ acct' = [acct EXCEPT ![u] = r] /\ Here(u)
      /\ acctOps < MaxAcctOps /\ acctOps' = acctOps + 1
      /\ UNCHANGED <<mail, codes, invites, proven, deletions, owns, wrote,
                     orgAdmins, handler, suspended, reopened, workers>>
  BY <1>1 DEF SetAdmin, Op, rest
<1>3. /\ r \in Account /\ r.is = acct[u].is /\ r.own = acct[u].own
      /\ r.disabled = acct[u].disabled /\ r.after = acct[u].after
      /\ r.pending = acct[u].pending
  BY <1>1 DEF AccountInv, AccountTypeOK, Account
<1>4. AccountTypeOK'
  BY <1>2, <1>3, AccountAssumption DEF AccountInv, AccountTypeOK, workers
<1>5. /\ u \in suspended' => r.disabled /\ r.after \in {"", "purging"}
      /\ r.after = "purging" => r.disabled \/ u \in reopened'
      /\ r.own /\ ~r.pending => VerifiedOf(u) # {}
  BY <1>2, <1>3 DEF AccountInv, RowsInOrder, SuspensionHolds, MarkedAreDisabled,
     ActiveIsReachable
<1>6. purger' = purger /\ r.is = "here"
  BY <1>2, <1>3 DEF workers, Here
<1>7. RowsInOrder' /\ PurgeInOrder'
  BY <1>2, <1>3, <1>5, <1>6, RowWritten
<1> QED
  BY <1>4, <1>7 DEF AccountInv

LEMMA AdminUpdateKeeps ==
    ASSUME AccountInv, AdminUpdate
    PROVE  AccountInv'
<1>a. PICK u : u = adminCmd.who
  OBVIOUS
<1>0. u \in People
  BY <1>a DEF AdminUpdate, AccountInv, AccountTypeOK, AdminCmd
<1>1. UNCHANGED <<mail, codes, invites, deletions, owns, wrote, orgAdmins,
                  handler, reaper, purger, proven, acctOps, acctFaults>>
      /\ adminCmd' = IdleAdmin
  BY DEF AdminUpdate
<1>2. CASE Here(u)
  <2>1. PICK r : r = [acct[u] EXCEPT !.disabled = adminCmd.disable,
                        !.after = IF @ = "purging" THEN @ ELSE ""]
    OBVIOUS
  <2>2. /\ acct' = [acct EXCEPT ![u] = r]
        /\ suspended' = IF adminCmd.disable THEN suspended \cup {u} ELSE suspended \ {u}
        /\ reopened' = IF ~adminCmd.disable /\ acct[u].after = "purging"
                       THEN reopened \cup {u} ELSE reopened
    BY <1>a, <1>2, <2>1 DEF AdminUpdate
  <2>3. /\ r \in Account /\ r.is = "here" /\ r.own = acct[u].own
        /\ r.pending = acct[u].pending /\ r.disabled = adminCmd.disable
        /\ r.after = IF acct[u].after = "purging" THEN "purging" ELSE ""
    BY <1>0, <1>2, <2>1 DEF AccountInv, AccountTypeOK, Account, AdminCmd, Here
  <2>4. AccountTypeOK'
    BY <1>0, <1>1, <2>2, <2>3 DEF AccountInv, AccountTypeOK, IdleAdmin, AdminCmd
  <2>5. /\ u \in suspended' => r.disabled /\ r.after \in {"", "purging"}
        /\ r.after = "purging" => r.disabled \/ u \in reopened'
        /\ r.own /\ ~r.pending => VerifiedOf(u) # {}
        /\ acct[u].after = "purging" => r.after = "purging" \/ u \in reopened'
        /\ suspended' \subseteq suspended \cup {u}
        /\ reopened' \in {reopened, reopened \cup {u}}
    BY <1>0, <1>2, <2>2, <2>3 DEF AccountInv, RowsInOrder, ActiveIsReachable
  <2>6. RowsInOrder' /\ PurgeInOrder'
    BY <1>0, <1>1, <1>2, <2>2, <2>3, <2>5, RowWritten
  <2> QED
    BY <2>4, <2>6 DEF AccountInv
<1>3. CASE ~Here(u)
  <2>1. UNCHANGED <<acct, suspended, reopened>>
    BY <1>a, <1>3 DEF AdminUpdate
  <2>2. AccountTypeOK'
    BY <1>1, <2>1 DEF AccountInv, AccountTypeOK, IdleAdmin, AdminCmd
  <2>3. RowsInOrder' /\ PurgeInOrder'
    BY <1>1, <2>1, RowsRest, PurgeRests DEF Here
  <2> QED
    BY <2>2, <2>3 DEF AccountInv
<1> QED
  BY <1>2, <1>3

\* A command that ends or moves on without having read a code, and leaves
\* every row alone.
LEMMA HandlerMoves ==
    ASSUME AccountInv, NEW u \in People, NEW h \in Handler,
           h.at \notin {"verify", "clear"},
           handler' = [handler EXCEPT ![u] = h],
           deletions' \subseteq deletions,
           UNCHANGED <<acct, mail, codes, invites, owns, wrote, orgAdmins, proven,
                       suspended, reopened, workers, acctOps>>
    PROVE  AccountInv'
<1>1. AccountTypeOK'
  BY DEF AccountInv, AccountTypeOK, workers
<1>2. \A v \in People : VerifiedOf(v)' = VerifiedOf(v) /\ Here(v)' = Here(v)
  BY DEF VerifiedOf, Here
<1>3. HandlersKnow'
  BY <1>2 DEF AccountInv, AccountTypeOK, RowsInOrder, HandlersKnow
<1>4. RowsInOrder'
  BY <1>3 DEF AccountInv, RowsInOrder, VerifiedWasProven, SuspensionHolds,
     OwnersAreHere, ActiveIsReachable, OnePrimary, SuspendedAreHere,
     MarkedAreDisabled, VerifiedOf, Here
<1>5. PurgeInOrder'
  BY PurgeRests DEF workers, Here
<1> QED
  BY <1>1, <1>4, <1>5 DEF AccountInv

LEMMA HandlerIdles ==
    ASSUME AccountInv, NEW u \in People,
           handler' = [handler EXCEPT ![u] = IdleHandler],
           deletions' \subseteq deletions,
           UNCHANGED <<acct, mail, codes, invites, owns, wrote, orgAdmins, proven,
                       suspended, reopened, workers, acctOps>>
    PROVE  AccountInv'
<1>1. IdleHandler \in Handler /\ IdleHandler.at = "idle"
  BY DEF IdleHandler, Handler
<1> QED
  BY <1>1, HandlerMoves

LEMMA ConfirmScheduleKeeps ==
    ASSUME AccountInv, NEW u \in People, ConfirmSchedule(u)
    PROVE  AccountInv'
<1>1. /\ handler' = [handler EXCEPT ![u] = IdleHandler]
      /\ deletions' = deletions \ {u}
      /\ UNCHANGED <<mail, codes, invites, owns, wrote, orgAdmins, proven,
                     suspended, reopened, workers, acctOps>>
  BY DEF ConfirmSchedule
<1>2. purger' = purger
  BY <1>1 DEF workers
<1>3. CASE Schedulable(u)
  <2>1. PICK r : r = [acct[u] EXCEPT !.disabled = TRUE, !.after = "later"]
    OBVIOUS
  <2>2. acct' = [acct EXCEPT ![u] = r]
    BY <1>3, <2>1 DEF ConfirmSchedule
  <2>3. /\ r \in Account /\ r.is = "here" /\ r.own = acct[u].own
        /\ r.pending = acct[u].pending /\ r.after = "later"
        /\ Here(u) /\ ~acct[u].disabled
    BY <1>3, <2>1 DEF AccountInv, AccountTypeOK, Account, Schedulable, Here
  <2>4. AccountTypeOK'
    BY <1>1, <2>2, <2>3 DEF AccountInv, AccountTypeOK, workers, IdleHandler, Handler
  <2>5. /\ u \notin suspended
        /\ acct[u].after = "purging" => u \in reopened
        /\ r.own /\ ~r.pending => VerifiedOf(u) # {}
    BY <2>3 DEF AccountInv, RowsInOrder, ActiveIsReachable, SuspensionHolds,
       MarkedAreDisabled
  <2>6. RowsInOrder' /\ PurgeInOrder'
    BY <1>1, <1>2, <2>2, <2>3, <2>5, HandlerReset, RowWritten
  <2> QED
    BY <2>4, <2>6 DEF AccountInv
<1>4. CASE ~Schedulable(u)
  <2>1. acct' = acct
    BY <1>4 DEF ConfirmSchedule
  <2> QED
    BY <1>1, <1>2, <2>1, HandlerIdles
<1> QED
  BY <1>3, <1>4

LEMMA CancelEnableKeeps ==
    ASSUME AccountInv, NEW u \in People, CancelEnable(u)
    PROVE  AccountInv'
<1>1. /\ handler' = [handler EXCEPT ![u] = IdleHandler]
      /\ UNCHANGED <<mail, codes, invites, deletions, owns, wrote, orgAdmins, proven,
                     suspended, reopened, workers, acctOps>>
  BY DEF CancelEnable
<1>2. purger' = purger /\ deletions' \subseteq deletions
  BY <1>1 DEF workers
<1>3. CASE Cancellable(u)
  <2>1. PICK r : r = [acct[u] EXCEPT !.disabled = FALSE, !.after = ""]
    OBVIOUS
  <2>2. acct' = [acct EXCEPT ![u] = r]
    BY <1>3, <2>1 DEF CancelEnable
  <2>3. /\ r \in Account /\ r.is = "here" /\ r.own = acct[u].own
        /\ r.pending = acct[u].pending /\ r.after = ""
        /\ Here(u) /\ acct[u].after \in {"later", "due"}
    BY <1>3, <2>1 DEF AccountInv, AccountTypeOK, Account, Cancellable, Here
  <2>4. AccountTypeOK'
    BY <1>1, <2>2, <2>3 DEF AccountInv, AccountTypeOK, workers, IdleHandler, Handler
  <2>5. /\ u \notin suspended
        /\ r.own /\ ~r.pending => VerifiedOf(u) # {}
    BY <2>3 DEF AccountInv, RowsInOrder, ActiveIsReachable, SuspensionHolds
  <2>6. RowsInOrder' /\ PurgeInOrder'
    BY <1>1, <1>2, <2>2, <2>3, <2>5, HandlerReset, RowWritten
  <2> QED
    BY <2>4, <2>6 DEF AccountInv
<1>4. CASE ~Cancellable(u)
  <2>1. acct' = acct
    BY <1>4 DEF CancelEnable
  <2> QED
    BY <1>1, <1>2, <2>1, HandlerIdles
<1> QED
  BY <1>3, <1>4

LEMMA GraceEndsKeeps ==
    ASSUME AccountInv, NEW u \in People, GraceEnds(u) \/ GrowsOld(u)
    PROVE  AccountInv'
<1>1. PICK r : /\ acct' = [acct EXCEPT ![u] = r]
               /\ \/ /\ r = [acct[u] EXCEPT !.after = "due"]
                     /\ acct[u].after = "later"
                  \/ r = [acct[u] EXCEPT !.old = TRUE]
  BY DEF GraceEnds, GrowsOld
<1>2. /\ Here(u)
      /\ UNCHANGED <<mail, codes, invites, proven, deletions, owns, wrote,
                     orgAdmins, handler, suspended, reopened, workers, acctOps>>
  BY DEF GraceEnds, GrowsOld, rest
<1>3. /\ r \in Account /\ r.is = acct[u].is /\ r.own = acct[u].own
      /\ r.disabled = acct[u].disabled /\ r.pending = acct[u].pending
      /\ r.after = acct[u].after \/ (acct[u].after = "later" /\ r.after = "due")
  <2>1. acct[u] \in Account
    BY DEF AccountInv, AccountTypeOK
  <2>2. CASE r = [acct[u] EXCEPT !.after = "due"] /\ acct[u].after = "later"
    BY <2>1, <2>2 DEF Account
  <2>3. CASE r = [acct[u] EXCEPT !.old = TRUE]
    BY <2>1, <2>3 DEF Account
  <2> QED
    BY <1>1, <2>2, <2>3
<1>4. AccountTypeOK'
  BY <1>1, <1>2, <1>3 DEF AccountInv, AccountTypeOK, workers
<1>5. /\ u \in suspended' => r.disabled /\ r.after \in {"", "purging"}
      /\ r.after = "purging" => r.disabled \/ u \in reopened'
      /\ r.own /\ ~r.pending => VerifiedOf(u) # {}
  BY <1>2, <1>3 DEF AccountInv, RowsInOrder, SuspensionHolds, MarkedAreDisabled,
     ActiveIsReachable
<1>6. purger' = purger /\ r.is = "here"
  BY <1>2, <1>3 DEF workers, Here
<1>7. RowsInOrder' /\ PurgeInOrder'
  BY <1>1, <1>2, <1>3, <1>5, <1>6, RowWritten
<1> QED
  BY <1>4, <1>7 DEF AccountInv

LEMMA ConfirmReadKeeps ==
    ASSUME AccountInv, NEW u \in People,
           ConfirmRead(u) \/ SignIn(u) \/ CancelDrop(u)
    PROVE  AccountInv'
<1>1. PICK h : /\ handler' = [handler EXCEPT ![u] = h]
               /\ \E step \in {"confirm", "drop", "enable"} :
                    h = [handler[u] EXCEPT !.at = step]
  BY DEF ConfirmRead, SignIn, CancelDrop
<1>2. h \in Handler /\ h.at \notin {"verify", "clear"}
  BY <1>1 DEF AccountInv, AccountTypeOK, Handler
<1>3. /\ deletions' \subseteq deletions
      /\ UNCHANGED <<acct, mail, codes, invites, owns, wrote, orgAdmins, proven,
                     suspended, reopened, workers, acctOps>>
  BY DEF ConfirmRead, SignIn, CancelDrop
<1> QED
  BY <1>1, <1>2, <1>3, HandlerMoves

LEMMA ConsumeCodeKeeps ==
    ASSUME AccountInv, NEW u \in People, NEW a \in Addresses, ConsumeCode(u, a)
    PROVE  AccountInv'
<1>1. /\ handler' = [handler EXCEPT ![u] = [at |-> "verify", addr |-> a]]
      /\ proven' = proven \cup {<<u, a>>} /\ codes' = codes \ {<<u, a>>}
      /\ UNCHANGED <<acct, mail, invites, deletions, owns, wrote, orgAdmins,
                     suspended, reopened, workers, acctOps>>
  BY DEF ConsumeCode
<1>2. [at |-> "verify", addr |-> a] \in Handler
  BY DEF Handler
<1>3. AccountTypeOK'
  BY <1>1, <1>2 DEF AccountInv, AccountTypeOK, workers
<1>4. \A v \in People : VerifiedOf(v)' = VerifiedOf(v) /\ Here(v)' = Here(v)
  BY <1>1 DEF VerifiedOf, Here
<1>5. HandlersKnow'
  BY <1>1, <1>4 DEF AccountInv, AccountTypeOK, RowsInOrder, HandlersKnow
<1>6. RowsInOrder'
  BY <1>1, <1>5 DEF AccountInv, RowsInOrder, VerifiedWasProven, SuspensionHolds,
     OwnersAreHere, ActiveIsReachable, OnePrimary, SuspendedAreHere,
     MarkedAreDisabled, VerifiedOf, Here
<1>7. PurgeInOrder'
  BY <1>1, PurgeRests DEF workers, Here
<1> QED
  BY <1>3, <1>6, <1>7 DEF AccountInv

\* What a step on one address may do: it becomes somebody's, is verified, or
\* is somebody's no more.
LEMMA AddressVerified ==
    ASSUME AccountInv, NEW u \in People, NEW a \in Addresses, mail[a].owner = u,
           <<u, a>> \in proven', proven \subseteq proven',
           mail' = [mail EXCEPT ![a].verified = TRUE],
           UNCHANGED <<acct, suspended, reopened>>,
           \A v \in People :
             /\ handler'[v].at = "verify" => handler'[v] = handler[v]
             /\ handler'[v].at = "clear" => handler'[v] = handler[v] \/ v = u
    PROVE  RowsInOrder' /\ mail' \in [Addresses -> Address]
           /\ \A b \in Addresses : mail'[b].owner = mail[b].owner
<1>1. /\ mail' \in [Addresses -> Address]
      /\ mail'[a].verified
      /\ \A b \in Addresses : /\ mail'[b].owner = mail[b].owner
                              /\ mail'[b].primary = mail[b].primary
                              /\ b # a => mail'[b] = mail[b]
  BY DEF AccountInv, AccountTypeOK, Address
<1>2. \A v \in People : VerifiedOf(v) \subseteq VerifiedOf(v)' /\ Here(v)' = Here(v)
  BY <1>1 DEF VerifiedOf, Here
<1>3. VerifiedOf(u)' # {}
  BY <1>1 DEF VerifiedOf
<1>4. VerifiedWasProven'
  BY <1>1 DEF AccountInv, RowsInOrder, VerifiedWasProven
<1>5. OwnersAreHere' /\ OnePrimary'
  BY <1>1 DEF AccountInv, RowsInOrder, OwnersAreHere, OnePrimary, Here
<1>6. HandlersKnow' /\ ActiveIsReachable'
  BY <1>2, <1>3 DEF AccountInv, RowsInOrder, HandlersKnow, ActiveIsReachable
<1>7. SuspensionHolds' /\ SuspendedAreHere' /\ MarkedAreDisabled'
  BY DEF AccountInv, RowsInOrder, SuspensionHolds, SuspendedAreHere,
     MarkedAreDisabled, Here
<1> QED
  BY <1>1, <1>4, <1>5, <1>6, <1>7 DEF RowsInOrder

LEMMA VerifyEmailKeeps ==
    ASSUME AccountInv, NEW u \in People, VerifyEmail(u)
    PROVE  AccountInv'
<1>1. PICK a : a = handler[u].addr
  OBVIOUS
<1>2. /\ handler[u].at = "verify"
      /\ UNCHANGED <<acct, codes, invites, deletions, owns, wrote, orgAdmins,
                     proven, suspended, reopened, workers, acctOps>>
  BY DEF VerifyEmail
<1>3. <<u, a>> \in proven /\ a \in Addresses
  BY <1>1, <1>2 DEF AccountInv, AccountTypeOK, RowsInOrder, HandlersKnow
<1>4. CASE AddressOf(u, a)
  <2>1. /\ mail' = [mail EXCEPT ![a].verified = TRUE]
        /\ handler' = [handler EXCEPT ![u].at = "clear"]
    BY <1>1, <1>4 DEF VerifyEmail
  <2>2. /\ handler' \in [People -> Handler]
        /\ \A v \in People : v # u => handler'[v] = handler[v]
        /\ handler'[u].at = "clear"
    BY <2>1 DEF AccountInv, AccountTypeOK, Handler
  <2>3. RowsInOrder' /\ mail' \in [Addresses -> Address]
        /\ \A b \in Addresses : mail'[b].owner = mail[b].owner
    BY <1>2, <1>3, <1>4, <2>1, <2>2, AddressVerified DEF AddressOf
  <2>4. AccountTypeOK'
    BY <1>2, <2>2, <2>3 DEF AccountInv, AccountTypeOK, workers
  <2>5. PurgeInOrder'
    BY <1>2, PurgeRests DEF workers, Here
  <2> QED
    BY <2>3, <2>4, <2>5 DEF AccountInv
<1>5. CASE ~AddressOf(u, a)
  <2>1. mail' = mail /\ handler' = [handler EXCEPT ![u] = IdleHandler]
    BY <1>1, <1>5 DEF VerifyEmail
  <2> QED
    BY <1>2, <2>1, HandlerIdles
<1> QED
  BY <1>4, <1>5

LEMMA AdminEmailVerifyKeeps ==
    ASSUME AccountInv, NEW u \in People, NEW a \in Addresses, AdminEmailVerify(u, a)
    PROVE  AccountInv'
<1>1. /\ mail[a].owner = u /\ mail' = [mail EXCEPT ![a].verified = TRUE]
      /\ proven' = proven \cup {<<u, a>>}
      /\ acctOps < MaxAcctOps /\ acctOps' = acctOps + 1
      /\ UNCHANGED <<acct, codes, invites, deletions, owns, wrote, orgAdmins,
                     handler, suspended, reopened, workers>>
  BY DEF AdminEmailVerify, AddressOf, Op, rest
<1>2. RowsInOrder' /\ mail' \in [Addresses -> Address]
      /\ \A b \in Addresses : mail'[b].owner = mail[b].owner
  BY <1>1, AddressVerified
<1>3. AccountTypeOK'
  BY <1>1, <1>2, AccountAssumption DEF AccountInv, AccountTypeOK, workers
<1>4. PurgeInOrder'
  BY <1>1, PurgeRests DEF workers, Here
<1> QED
  BY <1>2, <1>3, <1>4 DEF AccountInv

LEMMA EmailRemoveKeeps ==
    ASSUME AccountInv, NEW u \in People, NEW a \in Addresses, EmailRemove(u, a)
    PROVE  AccountInv'
<1>1. /\ mail[a].owner = u /\ ~mail[a].primary
      /\ mail[a].verified => VerifiedOf(u) # {a}
      /\ mail' = [mail EXCEPT ![a] = Free] /\ codes' = codes \ {<<u, a>>}
      /\ acctOps < MaxAcctOps /\ acctOps' = acctOps + 1
      /\ UNCHANGED <<acct, invites, proven, deletions, owns, wrote, orgAdmins,
                     handler, suspended, reopened, workers>>
  BY DEF EmailRemove, Removable, Op, rest
<1>2. /\ Free \in Address /\ ~Free.verified /\ ~Free.primary /\ Free.owner = Nobody
  BY DEF Free, Address
<1>3. /\ mail' \in [Addresses -> Address] /\ mail'[a] = Free
      /\ \A b \in Addresses : b # a => mail'[b] = mail[b]
  BY <1>1, <1>2 DEF AccountInv, AccountTypeOK
<1>4. \A v \in People : v # Nobody
  BY AccountAssumption
<1>5. AccountTypeOK'
  <2>1. codes' \subseteq People \X Addresses
    BY <1>1 DEF AccountInv, AccountTypeOK
  <2>2. ASSUME NEW c \in codes' PROVE mail'[c[2]].owner = c[1]
    <3>1. c \in codes /\ c # <<u, a>> /\ mail[c[2]].owner = c[1]
      BY <1>1 DEF AccountInv, AccountTypeOK
    <3>2. c = <<c[1], c[2]>> /\ c[2] \in Addresses
      BY <3>1 DEF AccountInv, AccountTypeOK
    <3>3. c[2] # a
      BY <1>1, <3>1, <3>2
    <3> QED
      BY <1>3, <3>1, <3>2, <3>3
  <2> QED
    BY <1>1, <1>3, <2>1, <2>2, AccountAssumption DEF AccountInv, AccountTypeOK, workers
<1>6. \A v \in People : VerifiedOf(v)' = VerifiedOf(v) \ {a} /\ Here(v)' = Here(v)
  BY <1>1, <1>2, <1>3, <1>4 DEF VerifiedOf, Here
<1>7. \A v \in People : VerifiedOf(v) # {} => VerifiedOf(v)' # {}
  <2> SUFFICES ASSUME NEW v \in People, VerifiedOf(v) # {}
               PROVE  VerifiedOf(v)' # {}
    OBVIOUS
  <2>1. CASE a \notin VerifiedOf(v)
    BY <1>6, <2>1
  <2>2. CASE a \in VerifiedOf(v)
    <3>1. v = u /\ mail[a].verified
      BY <1>1, <2>2 DEF VerifiedOf
    <3> QED
      BY <1>1, <1>6, <2>2, <3>1
  <2> QED
    BY <2>1, <2>2
<1>8. HandlersKnow' /\ ActiveIsReachable'
  BY <1>1, <1>6, <1>7 DEF AccountInv, RowsInOrder, HandlersKnow, ActiveIsReachable
<1>9. VerifiedWasProven' /\ OwnersAreHere' /\ OnePrimary'
  <2>1. mail'[a].owner = Nobody /\ ~mail'[a].verified /\ ~mail'[a].primary
    BY <1>2, <1>3
  <2>2. VerifiedWasProven'
    BY <1>1, <1>3, <2>1 DEF AccountInv, RowsInOrder, VerifiedWasProven
  <2>3. OwnersAreHere'
    BY <1>1, <1>3, <2>1 DEF AccountInv, RowsInOrder, OwnersAreHere, Here
  <2>4. OnePrimary'
    BY <1>3, <2>1 DEF AccountInv, RowsInOrder, OnePrimary
  <2> QED
    BY <2>2, <2>3, <2>4
<1>10. SuspensionHolds' /\ SuspendedAreHere' /\ MarkedAreDisabled'
  BY <1>1 DEF AccountInv, RowsInOrder, SuspensionHolds, SuspendedAreHere,
     MarkedAreDisabled, Here
<1>11. PurgeInOrder'
  BY <1>1, PurgeRests DEF workers, Here
<1> QED
  BY <1>5, <1>8, <1>9, <1>10, <1>11 DEF AccountInv, RowsInOrder

LEMMA EmailPrimaryKeeps ==
    ASSUME AccountInv, NEW u \in People, NEW a \in Addresses, EmailPrimary(u, a)
    PROVE  AccountInv'
<1>1. /\ mail' = [b \in Addresses |->
                    IF mail[b].owner = u THEN [mail[b] EXCEPT !.primary = (b = a)]
                    ELSE mail[b]]
      /\ acctOps < MaxAcctOps /\ acctOps' = acctOps + 1
      /\ UNCHANGED <<acct, codes, invites, proven, deletions, owns, wrote,
                     orgAdmins, handler, suspended, reopened, workers>>
  BY DEF EmailPrimary, Op, rest
<1>2. /\ mail' \in [Addresses -> Address]
      /\ \A b \in Addresses : /\ mail'[b].owner = mail[b].owner
                              /\ mail'[b].verified = mail[b].verified
                              /\ mail[b].owner = u => mail'[b].primary = (b = a)
                              /\ mail[b].owner # u => mail'[b] = mail[b]
  BY <1>1 DEF AccountInv, AccountTypeOK, Address
<1>3. \A v \in People : VerifiedOf(v)' = VerifiedOf(v) /\ Here(v)' = Here(v)
  BY <1>1, <1>2 DEF VerifiedOf, Here
<1>4. AccountTypeOK'
  BY <1>1, <1>2, AccountAssumption DEF AccountInv, AccountTypeOK, workers
<1>5. HandlersKnow' /\ ActiveIsReachable'
  BY <1>1, <1>3 DEF AccountInv, RowsInOrder, HandlersKnow, ActiveIsReachable
<1>6. VerifiedWasProven' /\ OwnersAreHere' /\ OnePrimary'
  <2>1. VerifiedWasProven'
    BY <1>1, <1>2 DEF AccountInv, RowsInOrder, VerifiedWasProven
  <2>2. OwnersAreHere'
    BY <1>1, <1>2 DEF AccountInv, RowsInOrder, OwnersAreHere, Here
  <2>3. OnePrimary'
    <3> SUFFICES ASSUME NEW b \in Addresses, NEW c \in Addresses,
                        mail'[b].owner = mail'[c].owner,
                        mail'[b].primary, mail'[c].primary
                 PROVE  b = c
      BY DEF OnePrimary
    <3>1. CASE mail[b].owner = u
      BY <1>2, <3>1
    <3>2. CASE mail[b].owner # u
      BY <1>2, <3>2 DEF AccountInv, RowsInOrder, OnePrimary
    <3> QED
      BY <3>1, <3>2
  <2> QED
    BY <2>1, <2>2, <2>3
<1>7. SuspensionHolds' /\ SuspendedAreHere' /\ MarkedAreDisabled'
  BY <1>1 DEF AccountInv, RowsInOrder, SuspensionHolds, SuspendedAreHere,
     MarkedAreDisabled, Here
<1>8. PurgeInOrder'
  BY <1>1, PurgeRests DEF workers, Here
<1> QED
  BY <1>4, <1>5, <1>6, <1>7, <1>8 DEF AccountInv, RowsInOrder

\* A free address becomes an account's, new or not.
LEMMA AddressTaken ==
    ASSUME AccountInv, NEW u \in People, NEW a \in Addresses, mail[a] = Free,
           NEW r \in Address, r.owner = u, mail' = [mail EXCEPT ![a] = r],
           NEW row \in Account, row.is = "here",
           \/ acct' = acct /\ Here(u) /\ ~r.primary
           \/ /\ acct' = [acct EXCEPT ![u] = row] /\ acct[u].is = "none"
              /\ ~row.disabled /\ row.after = ""
              /\ row.own /\ ~row.pending => r.verified,
           r.verified => <<u, a>> \in proven',
           proven' \in {proven, proven \cup {<<u, a>>}},
           codes' \in {codes, codes \cup {<<u, a>>}}, invites' \subseteq Addresses,
           acctOps' \in 0..MaxAcctOps, UNCHANGED rest
    PROVE  AccountInv'
<1>0. /\ acct \in [People -> Account] /\ mail \in [Addresses -> Address]
      /\ UNCHANGED <<deletions, owns, wrote, orgAdmins, handler, suspended,
                     reopened, adminCmd, reaper, purger, acctFaults>>
  BY DEF AccountInv, AccountTypeOK, rest, workers
<1>1. \A v \in People : v # Nobody
  BY AccountAssumption
<1>2. /\ mail' \in [Addresses -> Address] /\ mail'[a] = r
      /\ \A b \in Addresses : b # a => mail'[b] = mail[b]
      /\ mail[a].owner = Nobody /\ ~mail[a].verified
  <2>1. Free.owner = Nobody /\ ~Free.verified
    BY DEF Free
  <2>2. mail[a].owner = Free.owner /\ mail[a].verified = Free.verified
    OBVIOUS
  <2> QED
    BY <1>0, <2>1, <2>2
<1>3. /\ acct' \in [People -> Account] /\ Here(u)'
      /\ \A v \in People : v # u => acct'[v] = acct[v]
      /\ acct'[u] = acct[u] \/ (acct'[u] = row /\ acct[u].is = "none")
      /\ \A v \in People : Here(v) => acct'[v] = acct[v]
  BY <1>0 DEF Here
<1>4. AccountTypeOK'
  <2>1. \A c \in codes' : mail'[c[2]].owner = c[1]
    <3> SUFFICES ASSUME NEW c \in codes' PROVE mail'[c[2]].owner = c[1]
      OBVIOUS
    <3>1. CASE c \in codes
      <4>1. mail[c[2]].owner = c[1] /\ c[2] \in Addresses /\ c[1] \in People
        BY <3>1 DEF AccountInv, AccountTypeOK
      <4> QED
        BY <1>1, <1>2, <4>1
    <3>2. CASE c = <<u, a>>
      BY <1>2, <3>2
    <3> QED
      BY <3>1, <3>2
  <2>2. codes' \subseteq People \X Addresses /\ proven' \subseteq People \X Addresses
    <3>1. codes \subseteq People \X Addresses /\ proven \subseteq People \X Addresses
      BY DEF AccountInv, AccountTypeOK
    <3>2. /\ codes' = codes \/ codes' = codes \cup {<<u, a>>}
          /\ proven' = proven \/ proven' = proven \cup {<<u, a>>}
      OBVIOUS
    <3>3. <<u, a>> \in People \X Addresses
      OBVIOUS
    <3>4. codes' \subseteq People \X Addresses
      BY <3>1, <3>2, <3>3, Zenon
    <3>5. proven' \subseteq People \X Addresses
      BY <3>1, <3>2, <3>3, Zenon
    <3> QED
      BY <3>4, <3>5
  <2> QED
    BY <1>0, <1>2, <1>3, <2>1, <2>2 DEF AccountInv, AccountTypeOK
<1>5. \A v \in People : /\ VerifiedOf(v) \subseteq VerifiedOf(v)'
                        /\ r.verified => a \in VerifiedOf(u)'
  BY <1>1, <1>2 DEF VerifiedOf
<1>6. VerifiedWasProven' /\ OwnersAreHere'
  <2>1. \A b \in Addresses : b # a =>
          /\ mail[b].verified => <<mail[b].owner, b>> \in proven
          /\ mail[b].owner # Nobody => Here(mail[b].owner)
          /\ mail[b].owner \in People \cup {Nobody}
    BY <1>0 DEF AccountInv, RowsInOrder, VerifiedWasProven, OwnersAreHere, Address
  <2>2. proven \subseteq proven'
    OBVIOUS
  <2>3. VerifiedWasProven'
    BY <1>2, <2>1, <2>2 DEF VerifiedWasProven
  <2>4. OwnersAreHere'
    <3> SUFFICES ASSUME NEW b \in Addresses, mail'[b].owner # Nobody
                 PROVE  Here(mail[b].owner)'
      BY DEF OwnersAreHere
    <3>1. CASE b = a
      BY <1>2, <1>3, <3>1 DEF Here
    <3>2. CASE b # a
      <4>1. mail'[b] = mail[b] /\ mail[b].owner \in People /\ Here(mail[b].owner)
        BY <1>2, <2>1, <3>2
      <4> QED
        BY <1>3, <4>1 DEF Here
    <3> QED
      BY <3>1, <3>2
  <2> QED
    BY <2>3, <2>4
<1>7. HandlersKnow'
  BY <1>0, <1>5 DEF AccountInv, RowsInOrder, HandlersKnow
<1>8. ActiveIsReachable'
  <2> SUFFICES ASSUME NEW v \in People, Here(v)', acct'[v].own, ~acct'[v].pending
               PROVE  VerifiedOf(v)' # {}
    BY DEF ActiveIsReachable
  <2>1. CASE acct'[v] = acct[v]
    BY <1>5, <2>1 DEF AccountInv, RowsInOrder, ActiveIsReachable, Here
  <2>2. CASE acct'[v] # acct[v]
    <3>1. v = u /\ acct' = [acct EXCEPT ![u] = row] /\ acct'[u] = row
          /\ (row.own /\ ~row.pending => r.verified)
      BY <1>0, <1>3, <2>2
    <3> QED
      BY <1>5, <3>1
  <2> QED
    BY <2>1, <2>2
<1>9. OnePrimary'
  <2>1. ~r.primary \/ \A b \in Addresses : mail[b].owner # u
    BY <1>1 DEF AccountInv, RowsInOrder, OwnersAreHere, Here
  <2> QED
    BY <1>2, <2>1 DEF AccountInv, RowsInOrder, OnePrimary
<1>10. SuspensionHolds' /\ SuspendedAreHere' /\ MarkedAreDisabled'
  <2>1. \A v \in suspended : v \in People /\ Here(v) /\ acct'[v] = acct[v]
    BY <1>3 DEF AccountInv, AccountTypeOK, RowsInOrder, SuspendedAreHere
  <2>2. SuspensionHolds' /\ SuspendedAreHere'
    BY <1>0, <2>1 DEF AccountInv, RowsInOrder, SuspensionHolds, SuspendedAreHere, Here
  <2>3. MarkedAreDisabled'
    <3> SUFFICES ASSUME NEW v \in People, Here(v)', acct'[v].after = "purging"
                 PROVE  acct'[v].disabled \/ v \in reopened
      BY <1>0 DEF MarkedAreDisabled
    <3>1. CASE acct'[v] = acct[v]
      BY <3>1 DEF AccountInv, RowsInOrder, MarkedAreDisabled, Here
    <3>2. CASE acct'[v] # acct[v]
      BY <1>0, <1>3, <3>2
    <3> QED
      BY <3>1, <3>2
  <2> QED
    BY <2>2, <2>3
<1>11. PurgeInOrder'
  BY <1>0, <1>3, PurgeRests DEF Here
<1> QED
  BY <1>4, <1>6, <1>7, <1>8, <1>9, <1>10, <1>11 DEF AccountInv, RowsInOrder

LEMMA OpCounts ==
    ASSUME AccountInv, Op
    PROVE  acctOps' \in 0..MaxAcctOps
BY AccountAssumption DEF Op, AccountInv, AccountTypeOK

LEMMA RegisterOpenKeeps ==
    ASSUME AccountInv, NEW u \in People, NEW a \in Addresses, RegisterOpen(u, a)
    PROVE  AccountInv'
<1> DEFINE row == [NoAccount EXCEPT !.is = "here", !.pending = TRUE, !.own = TRUE]
           r == [Free EXCEPT !.owner = u, !.primary = TRUE]
<1>1. /\ row \in Account /\ row.is = "here" /\ ~row.disabled /\ row.after = ""
      /\ row.pending
  BY DEF NoAccount, Account
<1>2. r \in Address /\ r.owner = u /\ ~r.verified
  BY DEF Free, Address
<1>3. invites' \subseteq Addresses
  BY DEF RegisterOpen, AccountInv, AccountTypeOK
<1>4. /\ mail[a] = Free /\ acct[u].is = "none"
      /\ acct' = [acct EXCEPT ![u] = row] /\ mail' = [mail EXCEPT ![a] = r]
      /\ codes' \in {codes, codes \cup {<<u, a>>}} /\ proven' = proven
      /\ UNCHANGED rest /\ Op
  BY DEF RegisterOpen
<1> HIDE DEF row, r
<1> QED
  BY <1>1, <1>2, <1>3, <1>4, OpCounts, AddressTaken

LEMMA RedeemInviteKeeps ==
    ASSUME AccountInv, NEW u \in People, NEW a \in Addresses, RedeemInvite(u, a)
    PROVE  AccountInv'
<1> DEFINE row == [NoAccount EXCEPT !.is = "here", !.own = TRUE]
           r == [owner |-> u, verified |-> TRUE, primary |-> TRUE]
<1>1. row \in Account /\ row.is = "here" /\ ~row.disabled /\ row.after = ""
  BY DEF NoAccount, Account
<1>2. r \in Address /\ r.owner = u /\ r.verified
  BY DEF Address
<1>3. invites' \subseteq Addresses
  BY DEF RedeemInvite, AccountInv, AccountTypeOK
<1>4. /\ mail[a] = Free /\ acct[u].is = "none"
      /\ acct' = [acct EXCEPT ![u] = row] /\ mail' = [mail EXCEPT ![a] = r]
      /\ codes' = codes /\ proven' = proven \cup {<<u, a>>}
      /\ UNCHANGED rest /\ Op
  BY DEF RedeemInvite
<1>5. <<u, a>> \in proven'
  BY <1>4
<1> HIDE DEF row, r
<1> QED
  BY <1>1, <1>2, <1>3, <1>4, <1>5, OpCounts, AddressTaken

LEMMA EmailAddKeeps ==
    ASSUME AccountInv, NEW u \in People, NEW a \in Addresses, EmailAdd(u, a)
    PROVE  AccountInv'
<1> DEFINE row == [NoAccount EXCEPT !.is = "here"]
           r == [Free EXCEPT !.owner = u]
<1>1. row \in Account /\ row.is = "here"
  BY DEF NoAccount, Account
<1>2. r \in Address /\ r.owner = u /\ ~r.verified /\ ~r.primary
  BY DEF Free, Address
<1>3. invites' \subseteq Addresses
  BY DEF EmailAdd, AccountInv, AccountTypeOK
<1>4. /\ mail[a] = Free /\ Here(u) /\ acct' = acct
      /\ mail' = [mail EXCEPT ![a] = r]
      /\ codes' \in {codes, codes \cup {<<u, a>>}} /\ proven' = proven
      /\ UNCHANGED rest /\ Op
  BY DEF EmailAdd, MayRun
<1> HIDE DEF row, r
<1> QED
  BY <1>1, <1>2, <1>3, <1>4, OpCounts, AddressTaken

LEMMA AdminUserCreateKeeps ==
    ASSUME AccountInv, NEW u \in People, NEW a \in Addresses,
           NEW verified \in BOOLEAN, AdminUserCreate(u, a, verified)
    PROVE  AccountInv'
<1> DEFINE row == [NoAccount EXCEPT !.is = "here"]
           r == [owner |-> u, verified |-> verified, primary |-> TRUE]
<1>1. /\ row \in Account /\ row.is = "here" /\ ~row.disabled /\ row.after = ""
      /\ ~row.own
  BY DEF NoAccount, Account
<1>2. r \in Address /\ r.owner = u /\ r.verified = verified
  BY DEF Address
<1>3. invites' \subseteq Addresses /\ invites' = invites
  BY DEF AdminUserCreate, AccountInv, AccountTypeOK
<1>4. /\ acct[u].is = "none" /\ acct' = [acct EXCEPT ![u] = row]
      /\ codes' = codes /\ UNCHANGED rest /\ Op
  BY DEF AdminUserCreate
<1>5. CASE mail[a] = Free
  <2>1. /\ mail' = [mail EXCEPT ![a] = r]
        /\ proven' = IF verified THEN proven \cup {<<u, a>>} ELSE proven
    BY <1>5 DEF AdminUserCreate
  <2>2. /\ r.verified => <<u, a>> \in proven'
        /\ proven' \in {proven, proven \cup {<<u, a>>}}
    BY <1>2, <2>1
  <2> HIDE DEF row, r
  <2> QED
    BY <1>1, <1>2, <1>3, <1>4, <1>5, <2>1, <2>2, OpCounts, AddressTaken
<1>6. CASE mail[a] # Free
  <2>1. mail' = mail /\ proven' = proven
    BY <1>6 DEF AdminUserCreate
  <2> HIDE DEF row, r
  <2>2. /\ acct' \in [People -> Account] /\ acct'[u] = row
        /\ \A v \in People : v # u => acct'[v] = acct[v]
        /\ \A v \in People : Here(v) => v # u
    BY <1>1, <1>4 DEF AccountInv, AccountTypeOK, Here
  <2>3. UNCHANGED <<deletions, owns, wrote, orgAdmins, handler, suspended,
                    reopened, adminCmd, reaper, purger, acctFaults>>
    BY <1>4 DEF rest, workers
  <2>4. AccountTypeOK'
    BY <1>3, <1>4, <2>1, <2>2, <2>3, OpCounts DEF AccountInv, AccountTypeOK
  <2>5. \A v \in People : VerifiedOf(v)' = VerifiedOf(v)
    BY <2>1 DEF VerifiedOf
  <2>6. HandlersKnow' /\ VerifiedWasProven' /\ OnePrimary'
    BY <2>1, <2>3, <2>5 DEF AccountInv, RowsInOrder, HandlersKnow, VerifiedWasProven,
       OnePrimary
  <2>7. OwnersAreHere'
    BY <2>1, <2>2 DEF AccountInv, AccountTypeOK, Address, RowsInOrder, OwnersAreHere,
       Here
  <2>8. ActiveIsReachable' /\ MarkedAreDisabled'
    BY <1>1, <2>2, <2>3, <2>5 DEF AccountInv, RowsInOrder, ActiveIsReachable,
       MarkedAreDisabled, Here
  <2>9. \A v \in suspended : v \in People /\ Here(v) /\ acct'[v] = acct[v]
    BY <2>2 DEF AccountInv, AccountTypeOK, RowsInOrder, SuspendedAreHere
  <2>10. SuspensionHolds' /\ SuspendedAreHere'
    BY <2>3, <2>9 DEF AccountInv, RowsInOrder, SuspensionHolds, SuspendedAreHere, Here
  <2>11. PurgeInOrder'
    BY <1>4, <2>2, <2>3, PurgeRests DEF Here
  <2> QED
    BY <2>4, <2>6, <2>7, <2>8, <2>10, <2>11 DEF AccountInv, RowsInOrder
<1> QED
  BY <1>5, <1>6

\* Steps that touch no account, address or proof, nor a handler that verifies.
LEMMA RestKeeps ==
    ASSUME AccountInv,
           \/ \E a \in Addresses : Invite(a)
           \/ \E u \in People, a \in Addresses : CodeExpires(u, a)
           \/ \E u \in People : \/ CreateRepo(u) \/ Write(u) \/ JoinOrg(u)
                                \/ LeaveOrg(u) \/ RequestDeletion(u) \/ LinkExpires(u)
    PROVE  AccountInv'
<1>1. /\ UNCHANGED <<acct, mail, proven, handler, suspended, reopened, workers>>
      /\ codes' \subseteq codes
  BY DEF Invite, CodeExpires, CreateRepo, Write, JoinOrg, LeaveOrg, RequestDeletion,
     LinkExpires, rest
<1>2. acctOps' \in 0..MaxAcctOps
  <2>1. Op \/ acctOps' = acctOps
    BY DEF Invite, CodeExpires, CreateRepo, Write, JoinOrg, LeaveOrg,
       RequestDeletion, LinkExpires
  <2> QED
    BY <2>1, OpCounts DEF AccountInv, AccountTypeOK
<1>3. /\ invites' \subseteq Addresses /\ deletions' \subseteq People
      /\ owns' \subseteq People /\ wrote' \subseteq People /\ orgAdmins' \subseteq People
  BY DEF Invite, CodeExpires, CreateRepo, Write, JoinOrg, LeaveOrg, RequestDeletion,
     LinkExpires, rest, AccountInv, AccountTypeOK
<1>4. AccountTypeOK'
  BY <1>1, <1>2, <1>3 DEF AccountInv, AccountTypeOK, workers
<1>5. RowsInOrder' /\ PurgeInOrder'
  BY <1>1, RowsRest, PurgeRests DEF workers, Here
<1> QED
  BY <1>4, <1>5 DEF AccountInv

LEMMA AdminAsksKeeps ==
    ASSUME AccountInv, NEW u \in People,
           AdminSet(u, TRUE) \/ AdminSet(u, FALSE) \/ AdminDelete(u)
    PROVE  AccountInv'
<1>1. /\ UNCHANGED <<acct, mail, codes, invites, deletions, owns, wrote, orgAdmins,
                     handler, reaper, purger, proven, suspended, reopened, acctFaults>>
      /\ Op
      /\ \E step \in {"drop", "delete"}, disable \in BOOLEAN :
           adminCmd' = [at |-> step, who |-> u, disable |-> disable]
  BY DEF AdminSet, AdminDelete
<1>2. adminCmd' \in AdminCmd /\ adminCmd'.who \in People
  BY <1>1 DEF AdminCmd
<1>3. AccountTypeOK'
  BY <1>1, <1>2, OpCounts DEF AccountInv, AccountTypeOK
<1>4. RowsInOrder' /\ PurgeInOrder'
  BY <1>1, RowsRest, PurgeRests DEF Here
<1> QED
  BY <1>3, <1>4 DEF AccountInv

LEMMA AdminDropKeeps ==
    ASSUME AccountInv, AdminDrop
    PROVE  AccountInv'
<1>1. /\ UNCHANGED <<acct, mail, codes, invites, owns, wrote, orgAdmins, handler,
                     reaper, purger, proven, suspended, reopened, acctOps, acctFaults>>
      /\ deletions' \subseteq deletions /\ adminCmd.at = "drop"
      /\ adminCmd' = [adminCmd EXCEPT !.at = "update"]
  BY DEF AdminDrop
<1>2. adminCmd' \in AdminCmd /\ adminCmd'.who \in People
  BY <1>1 DEF AccountInv, AccountTypeOK, AdminCmd
<1>3. AccountTypeOK'
  BY <1>1, <1>2 DEF AccountInv, AccountTypeOK
<1>4. RowsInOrder' /\ PurgeInOrder'
  BY <1>1, RowsRest, PurgeRests DEF Here
<1> QED
  BY <1>3, <1>4 DEF AccountInv

\* The row of an account goes, and all that hangs on it.
LEMMA ErasureKeeps ==
    ASSUME AccountInv, NEW u \in People, acct[u].is # "none", Erase(u),
           UNCHANGED <<invites, owns, wrote, acctOps, acctFaults>>,
           adminCmd' \in {adminCmd, IdleAdmin},
           reaper' \in Reaper, reaper'.checked => reaper'.list # {},
           purger' \in Purger
    PROVE  AccountTypeOK' /\ RowsInOrder' /\ (purger' = purger => PurgeInOrder')
<1> DEFINE row == [NoAccount EXCEPT !.is = "gone"]
<1>1. row \in Account /\ row.is = "gone" /\ row.after = ""
  BY DEF NoAccount, Account
<1>2. acct' = [acct EXCEPT ![u] = row]
  BY DEF Erase
<1> HIDE DEF row
<1>3. /\ acct' \in [People -> Account] /\ acct'[u] = row
      /\ \A v \in People : v # u => acct'[v] = acct[v]
  BY <1>1, <1>2 DEF AccountInv, AccountTypeOK
<1>4. Free \in Address /\ Free.owner = Nobody /\ ~Free.verified /\ ~Free.primary
  BY DEF Free, Address
<1>5. \A b \in Addresses : mail'[b] = IF mail[b].owner = u THEN Free ELSE mail[b]
  BY DEF Erase
<1>6. mail' \in [Addresses -> Address]
  BY <1>4 DEF Erase, AccountInv, AccountTypeOK
<1>7. handler' \in [People -> Handler] /\ handler'[u].at = "idle"
      /\ \A v \in People : v # u => handler'[v] = handler[v]
  BY DEF Erase, AccountInv, AccountTypeOK, IdleHandler, Handler
<1>8. /\ codes' = {c \in codes : c[1] # u} /\ proven' = {p \in proven : p[1] # u}
      /\ suspended' = suspended \ {u} /\ reopened' = reopened \ {u}
      /\ deletions' = deletions \ {u} /\ orgAdmins' = orgAdmins \ {u}
  BY DEF Erase
<1>9. AccountTypeOK'
  <2>1. \A c \in codes' : mail'[c[2]].owner = c[1]
    <3> SUFFICES ASSUME NEW c \in codes' PROVE mail'[c[2]].owner = c[1]
      OBVIOUS
    <3>1. c \in codes /\ c[1] # u
      BY <1>8
    <3>2. mail[c[2]].owner = c[1] /\ c[2] \in Addresses
      BY <3>1 DEF AccountInv, AccountTypeOK
    <3> QED
      BY <1>5, <3>1, <3>2
  <2>2. adminCmd' \in AdminCmd /\ (adminCmd'.at # "idle" => adminCmd'.who \in People)
    <3>1. IdleAdmin \in AdminCmd /\ IdleAdmin.at = "idle"
      BY DEF IdleAdmin, AdminCmd
    <3> QED
      BY <3>1 DEF AccountInv, AccountTypeOK
  <2>3. /\ codes' \subseteq codes /\ proven' \subseteq proven
        /\ suspended' \subseteq suspended /\ reopened' \subseteq reopened
        /\ deletions' \subseteq deletions /\ orgAdmins' \subseteq orgAdmins
    BY <1>8
  <2>4. /\ codes' \subseteq People \X Addresses /\ proven' \subseteq People \X Addresses
        /\ suspended' \subseteq People /\ reopened' \subseteq People
        /\ deletions' \subseteq People /\ orgAdmins' \subseteq People
    BY <2>3 DEF AccountInv, AccountTypeOK
  <2>5. /\ invites' \subseteq Addresses /\ owns' \subseteq People /\ wrote' \subseteq People
        /\ acctOps' \in 0..MaxAcctOps /\ acctFaults' \in 0..MaxAcctFaults
    BY DEF AccountInv, AccountTypeOK
  <2> QED
    BY <1>3, <1>6, <1>7, <2>1, <2>2, <2>4, <2>5 DEF AccountTypeOK
<1>10. \A v \in People : v # u => VerifiedOf(v)' = VerifiedOf(v) /\ Here(v)' = Here(v)
  <2>1. \A v \in People : v # Nobody
    BY AccountAssumption
  <2> QED
    BY <1>3, <1>4, <1>5, <2>1 DEF VerifiedOf, Here
<1>11. ~Here(u)'
  BY <1>1, <1>3 DEF Here
<1>12. HandlersKnow' /\ ActiveIsReachable'
  <2>1. \A v \in People : v # u => \A b : <<v, b>> \in proven => <<v, b>> \in proven'
    BY <1>8
  <2>2. HandlersKnow'
    BY <1>7, <1>10, <2>1 DEF AccountInv, RowsInOrder, HandlersKnow
  <2>3. ActiveIsReachable'
    BY <1>3, <1>10, <1>11 DEF AccountInv, RowsInOrder, ActiveIsReachable
  <2> QED
    BY <2>2, <2>3
<1>13. VerifiedWasProven'
  <2> SUFFICES ASSUME NEW b \in Addresses, mail'[b].verified
               PROVE  <<mail'[b].owner, b>> \in proven'
    BY DEF VerifiedWasProven
  <2>1. mail[b].owner # u /\ mail'[b] = mail[b]
    BY <1>4, <1>5
  <2>2. <<mail[b].owner, b>> \in proven
    BY <2>1 DEF AccountInv, RowsInOrder, VerifiedWasProven
  <2> QED
    BY <1>8, <2>1, <2>2
<1>14. OwnersAreHere'
  <2> SUFFICES ASSUME NEW b \in Addresses, mail'[b].owner # Nobody
               PROVE  Here(mail[b].owner)'
    BY DEF OwnersAreHere
  <2>1. mail[b].owner # u /\ mail'[b] = mail[b]
    BY <1>4, <1>5
  <2>2. Here(mail[b].owner) /\ mail[b].owner \in People
    BY <2>1 DEF AccountInv, AccountTypeOK, Address, RowsInOrder, OwnersAreHere
  <2> QED
    BY <1>3, <2>1, <2>2 DEF Here
<1>15. OnePrimary'
  <2> SUFFICES ASSUME NEW b \in Addresses, NEW c \in Addresses,
                      mail'[b].owner = mail'[c].owner,
                      mail'[b].primary, mail'[c].primary
               PROVE  b = c
    BY DEF OnePrimary
  <2>1. mail'[b] = mail[b] /\ mail'[c] = mail[c]
    BY <1>4, <1>5
  <2> QED
    BY <2>1 DEF AccountInv, RowsInOrder, OnePrimary
<1>16. SuspensionHolds' /\ SuspendedAreHere'
  <2>1. \A v \in suspended' : v \in People /\ v \in suspended /\ acct'[v] = acct[v]
    BY <1>3, <1>8 DEF AccountInv, AccountTypeOK
  <2> QED
    BY <2>1 DEF AccountInv, RowsInOrder, SuspensionHolds, SuspendedAreHere, Here
<1>17. MarkedAreDisabled'
  BY <1>3, <1>8, <1>11 DEF AccountInv, RowsInOrder, MarkedAreDisabled, Here
<1>18. purger' = purger => PurgeInOrder'
  BY <1>1, <1>3, <1>8, PurgeRests DEF Here
<1> QED
  BY <1>9, <1>12, <1>13, <1>14, <1>15, <1>16, <1>17, <1>18 DEF RowsInOrder

LEMMA AdminEraseKeeps ==
    ASSUME AccountInv, AdminErase
    PROVE  AccountInv'
<1>1. PICK u \in People : u = adminCmd.who
  BY DEF AdminErase, AccountInv, AccountTypeOK
<1>2. /\ adminCmd' = IdleAdmin
      /\ UNCHANGED <<invites, owns, wrote, reaper, purger, acctOps, acctFaults>>
  BY DEF AdminErase
<1>3. CASE Here(u)
  <2>1. Erase(u) /\ acct[u].is # "none"
    BY <1>1, <1>3 DEF AdminErase, Here
  <2>2. /\ reaper' \in Reaper /\ (reaper'.checked => reaper'.list # {})
        /\ purger' \in Purger
    BY <1>2 DEF AccountInv, AccountTypeOK
  <2> QED
    BY <1>2, <2>1, <2>2, ErasureKeeps DEF AccountInv
<1>4. CASE ~Here(u)
  <2>1. UNCHANGED <<acct, mail, codes, deletions, orgAdmins, proven, suspended,
                    reopened, handler>>
    BY <1>1, <1>4 DEF AdminErase
  <2>2. AccountTypeOK'
    BY <1>2, <2>1 DEF AccountInv, AccountTypeOK, IdleAdmin, AdminCmd
  <2>3. RowsInOrder' /\ PurgeInOrder'
    BY <1>2, <2>1, RowsRest, PurgeRests DEF Here
  <2> QED
    BY <2>2, <2>3 DEF AccountInv
<1> QED
  BY <1>3, <1>4

LEMMA ReapStepKeeps ==
    ASSUME AccountInv, ReapStep
    PROVE  AccountInv'
<1>0. reaper \in Reaper /\ (reaper.checked => reaper.list # {})
  BY DEF AccountInv, AccountTypeOK
<1>1. ASSUME reaper' \in Reaper, reaper'.checked => reaper'.list # {},
             UNCHANGED <<acct, mail, codes, invites, deletions, owns, wrote,
                         orgAdmins, handler, adminCmd, purger, proven, suspended,
                         reopened, acctOps, acctFaults>>
      PROVE  AccountInv'
  <2>1. AccountTypeOK'
    BY <1>1 DEF AccountInv, AccountTypeOK
  <2>2. RowsInOrder' /\ PurgeInOrder'
    BY <1>1, RowsRest, PurgeRests DEF Here
  <2> QED
    BY <2>1, <2>2 DEF AccountInv
<1>2. CASE ReapList
  <2>1. reaper' \in Reaper /\ reaper'.list # {}
    BY <1>0, <1>2 DEF ReapList, Stale, Reaper
  <2> QED
    BY <1>1, <1>2, <2>1 DEF ReapList
<1>3. CASE ReapCheck
  <2>1. reaper' \in Reaper /\ (reaper'.checked => reaper'.list # {})
    BY <1>0, <1>3 DEF ReapCheck, Reaper
  <2> QED
    BY <1>1, <1>3, <2>1 DEF ReapCheck
<1>4. CASE ReapErase
  <2>1. PICK u \in People : u = Reaped
    BY <1>0, <1>4 DEF ReapErase, Reaped, Reaper
  <2>2. /\ reaper' \in Reaper /\ ~reaper'.checked
        /\ UNCHANGED <<invites, owns, wrote, adminCmd, purger, acctOps, acctFaults>>
    BY <1>0, <1>4 DEF ReapErase, Reaper
  <2>3. CASE Here(u)
    <3>1. Erase(u) /\ acct[u].is # "none"
      BY <1>4, <2>1, <2>3 DEF ReapErase, Here
    <3>2. purger' \in Purger
      BY <2>2 DEF AccountInv, AccountTypeOK
    <3> QED
      BY <2>2, <3>1, <3>2, ErasureKeeps DEF AccountInv
  <2>4. CASE ~Here(u)
    <3>1. UNCHANGED <<acct, mail, codes, deletions, orgAdmins, proven, suspended,
                      reopened, handler>>
      BY <1>4, <2>1, <2>4 DEF ReapErase
    <3> QED
      BY <1>1, <2>2, <3>1
  <2> QED
    BY <2>3, <2>4
<1> QED
  BY <1>2, <1>3, <1>4 DEF ReapStep

\* On to the next of the list, which is still of accounts that once were.
LEMMA NextKeeps ==
    ASSUME AccountInv, purger.at # "idle", PurgeNext,
           \A v \in People : acct[v].is # "none" => acct'[v].is # "none"
    PROVE  purger' \in Purger /\ PurgeInOrder'
<1>0. purger \in Purger /\ Purged \in purger.list
  BY PurgedIsListed DEF AccountInv, AccountTypeOK
<1>1. CASE purger.list = {Purged}
  <2>1. purger' = IdlePurger
    BY <1>1 DEF PurgeNext
  <2> QED
    BY <2>1 DEF IdlePurger, Purger, PurgeInOrder, PurgedExisted, PurgeIsClaimed
<1>2. CASE purger.list # {Purged}
  <2>1. purger' = [purger EXCEPT !.list = @ \ {Purged}, !.at = "check"]
    BY <1>2 DEF PurgeNext
  <2>2. /\ purger' \in Purger /\ purger'.list = purger.list \ {Purged}
        /\ purger'.at = "check"
    BY <1>0, <2>1 DEF Purger
  <2>3. purger'.list # {}
    BY <1>0, <1>2, <2>2
  <2>4. \A v \in purger'.list : acct'[v].is # "none"
    BY <1>0, <2>2 DEF AccountInv, PurgeInOrder, PurgedExisted, Purger
  <2> QED
    BY <2>2, <2>3, <2>4 DEF PurgeInOrder, PurgedExisted, PurgeIsClaimed
<1> QED
  BY <1>1, <1>2

\* The purge's own steps that leave the rows alone.
LEMMA PurgeMoves ==
    ASSUME AccountInv, purger' \in Purger, PurgeInOrder',
           owns' \subseteq owns, wrote' \subseteq wrote,
           acctFaults' \in 0..MaxAcctFaults,
           UNCHANGED <<acct, mail, codes, invites, deletions, orgAdmins, handler,
                       adminCmd, reaper, proven, suspended, reopened, acctOps>>
    PROVE  AccountInv'
<1>1. AccountTypeOK'
  BY DEF AccountInv, AccountTypeOK
<1>2. RowsInOrder'
  BY RowsRest
<1> QED
  BY <1>1, <1>2 DEF AccountInv

\* From one step of a purge to the next.
LEMMA GoesTo ==
    ASSUME AccountInv, purger.at # "idle",
           NEW step \in {"claim", "repos", "ghost", "blockers", "delete"},
           PurgeTo(step), UNCHANGED <<acct, reopened>>,
           step # "claim" => purger.at \in {"repos", "ghost", "blockers"}
    PROVE  purger' \in Purger /\ PurgeInOrder'
<1>1. /\ purger' \in Purger /\ purger'.list = purger.list /\ purger'.at = step
  BY DEF PurgeTo, AccountInv, AccountTypeOK, Purger
<1>2. Purged' = Purged
  BY <1>1 DEF Purged
<1>3. PurgedExisted'
  BY <1>1 DEF AccountInv, AccountTypeOK, Purger, PurgeInOrder, PurgedExisted
<1>4. PurgeIsClaimed'
  BY <1>1, <1>2 DEF AccountInv, PurgeInOrder, PurgeIsClaimed, Here
<1> QED
  BY <1>1, <1>3, <1>4 DEF PurgeInOrder

LEMMA PurgeStepKeeps ==
    ASSUME AccountInv, PurgeStep \/ PurgeFails
    PROVE  AccountInv'
<1>0. acctFaults \in 0..MaxAcctFaults
  BY DEF AccountInv, AccountTypeOK
<1>1. CASE PurgeList
  <2>1. /\ purger'.at = "check" /\ purger'.list = DueDeletions /\ DueDeletions # {}
        /\ purger' \in Purger
    BY <1>1 DEF PurgeList, DueDeletions, Purger
  <2>2. acct' = acct
    BY <1>1 DEF PurgeList
  <2>3. PurgeInOrder'
    BY <2>1, <2>2 DEF PurgeInOrder, PurgedExisted, PurgeIsClaimed, DueDeletions, Here
  <2> QED
    BY <1>0, <1>1, <2>1, <2>3, PurgeMoves DEF PurgeList
<1>2. CASE PurgeCheck
  <2>1. purger.at # "idle" /\ UNCHANGED <<acct, reopened>>
        /\ (PurgeNext \/ PurgeTo("claim"))
    BY <1>2 DEF PurgeCheck
  <2>2. purger' \in Purger /\ PurgeInOrder'
    BY <2>1, NextKeeps, GoesTo
  <2> QED
    BY <1>0, <1>2, <2>2, PurgeMoves DEF PurgeCheck
<1>3. CASE PurgeClaim
  <2>1. PICK u \in People : u = Purged /\ acct[u].is # "none" /\ u \in purger.list
    BY <1>3, PurgedIsListed DEF PurgeClaim
  <2>2. UNCHANGED <<mail, codes, invites, deletions, owns, wrote, orgAdmins,
                    handler, adminCmd, reaper, proven, suspended, reopened, acctOps,
                    acctFaults>>
        /\ purger.at = "claim"
    BY <1>3 DEF PurgeClaim
  <2>3. CASE Claimable(u)
    <3>1. PICK r : r = [acct[u] EXCEPT !.after = "purging"]
      OBVIOUS
    <3>2. acct' = [acct EXCEPT ![u] = r] /\ PurgeTo("repos")
      BY <1>3, <2>1, <2>3, <3>1 DEF PurgeClaim
    <3>3. /\ r \in Account /\ r.is = "here" /\ r.own = acct[u].own
          /\ r.pending = acct[u].pending /\ r.disabled /\ r.after = "purging"
          /\ Here(u)
      BY <2>3, <3>1 DEF AccountInv, AccountTypeOK, Account, Claimable, Here
    <3>4. acct' \in [People -> Account] /\ acct'[u] = r
          /\ \A v \in People : v # u => acct'[v] = acct[v]
      BY <3>2, <3>3 DEF AccountInv, AccountTypeOK
    <3>5. purger' \in Purger /\ purger'.list = purger.list /\ purger'.at = "repos"
      BY <3>2 DEF PurgeTo, AccountInv, AccountTypeOK, Purger
    <3>6. AccountTypeOK'
      BY <2>2, <3>4, <3>5 DEF AccountInv, AccountTypeOK
    <3>7. r.own /\ ~r.pending => VerifiedOf(u) # {}
      BY <3>3 DEF AccountInv, RowsInOrder, ActiveIsReachable
    <3>8. RowsInOrder'
      BY <2>2, <3>2, <3>3, <3>7, RowWritten
    <3>9. Purged' = Purged
      BY <3>5 DEF Purged
    <3>10. PurgeInOrder'
      <4>1. PurgedExisted'
        BY <2>1, <3>3, <3>4, <3>5 DEF AccountInv, AccountTypeOK, Purger, PurgeInOrder,
           PurgedExisted
      <4>2. PurgeIsClaimed'
        BY <2>1, <3>3, <3>4, <3>9 DEF PurgeIsClaimed
      <4> QED
        BY <4>1, <4>2 DEF PurgeInOrder
    <3> QED
      BY <3>6, <3>8, <3>10 DEF AccountInv
  <2>4. CASE ~Claimable(u)
    <3>1. PurgeNext /\ acct' = acct
      BY <1>3, <2>1, <2>4 DEF PurgeClaim
    <3>2. purger' \in Purger /\ PurgeInOrder'
      BY <2>2, <3>1, NextKeeps
    <3> QED
      BY <1>0, <2>2, <3>1, <3>2, PurgeMoves
  <2> QED
    BY <2>3, <2>4
<1>4. CASE PurgeRepos
  <2>1. purger' \in Purger /\ PurgeInOrder'
    BY <1>4, GoesTo DEF PurgeRepos
  <2> QED
    BY <1>0, <1>4, <2>1, PurgeMoves DEF PurgeRepos
<1>5. CASE PurgeGhost
  <2>1. purger' \in Purger /\ PurgeInOrder'
    BY <1>5, GoesTo DEF PurgeGhost
  <2> QED
    BY <1>0, <1>5, <2>1, PurgeMoves DEF PurgeGhost
<1>6. CASE PurgeBlockers
  <2>1. /\ purger.at = "blockers" /\ UNCHANGED <<acct, reopened>>
        /\ (PurgeNext \/ PurgeTo("delete"))
    BY <1>6 DEF PurgeBlockers
  <2>2. purger' \in Purger /\ PurgeInOrder'
    BY <2>1, NextKeeps, GoesTo
  <2> QED
    BY <1>0, <1>6, <2>2, PurgeMoves DEF PurgeBlockers
<1>7. CASE PurgeErase
  <2>1. PICK u \in People : u = Purged /\ acct[u].is # "none"
    BY <1>7, PurgedIsListed DEF PurgeErase
  <2>2. /\ purger.at = "delete" /\ PurgeNext
        /\ UNCHANGED <<invites, owns, wrote, adminCmd, reaper, acctOps, acctFaults>>
    BY <1>7 DEF PurgeErase
  <2>3. CASE Here(u)
    <3>1. Erase(u)
      BY <1>7, <2>1, <2>3 DEF PurgeErase
    <3>2. \A v \in People : acct[v].is # "none" => acct'[v].is # "none"
      BY <3>1 DEF Erase, NoAccount, AccountInv, AccountTypeOK
    <3>3. purger' \in Purger /\ PurgeInOrder'
      BY <2>2, <3>2, NextKeeps
    <3>4. reaper' \in Reaper /\ (reaper'.checked => reaper'.list # {})
      BY <2>2 DEF AccountInv, AccountTypeOK
    <3> QED
      BY <2>1, <2>2, <3>1, <3>3, <3>4, ErasureKeeps DEF AccountInv
  <2>4. CASE ~Here(u)
    <3>1. UNCHANGED <<acct, mail, codes, deletions, orgAdmins, proven, suspended,
                      reopened, handler>>
      BY <1>7, <2>1, <2>4 DEF PurgeErase
    <3>2. purger' \in Purger /\ PurgeInOrder'
      BY <2>2, <3>1, NextKeeps
    <3> QED
      BY <1>0, <2>2, <3>1, <3>2, PurgeMoves
  <2> QED
    BY <2>3, <2>4
<1>8. CASE PurgeFails
  <2>1. /\ purger.at # "idle" /\ PurgeNext /\ acct' = acct
        /\ acctFaults' \in 0..MaxAcctFaults
    BY <1>0, <1>8, AccountAssumption DEF PurgeFails
  <2>2. purger' \in Purger /\ PurgeInOrder'
    BY <2>1, NextKeeps
  <2> QED
    BY <1>8, <2>1, <2>2, PurgeMoves DEF PurgeFails
<1> QED
  BY <1>1, <1>2, <1>3, <1>4, <1>5, <1>6, <1>7, <1>8 DEF PurgeStep

LEMMA AccountRestartKeeps ==
    ASSUME AccountInv, AccountRestart
    PROVE  AccountInv'
<1>1. /\ handler' = [u \in People |-> IdleHandler] /\ adminCmd' = IdleAdmin
      /\ reaper' = IdleReaper /\ purger' = IdlePurger
      /\ acctFaults' \in 0..MaxAcctFaults
      /\ UNCHANGED <<acct, mail, codes, invites, deletions, owns, wrote, orgAdmins,
                     proven, suspended, reopened, acctOps>>
  BY AccountAssumption DEF AccountRestart, AccountInv, AccountTypeOK
<1>2. /\ handler' \in [People -> Handler] /\ adminCmd' \in AdminCmd
      /\ reaper' \in Reaper /\ purger' \in Purger
      /\ adminCmd'.at = "idle" /\ ~reaper'.checked /\ purger'.at = "idle"
      /\ purger'.list = {} /\ \A u \in People : handler'[u].at = "idle"
  BY <1>1 DEF IdleHandler, Handler, IdleAdmin, AdminCmd, IdleReaper, Reaper,
     IdlePurger, Purger
<1>3. AccountTypeOK'
  BY <1>1, <1>2 DEF AccountInv, AccountTypeOK
<1>4. RowsInOrder'
  BY <1>1, <1>2 DEF AccountInv, RowsInOrder, VerifiedWasProven, SuspensionHolds,
     OwnersAreHere, HandlersKnow, ActiveIsReachable, OnePrimary, SuspendedAreHere,
     MarkedAreDisabled, VerifiedOf, Here
<1>5. PurgeInOrder'
  BY <1>2 DEF PurgeInOrder, PurgedExisted, PurgeIsClaimed
<1> QED
  BY <1>3, <1>4, <1>5 DEF AccountInv

LEMMA AccountInitially == AccountInit => AccountInv
<1> SUFFICES ASSUME AccountInit PROVE AccountInv
  OBVIOUS
<1>1. /\ acct \in [People -> Account]
      /\ \A u \in People : ~acct[u].own /\ acct[u].after = ""
  <2>1. PICK made \in SUBSET People, root \in People :
          acct = [u \in People |->
                    IF u \in made \cup {root}
                    THEN [NoAccount EXCEPT !.is = "here", !.admin = (u = root)]
                    ELSE NoAccount]
    BY DEF AccountInit
  <2>2. ASSUME NEW e \in BOOLEAN
        PROVE  LET row == [NoAccount EXCEPT !.is = "here", !.admin = e]
               IN  row \in Account /\ ~row.own /\ row.after = ""
    BY DEF NoAccount, Account
  <2>3. \A u \in People : /\ acct[u] \in Account /\ ~acct[u].own
                           /\ acct[u].after = ""
    <3> TAKE u \in People
    <3>1. CASE u \in made \cup {root}
      <4>1. PICK e \in BOOLEAN : e = (u = root)
        OBVIOUS
      <4>2. acct[u] = [NoAccount EXCEPT !.is = "here", !.admin = (u = root)]
        BY <2>1, <3>1
      <4>3. acct[u] = [NoAccount EXCEPT !.is = "here", !.admin = e]
        BY <4>1, <4>2, Zenon
      <4> QED
        BY <2>2, <4>3
    <3>2. CASE u \notin made \cup {root}
      BY <2>1, <3>2 DEF NoAccount, Account
    <3> QED
      BY <3>1, <3>2
  <2> QED
    BY <2>1, <2>3
<1>2. /\ mail \in [Addresses -> Address]
      /\ \A a \in Addresses : /\ mail[a].owner = Nobody
                              /\ ~mail[a].verified /\ ~mail[a].primary
  BY DEF AccountInit, Free, Address
<1>3. /\ handler \in [People -> Handler] /\ adminCmd \in AdminCmd
      /\ reaper \in Reaper /\ purger \in Purger
      /\ adminCmd.at = "idle" /\ ~reaper.checked /\ purger.at = "idle"
      /\ purger.list = {} /\ \A u \in People : handler[u].at = "idle"
  BY DEF AccountInit, IdleHandler, Handler, IdleAdmin, AdminCmd, IdleReaper, Reaper,
     IdlePurger, Purger
<1>4. /\ codes = {} /\ invites = {} /\ deletions = {} /\ owns = {} /\ wrote = {}
      /\ orgAdmins = {} /\ proven = {} /\ suspended = {} /\ reopened = {}
      /\ acctOps = 0 /\ acctFaults = 0
  BY DEF AccountInit
<1>5. AccountTypeOK
  <2>1. acctOps \in 0..MaxAcctOps /\ acctFaults \in 0..MaxAcctFaults
    BY <1>4, AccountAssumption
  <2>2. /\ codes \subseteq People \X Addresses
        /\ proven \subseteq People \X Addresses
        /\ \A c \in codes : mail[c[2]].owner = c[1]
    BY <1>4
  <2>3. /\ invites \subseteq Addresses
        /\ deletions \subseteq People /\ owns \subseteq People
        /\ wrote \subseteq People /\ orgAdmins \subseteq People
        /\ suspended \subseteq People /\ reopened \subseteq People
    BY <1>4
  <2> QED
    BY <1>1, <1>2, <1>3, <2>1, <2>2, <2>3 DEF AccountTypeOK
<1>6. RowsInOrder
  BY <1>1, <1>2, <1>3, <1>4 DEF RowsInOrder, VerifiedWasProven, SuspensionHolds,
     OwnersAreHere, HandlersKnow, ActiveIsReachable, OnePrimary, SuspendedAreHere,
     MarkedAreDisabled
<1>7. PurgeInOrder
  BY <1>3 DEF PurgeInOrder, PurgedExisted, PurgeIsClaimed
<1> QED
  BY <1>5, <1>6, <1>7 DEF AccountInv

LEMMA AccountStep == AccountInv /\ [AccountNext]_accountVars => AccountInv'
<1> SUFFICES ASSUME AccountInv, [AccountNext]_accountVars PROVE AccountInv'
  OBVIOUS
<1>1. ASSUME NEW u \in People, NEW a \in Addresses,
             \/ RegisterOpen(u, a) \/ RedeemInvite(u, a)
             \/ AdminUserCreate(u, a, TRUE) \/ AdminUserCreate(u, a, FALSE)
             \/ EmailAdd(u, a) \/ ConsumeCode(u, a) \/ CodeExpires(u, a)
             \/ AdminEmailVerify(u, a) \/ EmailRemove(u, a) \/ EmailPrimary(u, a)
      PROVE  AccountInv'
  BY <1>1, RegisterOpenKeeps, RedeemInviteKeeps, AdminUserCreateKeeps, EmailAddKeeps,
     ConsumeCodeKeeps, RestKeeps, AdminEmailVerifyKeeps, EmailRemoveKeeps,
     EmailPrimaryKeeps
<1>2. ASSUME NEW u \in People,
             \/ CreateRepo(u) \/ Write(u) \/ JoinOrg(u) \/ LeaveOrg(u)
             \/ RequestDeletion(u) \/ LinkExpires(u)
      PROVE  AccountInv'
  BY <1>2, RestKeeps
<1>3. ASSUME NEW u \in People,
             \/ VerifyEmail(u) \/ ClearPending(u)
             \/ SetAdmin(u, TRUE) \/ SetAdmin(u, FALSE)
             \/ AdminSet(u, TRUE) \/ AdminSet(u, FALSE) \/ AdminDelete(u)
             \/ ConfirmRead(u) \/ ConfirmSchedule(u) \/ SignIn(u) \/ CancelDrop(u)
             \/ CancelEnable(u) \/ GraceEnds(u) \/ GrowsOld(u)
      PROVE  AccountInv'
  BY <1>3, VerifyEmailKeeps, ClearPendingKeeps, SetAdminKeeps, AdminAsksKeeps,
     ConfirmReadKeeps, ConfirmScheduleKeeps, CancelEnableKeeps, GraceEndsKeeps
<1>4. ASSUME \/ \E a \in Addresses : Invite(a)
             \/ AdminDrop \/ AdminUpdate \/ AdminErase
             \/ ReapStep \/ PurgeStep \/ PurgeFails \/ AccountRestart
      PROVE  AccountInv'
  BY <1>4, RestKeeps, AdminDropKeeps, AdminUpdateKeeps, AdminEraseKeeps,
     ReapStepKeeps, PurgeStepKeeps, AccountRestartKeeps
<1>5. ASSUME UNCHANGED accountVars PROVE AccountInv'
  <2>1. AccountTypeOK'
    BY <1>5 DEF accountVars, AccountInv, AccountTypeOK
  <2>2. RowsInOrder' /\ PurgeInOrder'
    BY <1>5, RowsRest, PurgeRests DEF accountVars, Here
  <2> QED
    BY <2>1, <2>2 DEF AccountInv
<1> QED
  BY <1>1, <1>2, <1>3, <1>4, <1>5 DEF AccountNext

LEMMA AccountInvIsTyped == AccountInv => AccountTypeOK
BY DEF AccountInv

\* Rows, addresses, codes, histories and everything under way keep their
\* shape; a code is for the account that has the address.
THEOREM AccountTypeCorrect == AccountSpec => []AccountTypeOK
BY AccountInvIsTyped, AccountInitially, AccountStep, PTL DEF AccountSpec

\* Whatever registrations, verifications, suspensions, deletions, reapings
\* and purges cross: an address counts as verified only for who proved it, an
\* active account that registered itself can be reached and has at most one
\* primary address, a suspension is lifted by admins only, and a purge takes
\* only what it has claimed, but for the accounts an admin reopened.
THEOREM AccountsStayInOrder == AccountSpec => []AccountsInOrder
<1>1. AccountInv => AddressesStay
  <2> SUFFICES ASSUME AccountInv, NEW u \in People, Here(u)
               PROVE  /\ acct[u].own /\ ~acct[u].pending => VerifiedOf(u) # {}
                      /\ Cardinality({a \in Addresses : mail[a].owner = u
                                                        /\ mail[a].primary}) <= 1
    BY DEF AddressesStay
  <2> DEFINE P == {a \in Addresses : mail[a].owner = u /\ mail[a].primary}
  <2>1. Cardinality(P) <= 1
    <3>1. CASE P = {}
      BY <3>1, FS_EmptySet
    <3>2. CASE P # {}
      <4>1. PICK a : a \in P
        BY <3>2
      <4>2. P = {a}
        BY <4>1 DEF AccountInv, RowsInOrder, OnePrimary
      <4>3. Cardinality({a}) = 1
        BY FS_Singleton
      <4>4. Cardinality(P) = 1
        BY <4>2, <4>3, Zenon
      <4> QED
        BY <4>4
    <3> QED
      BY <3>1, <3>2
  <2> QED
    BY <2>1 DEF AccountInv, RowsInOrder, ActiveIsReachable
<1>2. AccountInv => AccountsInOrder
  BY <1>1 DEF AccountsInOrder, AccountInv, RowsInOrder, PurgeInOrder
<1> QED
  BY <1>2, AccountInitially, AccountStep, PTL DEF AccountSpec

-----------------------------------------------------------------------------
(* Commands and pages: what access makes of what they show *)

\* Whoever may write or administer may read.
LEMMA PermitsReading ==
    ASSUME NEW u, NEW r, NEW need \in {"read", "write", "admin"}, Permits(u, r, need)
    PROVE  CanRead(u, r)
BY DEF Permits, CanRead, CanWrite, CanAdmin, Given, Roles

\* The conditions of the list queries are the policy's.
LEMMA QueriesRead ==
    ASSUME AccessTypeOK, NEW u \in Users, NEW r \in ReposHere
    PROVE  /\ r \in RepoIds
           /\ visibleCond(r, u) <=> CanRead(u, r)
           /\ reachableCond(r, u) => CanRead(u, r)
           /\ repo[r].public => CanRead(u, r)
BY FormsAgreeWhenTyped DEF FormsAgree, ReposHere, visibleCond, CanRead

LEMMA ReposOfUser ==
    ASSUME NEW u
    PROVE  ListReposForUser(u) = {r \in ReposHere : reachableCond(r, u)}
BY DEF ListReposForUser, reachableCond

Involved(u, r) == \E as \in Ties : <<as, r>> \in tie[u]

LEMMA TiedAreInvolved ==
    ASSUME NEW u, NEW as \in Ties, NEW r \in Tied(u, as)
    PROVE  r \in ReposHere /\ Involved(u, r)
BY DEF Tied, Involved

\* What a list shows.
LEMMA DashboardReadable ==
    ASSUME AccessTypeOK, NEW u \in Users,
           NEW r \in DashboardMRs(u) \cup DashboardIssues(u) \cup ReviewQueue(u)
                       \cup AssignedIssues(u) \cup RecentEvents(u) \cup RecentBuilds(u)
                       \cup PinnedQueries(u) \cup pinnedOutputs(u) \cup Inbox(u)
    PROVE  r \in ReposHere /\ (Involved(u, r) \/ CanRead(u, r))
<1>1. {"author", "assigned", "requested", "noticed"} \subseteq Ties
  BY DEF Ties
<1>2. CASE r \in Tied(u, "author") \cup Tied(u, "assigned") \cup Tied(u, "requested")
                   \cup Tied(u, "noticed")
  BY <1>1, <1>2, TiedAreInvolved
<1>3. CASE r \in ReposHere /\ reachableCond(r, u)
  BY <1>3, QueriesRead
<1>4. CASE r \in ReposHere /\ visibleCond(r, u)
  BY <1>4, QueriesRead
<1>5. CASE r \in ReposHere /\ CanRead(u, r)
  BY <1>5
<1> QED
  BY <1>2, <1>3, <1>4, <1>5
     DEF DashboardMRs, DashboardIssues, ReviewQueue, AssignedIssues, RecentEvents, RecentBuilds,
         PinnedQueries, pinnedOutputs, Inbox, involvedCond, itemRepos, MarkedBy

LEMMA ListedReadable ==
    ASSUME AccessTypeOK, NEW u \in Users, NEW r \in Listed(u)
    PROVE  r \in ReposHere /\ (Involved(u, r) \/ CanRead(u, r))
<1>1. CASE r \in ReposHere /\ (reachableCond(r, u) \/ repo[r].public \/ visibleCond(r, u))
  BY <1>1, QueriesRead
<1>2. CASE r \in ReposHere /\ CanRead(u, r)
  BY <1>2
<1>3. CASE r \in dashboardData(u) \cup Inbox(u)
  BY <1>3, DashboardReadable DEF dashboardData
<1>4. CASE r \in runRepoList(u) \cup runRepoSearch(u) \cup runExplore \cup runSearch(u)
                   \cup runItemQuery(u) \cup searchQuery(u) \cup runFeed(u)
                   \cup OwnerPublicEvents \cup runProfileShow(u) \cup runRepoBookmarks(u)
  BY <1>1, <1>2, <1>4, ReposOfUser
     DEF runRepoList, runRepoSearch, runExplore, runSearch, runItemQuery, searchQuery, runFeed,
         OwnerPublicEvents, runProfileShow, runRepoBookmarks, ListPublicRepos, VisibleRepos,
         itemRepos, RecentEvents, MarkedBy
<1> QED
  BY <1>3, <1>4 DEF Listed

\* What is open to every reader is public; the rest has a stronger gate.
LEMMA HandlerGates ==
    ASSUME NEW h \in ReadHandlers
    PROVE  /\ h.gate \in {"read", "admin", "site"}
           /\ h.part \in Guarded => h.gate \in {"admin", "site"}
BY DEF ReadHandlers, Opens, Guarded,
       runTopicsList, runRepoRefs, runRepoBlame, runRepoTree, runRepoReadme, runRepoCat,
       runRepoLog, runRepoCommit, runRepoGrep, runRepoDiff, runRepoDownload, runRepoSymbols,
       runRepoDefinitions, runIssueTemplates, runReleaseList, runReleaseShow, runReleaseNotes,
       runAssetGet, runSecurityStatus, runDepsStatus, runBuildList, runBuildShow, runBuildLog,
       runBuildJobs, runStatusList, runIssueList, runIssueShow, runMRList, runMRShow, runMRDiff,
       runMRRevisions, runMRRangeDiff, runWikiList, runWikiShow, runDomainList, runAccessList,
       runSettingsShow, runSecretList, runDeployKeyList, runWebhookList, runWebhookDeliveries,
       runMirrorList, runRepoRunnerList, runSecretScanHistory, runAdminRepoList, runAdminRunners

LEMMA ToldIs ==
    ASSUME NEW r, NEW parts, NEW x \in Told(r, parts)
    PROVE  x.repo = r /\ x.part \in parts
BY DEF Told

LEMMA ScopeReadable ==
    ASSUME NEW u, NEW r \in RepoIds, CanRead(u, r), NEW x \in ReadableScope(u, r)
    PROVE  x \in RepoIds /\ CanRead(u, x)
BY DEF ReadableScope, ReadableOrgRepoIDs

LEMMA CountsReadable ==
    ASSUME NEW u, NEW r \in RepoIds,
           NEW x \in runLabelList(u, r) \cup runMilestoneList(u, r)
    PROVE  CanRead(u, x.repo) /\ x.part = "items" /\ resolveRepo(u, r, "read")
<1>1. resolveRepo(u, r, "read") /\ CanRead(u, r)
  BY DEF runLabelList, runMilestoneList, resolveRepo, Permits
<1>2. PICK y \in ReadableScope(u, r) : x \in Told(y, {"items"})
  BY <1>1 DEF runLabelList, runMilestoneList
<1>3. x.repo = y /\ x.part = "items"
  BY <1>2, ToldIs
<1>4. CanRead(u, y)
  BY <1>1, ScopeReadable
<1> QED
  BY <1>1, <1>3, <1>4

LEMMA ShownReadable ==
    ASSUME NEW u \in Users, NEW r \in RepoIds, NEW x \in runRepoShow(u, r)
    PROVE  /\ CanRead(u, x.repo) /\ resolveRepo(u, r, "read")
           /\ x.part \in {"about", "domains", "mirrors"}
           /\ x.part = "mirrors" => CanAdmin(u, x.repo)
<1>1. resolveRepo(u, r, "read") /\ CanRead(u, r)
  BY DEF runRepoShow, resolveRepo, Permits
<1>2. CASE x \in Told(r, {"about", "domains"})
  BY <1>1, <1>2, ToldIs
<1>3. CASE resolveRepo(u, ForkOf[r], "read") /\ x \in Told(ForkOf[r], {"about"})
  <2>1. CanRead(u, ForkOf[r])
    BY <1>3 DEF resolveRepo, Permits
  <2>2. x.repo = ForkOf[r] /\ x.part = "about"
    BY <1>3, ToldIs
  <2> QED
    BY <1>1, <2>1, <2>2
<1>4. CASE CanAdmin(u, r) /\ x \in Told(r, {"mirrors"})
  BY <1>1, <1>4, ToldIs
<1> QED
  BY <1>1, <1>2, <1>3, <1>4 DEF runRepoShow

\* What the handlers that resolve a repository show of it.
LEMMA ShownOfIs ==
    ASSUME NEW u \in Users, NEW r \in RepoIds, NEW x \in ShownOf(u, r)
    PROVE  \/ /\ x.repo = r /\ Found(r)
              /\ \E h \in ReadHandlers : x.part = h.part /\ Passes(u, r, h.gate)
           \/ x \in runRepoShow(u, r)
           \/ x \in runLabelList(u, r) \cup runMilestoneList(u, r)
<1> DEFINE open == {gate \in {"read", "write", "admin", "site"} : Found(r) /\ Passes(u, r, gate)}
<1> DEFINE parts == UNION {ReadParts[gate] : gate \in open}
<1>1. CASE x \in Told(r, parts)
  <2>1. x.repo = r /\ x.part \in parts
    BY <1>1, ToldIs
  <2>2. PICK gate \in open : x.part \in ReadParts[gate]
    BY <2>1
  <2>3. gate \in {"read", "write", "admin", "site"}
    OBVIOUS
  <2>4. ReadParts[gate] = {h.part : h \in {h \in ReadHandlers : h.gate = gate}}
    BY <2>3 DEF ReadParts
  <2>5. PICK h \in ReadHandlers : h.gate = gate /\ x.part = h.part
    BY <2>2, <2>4
  <2> QED
    BY <2>1, <2>2, <2>5
<1> QED
  BY <1>1 DEF ShownOf

LEMMA ShownToThem ==
    ASSUME NEW u \in Users, NEW r \in RepoIds, NEW x \in ShownOf(u, r)
    PROVE  /\ CanRead(u, x.repo) \/ u \in SiteAdmins
           /\ x.part \in Guarded => CanAdmin(u, x.repo) \/ u \in SiteAdmins
<1>1. ASSUME NEW h \in ReadHandlers, x.repo = r, x.part = h.part, Passes(u, r, h.gate)
      PROVE  /\ CanRead(u, x.repo) \/ u \in SiteAdmins
             /\ x.part \in Guarded => CanAdmin(u, x.repo) \/ u \in SiteAdmins
  <2>1. h.gate \in {"read", "admin", "site"} /\ (h.part \in Guarded => h.gate \in {"admin", "site"})
    BY HandlerGates
  <2>2. CASE h.gate = "site"
    BY <1>1, <2>2 DEF Passes
  <2>3. CASE h.gate # "site"
    <3>1. Permits(u, r, h.gate)
      BY <1>1, <2>3 DEF Passes
    <3>2. CanRead(u, r)
      BY <2>1, <2>3, <3>1, PermitsReading
    <3> QED
      BY <1>1, <2>1, <2>3, <3>1, <3>2 DEF Permits
  <2> QED
    BY <2>2, <2>3
<1>2. {"about", "domains", "items"} \cap Guarded = {}
  BY DEF Guarded
<1> QED
  BY <1>1, <1>2, ShownOfIs, ShownReadable, CountsReadable

LEMMA OrgCountsReadable ==
    ASSUME NEW u \in Users, NEW o \in OrgIds,
           NEW x \in runOrgLabelList(u, o) \cup runOrgMilestoneList(u, o)
    PROVE  CanRead(u, x.repo)
<1>1. PICK y \in ReadableOrgRepoIDs(u, o) : x \in Told(y, {"items"})
  BY DEF runOrgLabelList, runOrgMilestoneList
<1> QED
  BY <1>1, ToldIs DEF ReadableOrgRepoIDs

LEMMA CommandsAgreeNow ==
    ASSUME AccessTypeOK, FollowStops
    PROVE  CommandsAgree
<1>1. ShowsReadable
  BY ListedReadable, OrgCountsReadable DEF ShowsReadable, Involved
<1>2. ConfigShownToAdmins
  BY ShownToThem DEF ConfigShownToAdmins
<1>3. ASSUME NEW u \in Users
      PROVE  /\ runRepoSearch(u) = {r \in ReposHere : CanRead(u, r)}
             /\ runSearch(u) = {r \in ReposHere : CanRead(u, r)}
             /\ runItemQuery(u) = {r \in ReposHere : CanRead(u, r)}
  <2>1. \A r \in ReposHere : visibleCond(r, u) <=> CanRead(u, r)
    BY QueriesRead
  <2>2. runRepoSearch(u) = {r \in ReposHere : visibleCond(r, u)}
    BY ReposOfUser DEF runRepoSearch, ListPublicRepos, visibleCond
  <2> QED
    BY <2>1, <2>2 DEF runSearch, VisibleRepos, runItemQuery, itemRepos
<1>4. SearchesAgree
  BY <1>3 DEF SearchesAgree
<1>5. SnippetsStayTheirs
  BY DEF SnippetsStayTheirs, runSnippetList, ListSnippets, runSnippetShow, snippetRef, CanReadSnippet
<1> QED
  BY <1>1, <1>2, <1>4, <1>5 DEF CommandsAgree

-----------------------------------------------------------------------------
(* Reads: the inductive invariant *)

Setting == [repo: RepoIds, part: Parts, on: BOOLEAN]
SnippetRow == [owner: Users \cup {Unset}, visibility: Visibilities]
Follow == [repo: RepoIds \cup {Unset}, old: BOOLEAN]

ReadsRows ==
    /\ mark \in [Users -> SUBSET (MarkKinds \X RepoIds)]
    /\ tie \in [Users -> SUBSET (Ties \X RepoIds)]
    /\ config \in [RepoIds -> SUBSET Parts]
    /\ setting = Unset \/ setting \in Setting
    /\ snippet \in [SnippetIds -> SnippetRow]
    /\ follow \in [Users -> [1..MaxFollows -> Follow]]
    /\ readOps \in 0..MaxReadOps

ReadsInv == AccessInv /\ ReadsRows /\ FollowStops

LEMMA OpensTyped ==
    ASSUME ReadsRows
    PROVE  \A u \in Users : Cardinality(Open(u)) <= MaxFollows
<1> SUFFICES ASSUME NEW u \in Users
             PROVE  Cardinality(Open(u)) <= MaxFollows
  OBVIOUS
<1>1. MaxFollows \in Nat \ {0}
  BY ReadsAssumption
<1>2. IsFiniteSet(1..MaxFollows) /\ Cardinality(1..MaxFollows) = MaxFollows
  BY <1>1, FS_Interval
<1>3. Open(u) \in SUBSET (1..MaxFollows)
  BY DEF Open
<1> QED
  BY <1>1, <1>2, <1>3, FS_Subset

LEMMA ReadsInvIsTyped == ReadsInv => ReadsTypeOK
<1> SUFFICES ASSUME ReadsInv
             PROVE  ReadsTypeOK
  OBVIOUS
<1>1. ReadsRows
  BY DEF ReadsInv
<1>2. \A s \in SnippetIds : snippet[s] \in SnippetRow
  BY <1>1 DEF ReadsRows
<1>3. \A u \in Users : Cardinality(Open(u)) <= MaxFollows
  BY <1>1, OpensTyped
<1> QED
  BY <1>1, <1>2, <1>3 DEF ReadsRows, ReadsTypeOK, SnippetRow

\* Where the organization and the fork start.
LEMMA AccessStartsForReads == ReadsInit => AccessInv
<1> SUFFICES ASSUME ReadsInit
             PROVE  AccessInv
  OBVIOUS
<1> DEFINE u == CHOOSE v \in Users : TRUE
<1>1. u \in Users
  BY AccessAssumption
<1>2. PICK public \in BOOLEAN, o \in OrgIds :
        repo = [r \in RepoIds |->
                  [NoRow EXCEPT !.is = "here", !.public = public,
                     !.owner = IF ForkOf[r] = Unset THEN o ELSE u]]
  BY DEF ReadsInit
<1>3. /\ org = [p \in OrgIds |-> [is |-> "here", role |-> "read"]]
      /\ member = [p \in OrgIds |-> [v \in Users |-> IF v = u THEN "admin" ELSE "member"]]
      /\ team = [t \in TeamIds |-> [NoTeam EXCEPT !.is = "here", !.users = Users \ {u}]]
      /\ grant = [r \in RepoIds |-> [v \in Users |-> "none"]]
      /\ asked = [w \in Workers |-> Unset] /\ slipped = {} /\ accessOps = 0
  BY DEF ReadsInit
<1> HIDE DEF u
<1>4. \A r \in RepoIds :
        /\ repo[r] \in RepoRow /\ repo[r].is = "here" /\ repo[r].daemon = FALSE
        /\ repo[r].owner \in Users \cup OrgIds
  BY <1>1, <1>2 DEF NoRow, RepoRow
<1>5. \A p \in OrgIds : org[p].is = "here" /\ org[p].role = "read"
  BY <1>3
<1>6. \A p \in OrgIds, v \in Users : member[p][v] \in {"member", "admin"}
  BY <1>3
<1>7. \A t \in TeamIds : team[t].is = "here" /\ team[t].users \subseteq Users
  BY <1>3 DEF NoTeam
<1>8. \A t \in TeamIds : TeamOrg[t] \in OrgIds
  BY AccessAssumption
<1>9. AccessShape
  <2>1. repo \in [RepoIds -> RepoRow] /\ grant \in [RepoIds -> [Users -> Roles]]
    BY <1>2, <1>3, <1>4 DEF Roles
  <2>2. org \in [OrgIds -> [is: {"none", "here", "gone"}, role: {"write", "read", "none"}]]
    BY <1>3
  <2>3. member \in [OrgIds -> [Users -> {"none", "member", "admin"}]]
    BY <1>3
  <2>4. team \in [TeamIds -> TeamRow]
    BY <1>3 DEF NoTeam, TeamRow, Roles
  <2>5. \A t \in TeamIds : TeamHere(t) => OrgHere(TeamOrg[t])
    BY <1>5, <1>8 DEF TeamHere, OrgHere
  <2>6. asked \in [Workers -> Request \cup {Unset}] /\ accessOps \in 0..MaxAccessOps
    BY <1>3, AccessAssumption
  <2>7. slipped \subseteq Slips \X (TeamIds \cup RepoIds)
    BY <1>3
  <2>8. \A w \in Workers : asked[w] = Unset
    BY <1>3
  <2> QED
    BY <2>1, <2>2, <2>3, <2>4, <2>5, <2>6, <2>7, <2>8 DEF AccessShape, AccessTypeOK
<1>10. RequestsKnown
  BY <1>3 DEF RequestsKnown
<1>11. RowsFit
  BY <1>4, <1>5, <1>7 DEF RowsFit, TeamHere
<1>12. TeamMembersAreMembers
  BY <1>6, <1>7, <1>8 DEF TeamMembersAreMembers
<1>13. OrgKeepsAdmin
  BY <1>1, <1>3 DEF OrgKeepsAdmin
<1>14. DaemonServesPublic
  BY <1>4 DEF DaemonServesPublic
<1>15. OwnerExists
  BY <1>4, <1>5 DEF OwnerExists, Found, OrgHere
<1> QED
  BY <1>9, <1>10, <1>11, <1>12, <1>13, <1>14, <1>15 DEF AccessInv

LEMMA ReadsInvStarts == ReadsInit => ReadsInv
<1> SUFFICES ASSUME ReadsInit
             PROVE  ReadsInv
  OBVIOUS
<1>1. ReadsFresh
  BY DEF ReadsInit
<1> DEFINE first == CHOOSE u \in Users : TRUE
<1> DEFINE shown == CHOOSE x \in SnippetIds : TRUE
<1>2. snippet = [s \in SnippetIds |->
         IF s = shown THEN [NoSnippet EXCEPT !.owner = first] ELSE NoSnippet]
  BY <1>1 DEF ReadsFresh
<1>3. first \in Users
  BY AccessAssumption
<1> HIDE DEF first, shown
<1>4. snippet \in [SnippetIds -> SnippetRow]
  BY <1>2, <1>3 DEF NoSnippet, SnippetRow, Visibilities
<1>5. follow \in [Users -> [1..MaxFollows -> Follow]]
  BY <1>1 DEF ReadsFresh, NoFollow, Follow
<1>6. /\ mark \in [Users -> SUBSET (MarkKinds \X RepoIds)]
      /\ tie \in [Users -> SUBSET (Ties \X RepoIds)]
      /\ config \in [RepoIds -> SUBSET Parts]
  BY <1>1 DEF ReadsFresh
<1>7. readOps \in 0..MaxReadOps /\ setting = Unset /\ FollowStops
  BY <1>1, ReadsAssumption DEF ReadsFresh, FollowStops
<1> QED
  BY <1>4, <1>5, <1>6, <1>7, AccessStartsForReads DEF ReadsInv, ReadsRows

-----------------------------------------------------------------------------
(* Reads: the steps *)

LEMMA AccessRowsRest ==
    ASSUME AccessInv, UNCHANGED accessVars
    PROVE  AccessInv'
BY AccessInvStays

LEMMA MayCounted ==
    ASSUME readOps \in 0..MaxReadOps, May, Counted
    PROVE  readOps' \in 0..MaxReadOps
BY ReadsAssumption DEF May, Counted

LEMMA WritesParts ==
    ASSUME NEW h \in WriteHandlers
    PROVE  h.part \in Parts /\ h.on \in BOOLEAN
<1> DEFINE W == {"about", "secrets", "keys", "hooks", "runners", "scan", "leaks", "settings"}
<1>1. \E p \in W, b \in BOOLEAN : h = Writes("admin", p, b)
  <2>0. TRUE \in BOOLEAN /\ FALSE \in BOOLEAN
    OBVIOUS
  <2>1. CASE h \in { runSetDescription, runSetDefaultBranch, runSetWebsite, editTopics,
                runSecretSet, runDeployKeyAdd, runWebhookAdd, runRepoRunnerAdd,
                runSecurityEnable, runSecurityRun, runSecurityFrequency, setSecurityList,
                runDepsEnable, runSecretScanMode, runSecretScanAllow, runRequireApprovals}
    BY <2>0, <2>1, Zenon DEF runSetDescription, runSetDefaultBranch, runSetWebsite,
          editTopics, runSecretSet, runDeployKeyAdd, runWebhookAdd, runRepoRunnerAdd,
          runSecurityEnable, runSecurityRun, runSecurityFrequency, setSecurityList,
          runDepsEnable, runSecretScanMode, runSecretScanAllow, runRequireApprovals
  <2>2. CASE h \in { runSecretRemove, runDeployKeyRemove, runRepoItemAction,
                runRepoRunnerRemove, runSecurityDisable, runDepsDisable}
    BY <2>0, <2>2, Zenon DEF runSecretRemove, runDeployKeyRemove, runRepoItemAction,
          runRepoRunnerRemove, runSecurityDisable, runDepsDisable
  <2> QED
    BY <2>1, <2>2 DEF WriteHandlers
<1>2. PICK p \in W, b \in BOOLEAN : h = Writes("admin", p, b)
  BY <1>1
<1>3. h.part = p /\ h.on = b
  BY <1>2 DEF Writes
<1> QED
  BY <1>3 DEF Parts, Public, Guarded

\* Marks, involvement and configuration.
LEMMA SettingsStep ==
    ASSUME ReadsRows, FollowStops, NEW u \in Users, NEW r \in RepoIds,
           \/ \E kind \in MarkKinds, on \in BOOLEAN : setRepoMark(u, r, kind, on)
           \/ \E as \in Ties : Involve(u, r, as)
           \/ \E h \in WriteHandlers : Configure(u, r, h)
           \/ Configured
    PROVE  ReadsRows' /\ FollowStops'
<1>1. ASSUME NEW kind \in MarkKinds, NEW on \in BOOLEAN, setRepoMark(u, r, kind, on)
      PROVE  ReadsRows' /\ FollowStops'
  <2>1. readOps' \in 0..MaxReadOps
    BY <1>1, MayCounted DEF setRepoMark, ReadsRows
  <2>2. mark' \in [Users -> SUBSET (MarkKinds \X RepoIds)]
    BY <1>1 DEF setRepoMark, ReadsRows
  <2> QED
    BY <1>1, <2>1, <2>2 DEF setRepoMark, ReadsRows, FollowStops
<1>2. ASSUME NEW as \in Ties, Involve(u, r, as)
      PROVE  ReadsRows' /\ FollowStops'
  <2>1. readOps' \in 0..MaxReadOps
    BY <1>2, MayCounted DEF Involve, ReadsRows
  <2>2. tie' \in [Users -> SUBSET (Ties \X RepoIds)]
    <3>1. <<as, r>> \in Ties \X RepoIds
      OBVIOUS
    <3>2. /\ tie' = [tie EXCEPT ![u] = @ \cup {<<as, r>>}]
          /\ tie \in [Users -> SUBSET (Ties \X RepoIds)]
      BY <1>2 DEF Involve, ReadsRows
    <3> QED
      BY <3>1, <3>2
  <2> QED
    BY <1>2, <2>1, <2>2 DEF Involve, ReadsRows, FollowStops
<1>3. ASSUME NEW h \in WriteHandlers, Configure(u, r, h)
      PROVE  ReadsRows' /\ FollowStops'
  <2>1. readOps' \in 0..MaxReadOps
    BY <1>3, MayCounted DEF Configure, ReadsRows
  <2>2. setting' \in Setting
    BY <1>3, WritesParts DEF Configure, Setting
  <2> QED
    BY <1>3, <2>1, <2>2 DEF Configure, ReadsRows, FollowStops
<1>4. CASE Configured
  <2>1. setting \in Setting
    BY <1>4 DEF Configured, ReadsRows
  <2>2. config' \in [RepoIds -> SUBSET Parts]
    BY <1>4, <2>1 DEF Configured, ReadsRows, Setting
  <2> QED
    BY <1>4, <2>2 DEF Configured, ReadsRows, FollowStops
<1> QED
  BY <1>1, <1>2, <1>3, <1>4

LEMMA SnippetsStep ==
    ASSUME ReadsRows, FollowStops, NEW u \in Users, NEW s \in SnippetIds,
           \/ \E v \in Visibilities : runSnippetCreate(u, s, v) \/ runSnippetEdit(u, s, v)
           \/ runSnippetDelete(u, s)
    PROVE  ReadsRows' /\ FollowStops'
<1>1. readOps' \in 0..MaxReadOps
  BY MayCounted DEF runSnippetCreate, runSnippetEdit, runSnippetDelete, ReadsRows
<1>2. snippet' \in [SnippetIds -> SnippetRow]
  <2>1. ASSUME NEW v \in Visibilities, runSnippetCreate(u, s, v)
        PROVE  snippet' \in [SnippetIds -> SnippetRow]
    BY <2>1 DEF runSnippetCreate, ReadsRows, SnippetRow
  <2>2. ASSUME NEW v \in Visibilities, runSnippetEdit(u, s, v)
        PROVE  snippet' \in [SnippetIds -> SnippetRow]
    BY <2>2 DEF runSnippetEdit, ReadsRows, SnippetRow
  <2>3. CASE runSnippetDelete(u, s)
    BY <2>3 DEF runSnippetDelete, ReadsRows, SnippetRow, NoSnippet, Visibilities
  <2> QED
    BY <2>1, <2>2, <2>3
<1>3. UNCHANGED <<mark, tie, config, setting, follow, sent>>
  BY DEF runSnippetCreate, runSnippetEdit, runSnippetDelete
<1> QED
  BY <1>1, <1>2, <1>3 DEF ReadsRows, FollowStops

LEMMA FollowRow ==
    ASSUME ReadsRows, NEW u \in Users, NEW n \in 1..MaxFollows, NEW old \in BOOLEAN,
           follow' = [follow EXCEPT ![u][n].old = old]
    PROVE  follow' \in [Users -> [1..MaxFollows -> Follow]]
<1>1. follow[u][n] \in Follow /\ follow \in [Users -> [1..MaxFollows -> Follow]]
  BY DEF ReadsRows
<1>2. [follow[u][n] EXCEPT !.old = old] \in Follow
  BY <1>1 DEF Follow
<1>3. follow' = [follow EXCEPT ![u] =
                   [follow[u] EXCEPT ![n] = [follow[u][n] EXCEPT !.old = old]]]
  OBVIOUS
<1>4. [follow[u] EXCEPT ![n] = [follow[u][n] EXCEPT !.old = old]] \in [1..MaxFollows -> Follow]
  BY <1>1, <1>2
<1> QED
  BY <1>1, <1>3, <1>4

\* What goes out on an old check is never sent.
LEMMA TurnSends ==
    ASSUME ReadsRows, FollowStops, NEW u \in Users, NEW n \in 1..MaxFollows, Turn(u, n)
    PROVE  FollowStops' /\ follow' \in [Users -> [1..MaxFollows -> Follow]]
<1>1. CASE ~ follow[u][n].old /\ Sends(u, follow[u][n].repo, FALSE) /\ UNCHANGED follow
  BY <1>1 DEF Sends, FollowStops, ReadsRows
<1>2. CASE /\ follow' = [follow EXCEPT ![u][n].old = FALSE]
           /\ Sends(u, follow[u][n].repo, FALSE)
  BY <1>2, FollowRow DEF Sends, FollowStops
<1>3. CASE FollowEnds(u, n) /\ UNCHANGED sent
  BY <1>3 DEF FollowEnds, NoFollow, Follow, FollowStops, ReadsRows
<1> QED
  BY <1>1, <1>2, <1>3 DEF Turn, followBuildLog

LEMMA FollowsStep ==
    ASSUME ReadsRows, FollowStops, NEW u \in Users,
           \/ \E r \in RepoIds : takeFollow(u, r)
           \/ \E n \in 1..MaxFollows : Turn(u, n) \/ PollPasses(u, n) \/ dropFollow(u, n)
    PROVE  ReadsRows' /\ FollowStops'
<1>1. ASSUME NEW r \in RepoIds, takeFollow(u, r)
      PROVE  ReadsRows' /\ FollowStops'
  <2>1. readOps' \in 0..MaxReadOps
    BY <1>1, MayCounted DEF takeFollow, ReadsRows
  <2>2. PICK n \in 1..MaxFollows :
          follow' = [follow EXCEPT ![u][n] = [repo |-> r, old |-> FALSE]]
    BY <1>1 DEF takeFollow
  <2>3. follow' \in [Users -> [1..MaxFollows -> Follow]]
    BY <2>2 DEF ReadsRows, Follow
  <2> QED
    BY <1>1, <2>1, <2>3 DEF takeFollow, ReadsRows, FollowStops
<1>2. ASSUME NEW n \in 1..MaxFollows, Turn(u, n)
      PROVE  ReadsRows' /\ FollowStops'
  BY <1>2, TurnSends DEF Turn, ReadsRows
<1>3. ASSUME NEW n \in 1..MaxFollows, PollPasses(u, n)
      PROVE  ReadsRows' /\ FollowStops'
  <2>1. follow' \in [Users -> [1..MaxFollows -> Follow]]
    BY <1>3, FollowRow DEF PollPasses
  <2> QED
    BY <1>3, <2>1 DEF PollPasses, ReadsRows, FollowStops
<1>4. ASSUME NEW n \in 1..MaxFollows, dropFollow(u, n)
      PROVE  ReadsRows' /\ FollowStops'
  <2>1. follow' \in [Users -> [1..MaxFollows -> Follow]]
    BY <1>4 DEF dropFollow, FollowEnds, NoFollow, ReadsRows, Follow
  <2> QED
    BY <1>4, <2>1 DEF dropFollow, ReadsRows, FollowStops
<1> QED
  BY <1>1, <1>2, <1>3, <1>4

\* A step of commands, alone or dispatched by a form.
LEMMA ReadsStepKeeps ==
    ASSUME ReadsInv, ReadsStep, UNCHANGED accessVars
    PROVE  ReadsInv'
<1>1. AccessInv'
  BY AccessRowsRest DEF ReadsInv
<1>2. ReadsRows /\ FollowStops
  BY DEF ReadsInv
<1>3. CASE \E u \in Users, r \in RepoIds :
             \/ \E kind \in MarkKinds, on \in BOOLEAN : setRepoMark(u, r, kind, on)
             \/ \E as \in Ties : Involve(u, r, as)
             \/ \E h \in WriteHandlers : Configure(u, r, h)
  BY <1>1, <1>2, <1>3, SettingsStep DEF ReadsInv
<1>4. CASE Configured
  <2>1. PICK u \in Users : TRUE
    BY AccessAssumption
  <2>2. setting.repo \in RepoIds
    BY <1>2, <1>4 DEF Configured, ReadsRows, Setting
  <2> QED
    BY <1>1, <1>2, <1>4, <2>1, <2>2, SettingsStep DEF ReadsInv
<1>5. CASE \E u \in Users, s \in SnippetIds :
             \/ \E v \in Visibilities : runSnippetCreate(u, s, v) \/ runSnippetEdit(u, s, v)
             \/ runSnippetDelete(u, s)
  BY <1>1, <1>2, <1>5, SnippetsStep DEF ReadsInv
<1>6. CASE \E u \in Users : \/ \E r \in RepoIds : takeFollow(u, r)
                            \/ \E n \in 1..MaxFollows :
                                 Turn(u, n) \/ PollPasses(u, n) \/ dropFollow(u, n)
  BY <1>1, <1>2, <1>6, FollowsStep DEF ReadsInv
<1> QED
  BY <1>3, <1>4, <1>5, <1>6 DEF ReadsStep

LEMMA ReadsRest ==
    ASSUME ReadsInv, AccessInv', UNCHANGED readVars
    PROVE  ReadsInv'
BY DEF ReadsInv, ReadsRows, FollowStops, readVars

LEMMA ReadsInvStays == ReadsInv /\ [ReadsNext]_<<accessVars, readVars>> => ReadsInv'
<1> SUFFICES ASSUME ReadsInv, [ReadsNext]_<<accessVars, readVars>>
             PROVE  ReadsInv'
  OBVIOUS
<1>1. CASE [AccessNext]_accessVars /\ UNCHANGED readVars
  <2>1. AccessInv'
    BY <1>1, AccessInvStays DEF ReadsInv
  <2> QED
    BY <1>1, <2>1, ReadsRest
<1>2. CASE ReadsStep /\ UNCHANGED accessVars
  BY <1>2, ReadsStepKeeps
<1> QED
  BY <1>1, <1>2 DEF ReadsNext

LEMMA ReadsInvAgrees == ReadsInv => CommandsAgree
BY CommandsAgreeNow DEF ReadsInv, AccessInv, AccessShape

\* The rows that commands write keep their types, and no account follows more
\* builds at once than control.maxFollows (control/buildfollow.go: takeFollow).
THEOREM ReadsTypeCorrect == ReadsSpec => []ReadsTypeOK
BY ReadsInvStarts, ReadsInvStays, ReadsInvIsTyped, PTL DEF ReadsSpec

\* Whatever access and rows have become, commands show a repository to its
\* readers, its configuration to its administrators, a snippet to those it is
\* meant for, and the list queries agree with policy (control/read.go,
\* dashboard.go, search.go, store's list queries).
THEOREM CommandsStayInAgreement == ReadsSpec => []CommandsAgree
BY ReadsInvAgrees, ReadsInvStarts, ReadsInvStays, PTL DEF ReadsSpec

-----------------------------------------------------------------------------
(* Pages: what access makes of what they show *)

LEMMA PageGates ==
    ASSUME NEW h \in PageHandlers
    PROVE  /\ h.gate \in {"read", "write", "public"}
           /\ h.part \in {"code", "items", "builds", "releases", "wiki"}
BY DEF PageHandlers, Opens, treePage, renderTree, blobPage, raw, blame, search, log, commit,
       refsPage, archive, logAtom, compare, symbolsPage, blobSymbols, releasesPage,
       releaseAsset, releasesAtom, issuesPage, issuePage, mrs, mrPage, mrRangeDiff,
       issueCreateForm, buildsPage, build, wiki, wikiRaw, editForm, infoRefs, uploadPack,
       badgeState, servePage

LEMMA UsersView ==
    ASSUME NEW v \in Viewers
    PROVE  v = Unset \/ (v \in Users /\ v # Unset)
BY AccessAssumption DEF Viewers

\* A page that opens is of a repository that its viewer reads.
LEMMA OpenPageReadable ==
    ASSUME NEW v, NEW r, NEW gate \in {"read", "write", "public"}, PageOpens(v, r, gate)
    PROVE  repoFor(v, r)
BY DEF PageOpens, repoFor, repoForUser, publicRepo, CanRead

LEMMA AdminFormReadable ==
    ASSUME NEW v, NEW r, NEW need, repoForUser(v, r, need)
    PROVE  repoFor(v, r) /\ v # Unset
BY DEF repoFor, repoForUser

LEMMA WebScopeReadable ==
    ASSUME NEW v, NEW r \in RepoIds, repoFor(v, r), NEW x \in WebScope(v, r)
    PROVE  repoFor(v, x)
<1>1. CASE x = r
  BY <1>1
<1>2. CASE /\ x \in RepoIds /\ repo[x].is = "here" /\ repo[x].owner = repo[r].owner
           /\ IF v = Unset THEN repo[x].public ELSE CanRead(v, x)
  <2>1. Found(x)
    BY <1>2 DEF repoFor, Found
  <2> QED
    BY <1>2, <2>1 DEF repoFor
<1> QED
  BY <1>1, <1>2 DEF WebScope, ReadableScope, ReadableOrgRepoIDs

LEMMA CountPages ==
    ASSUME NEW v, NEW r \in RepoIds, NEW x \in labels(v, r) \cup milestones(v, r)
    PROVE  repoFor(v, r) /\ repoFor(v, x.repo) /\ x.part = "items"
<1>1. repoFor(v, r)
  BY DEF labels, milestones
<1>2. PICK y \in WebScope(v, r) : x \in Told(y, {"items"})
  BY <1>1 DEF labels, milestones
<1>3. x.repo = y /\ x.part = "items"
  BY <1>2, ToldIs
<1> QED
  BY <1>1, <1>3, WebScopeReadable

LEMMA SourcePages ==
    ASSUME NEW v, NEW r \in RepoIds, NEW x \in mrCreateForm(v, r)
    PROVE  repoFor(v, r) /\ repoFor(v, x.repo) /\ x.part = "code"
<1>1. repoFor(v, r) /\ v # Unset
  BY DEF mrCreateForm
<1>2. PICK y \in {r} \cup writableForks(v, r) : x \in Told(y, {"code"})
  BY <1>1 DEF mrCreateForm, mrSources
<1>3. x.repo = y /\ x.part = "code"
  BY <1>2, ToldIs
<1>4. repoFor(v, y)
  BY <1>1, <1>2 DEF writableForks, repoFor, CanRead, CanWrite, Given, Roles
<1> QED
  BY <1>1, <1>3, <1>4

\* The tables of the settings page are what the commands print.
SettingsTables == {runDepsStatus, runSecurityStatus, runRepoRunnerList, runAccessList,
                   runWebhookList, runWebhookDeliveries}

LEMMA SettingsPages ==
    ASSUME NEW v, NEW r \in RepoIds, NEW x \in settingsFormWith(v, r)
    PROVE  /\ repoForUser(v, r, "admin") /\ x.repo = r
           /\ \/ x.part = "settings"
              \/ \E h \in SettingsTables : Passes(v, r, h.gate) /\ x.part = h.part
<1>1. repoForUser(v, r, "admin")
  BY DEF settingsFormWith
<1> DEFINE tables == {h.part : h \in {h \in SettingsTables : Passes(v, r, h.gate)}}
<1>2. settingsFormWith(v, r) = Told(r, {"settings"}) \cup Told(r, tables)
  BY <1>1 DEF settingsFormWith, SettingsTables
<1>3. CASE x \in Told(r, {"settings"})
  BY <1>1, <1>3, ToldIs
<1>4. CASE x \in Told(r, tables)
  <2>1. x.repo = r /\ x.part \in tables
    BY <1>4, ToldIs
  <2> QED
    BY <1>1, <2>1
<1> QED
  BY <1>2, <1>3, <1>4

LEMMA HeaderPages ==
    ASSUME NEW v, NEW r \in RepoIds, NEW x \in Header(v, r)
    PROVE  /\ repoFor(v, r) /\ x.repo = r /\ x.part \in {"about", "mirrors"}
           /\ x.part = "mirrors" => CanAdmin(v, r)
<1>1. repoFor(v, r)
  BY DEF Header
<1>2. CASE x \in Told(r, {"about"})
  BY <1>1, <1>2, ToldIs
<1>3. CASE CanAdmin(v, r) /\ x \in Told(r, {"mirrors"})
  BY <1>1, <1>3, ToldIs
<1> QED
  BY <1>1, <1>2, <1>3 DEF Header

LEMMA PageShowsIs ==
    ASSUME NEW v, NEW r \in RepoIds, NEW x \in PageShows(v, r)
    PROVE  \/ /\ x.repo = r
              /\ \E h \in PageHandlers : x.part = h.part /\ PageOpens(v, r, h.gate)
           \/ x \in Header(v, r)
           \/ x \in settingsFormWith(v, r)
           \/ x \in labels(v, r) \cup milestones(v, r)
           \/ x \in mrCreateForm(v, r)
<1> DEFINE open == {gate \in {"read", "write", "public"} : PageOpens(v, r, gate)}
<1> DEFINE parts == UNION {PageParts[gate] : gate \in open}
<1>1. CASE x \in Told(r, parts)
  <2>1. x.repo = r /\ x.part \in parts
    BY <1>1, ToldIs
  <2>2. PICK gate \in open : x.part \in PageParts[gate]
    BY <2>1
  <2>3. gate \in {"read", "write", "public"}
    OBVIOUS
  <2>4. PageParts[gate] = {h.part : h \in {h \in PageHandlers : h.gate = gate}}
    BY <2>3 DEF PageParts
  <2>5. PICK h \in PageHandlers : h.gate = gate /\ x.part = h.part
    BY <2>2, <2>4
  <2> QED
    BY <2>1, <2>2, <2>5
<1> QED
  BY <1>1 DEF PageShows

LEMMA PagesReadable ==
    ASSUME NEW v, NEW r \in RepoIds, NEW x \in PageShows(v, r)
    PROVE  repoFor(v, x.repo)
<1>1. ASSUME NEW h \in PageHandlers, PageOpens(v, r, h.gate)
      PROVE  repoFor(v, r)
  BY <1>1, PageGates, OpenPageReadable
<1> QED
  BY <1>1, PageShowsIs, HeaderPages, SettingsPages, AdminFormReadable, CountPages, SourcePages

\* What a list of repositories shows.
LEMMA OrgPageReadable ==
    ASSUME NEW v \in Users, NEW r \in orgAdminView(v)
    PROVE  repoFor(v, r) \/ KeptByTeam(v, r)
<1>1. v # Unset
  BY AccessAssumption
<1>2. /\ r \in ReposHere
      /\ \E t \in TeamIds : orgAdmin(v, TeamOrg[t]) /\ team[t].roles[r] # "none"
  BY <1>1 DEF orgAdminView
<1>3. PICK t \in TeamIds : orgAdmin(v, TeamOrg[t]) /\ team[t].roles[r] # "none"
  BY <1>2
<1>4. CASE repo[r].owner # TeamOrg[t]
  BY <1>3, <1>4 DEF KeptByTeam
<1>5. CASE repo[r].owner = TeamOrg[t]
  <2>1. FromOrg(r, v) = "admin"
    BY <1>3, <1>5 DEF FromOrg, orgAdmin
  <2>2. AccessRole(r, v) = "admin"
    BY <2>1 DEF AccessRole, Strongest
  <2> QED
    BY <1>1, <1>2, <2>2 DEF repoFor, ReposHere, CanRead, Given, Roles
<1> QED
  BY <1>4, <1>5

LEMMA PagesListReadable ==
    ASSUME AccessTypeOK, NEW v \in Users, NEW r \in PagesList(v)
    PROVE  \/ repoFor(v, r) \/ Involved(v, r)
           \/ r \in orgAdminView(v) /\ KeptByTeam(v, r)
<1>1. v # Unset
  BY AccessAssumption
<1>2. \A x \in ReposHere : CanRead(v, x) => repoFor(v, x)
  BY <1>1 DEF repoFor, ReposHere
<1>3. CASE r \in dashboard(v) \cup Inbox(v)
  <2>1. pinnedRows(v) = pinnedOutputs(v)
    BY DEF pinnedRows, pinnedOutputs
  <2>2. r \in ReposHere /\ (Involved(v, r) \/ CanRead(v, r))
    BY <1>3, <2>1, DashboardReadable DEF dashboard
  <2> QED
    BY <1>2, <2>2
<1>4. CASE r \in ListPublicRepos \cup runSearch(v) \cup runItemQuery(v) \cup runProfileShow(v)
                   \cup runRepoBookmarks(v)
  <2>1. r \in ReposHere /\ (Involved(v, r) \/ CanRead(v, r))
    BY <1>4, ListedReadable DEF Listed, runExplore
  <2> QED
    BY <1>2, <2>1
<1>5. CASE r \in orgLabels(v) \cup orgMilestones(v) \cup RefURL(v)
  <2>1. \A o \in OrgIds : \A x \in orgScope(v, o) : repoFor(v, x)
    BY DEF orgScope
  <2> QED
    BY <1>5, <2>1 DEF orgLabels, orgMilestones, RefURL
<1>6. CASE r \in orgAdminView(v)
  BY <1>6, OrgPageReadable
<1> QED
  BY <1>1, <1>3, <1>4, <1>5, <1>6
     DEF PagesList, index, explore, globalSearch, ownerAtom, OwnerPublicEvents, ownerProfile,
         ownerFeed, queriesPage, notifications

LEMMA PublicList ==
    ASSUME NEW r \in PagesList(Unset)
    PROVE  repoFor(Unset, r)
<1>1. CASE r \in ListPublicRepos
  BY <1>1 DEF ListPublicRepos, repoFor, ReposHere
<1>2. CASE r \in orgLabels(Unset) \cup orgMilestones(Unset) \cup RefURL(Unset)
  <2>1. \A o \in OrgIds : \A x \in orgScope(Unset, o) : repoFor(Unset, x)
    BY DEF orgScope
  <2> QED
    BY <1>2, <2>1 DEF orgLabels, orgMilestones, RefURL
<1> QED
  BY <1>1, <1>2
     DEF PagesList, index, explore, globalSearch, ownerAtom, OwnerPublicEvents, ownerProfile,
         ownerFeed, queriesPage, notifications, orgAdminView

LEMMA PagesShowReadableNow ==
    ASSUME AccessTypeOK
    PROVE  PagesShowReadable
<1>1. ASSUME NEW v \in Viewers
      PROVE  /\ \A r \in RepoIds : \A x \in PageShows(v, r) : repoFor(v, x.repo)
             /\ \A s \in snippetPage(v) \cup snippetRaw(v) :
                  snippet[s].visibility # "private" \/ v = snippet[s].owner \/ v \in SiteAdmins
  BY PagesReadable DEF snippetPage, snippetRaw, snippetScope, CanReadSnippet
<1>2. ASSUME NEW v \in Viewers, NEW r \in PagesList(v)
      PROVE  \/ repoFor(v, r)
             \/ v # Unset /\ Involved(v, r)
             \/ r \in orgAdminView(v) /\ KeptByTeam(v, r)
  BY <1>2, UsersView, PagesListReadable, PublicList
<1>3. \A d \in Domains : \A r \in pagesRouter(d) : repoFor(Unset, r)
  BY DEF pagesRouter, repoFor
<1> QED
  BY <1>1, <1>2, <1>3 DEF PagesShowReadable, Involved

-----------------------------------------------------------------------------
(* Pages and commands open the same parts *)

LEMMA CommandTells ==
    ASSUME NEW u \in Users, NEW r \in RepoIds, NEW h \in ReadHandlers,
           Found(r), Passes(u, r, h.gate)
    PROVE  \E x \in ShownOf(u, r) : x.repo = r /\ x.part = h.part
<1> DEFINE open == {gate \in {"read", "write", "admin", "site"} : Found(r) /\ Passes(u, r, gate)}
<1> DEFINE parts == UNION {ReadParts[gate] : gate \in open}
<1>1. h.part \in parts
  BY HandlerGates DEF ReadParts
<1>2. [repo |-> r, part |-> h.part] \in Told(r, parts)
  BY <1>1 DEF Told
<1>3. Told(r, parts) \subseteq ShownOf(u, r)
  BY DEF ShownOf
<1> QED
  BY <1>2, <1>3

LEMMA PageTells ==
    ASSUME NEW v, NEW r \in RepoIds, NEW h \in PageHandlers, PageOpens(v, r, h.gate)
    PROVE  \E x \in PageShows(v, r) : x.repo = r /\ x.part = h.part
<1> DEFINE open == {gate \in {"read", "write", "public"} : PageOpens(v, r, gate)}
<1> DEFINE parts == UNION {PageParts[gate] : gate \in open}
<1>1. h.part \in parts
  BY PageGates DEF PageParts
<1>2. [repo |-> r, part |-> h.part] \in Told(r, parts)
  BY <1>1 DEF Told
<1>3. Told(r, parts) \subseteq PageShows(v, r)
  BY DEF PageShows
<1> QED
  BY <1>2, <1>3

\* A reader is told every part that is public of a repository,
LEMMA ReaderIsTold ==
    ASSUME NEW u \in Users, NEW r \in RepoIds, Found(r), CanRead(u, r),
           NEW part \in {"about", "code", "items", "builds", "releases", "wiki"}
    PROVE  \E x \in ShownOf(u, r) : x.repo = r /\ x.part = part
<1>1. Passes(u, r, "read")
  BY DEF Passes, Permits
<1>2. {runTopicsList, runRepoRefs, runIssueList, runBuildList, runReleaseList, runWikiList}
        \subseteq ReadHandlers
  BY DEF ReadHandlers
<1>3. \E h \in ReadHandlers : h.gate = "read" /\ h.part = part
  BY <1>2 DEF runTopicsList, runRepoRefs, runIssueList, runBuildList, runReleaseList,
              runWikiList, Opens
<1> QED
  BY <1>1, <1>3, CommandTells

\* and an administrator the configuration.
LEMMA AdminIsTold ==
    ASSUME NEW u \in Users, NEW r \in RepoIds, Found(r), CanAdmin(u, r),
           NEW part \in {"settings", "mirrors"}
    PROVE  \E x \in ShownOf(u, r) : x.repo = r /\ x.part = part
<1>1. Passes(u, r, "admin")
  BY DEF Passes, Permits
<1>2. {runSettingsShow, runMirrorList} \subseteq ReadHandlers
  BY DEF ReadHandlers
<1>3. \E h \in ReadHandlers : h.gate = "admin" /\ h.part = part
  BY <1>2 DEF runSettingsShow, runMirrorList, Opens
<1> QED
  BY <1>1, <1>3, CommandTells

LEMMA TablesAreCommands == SettingsTables \subseteq ReadHandlers
BY DEF SettingsTables, ReadHandlers

LEMMA PageIsTold ==
    ASSUME NEW u \in Users, NEW r \in RepoIds, NEW x \in PageShows(u, r), x.repo = r
    PROVE  \E y \in ShownOf(u, r) : y.repo = r /\ y.part = x.part
<1>1. u # Unset
  BY AccessAssumption
<1>2. repoFor(u, r) /\ Found(r) /\ CanRead(u, r)
  BY <1>1, PagesReadable DEF repoFor
<1>3. ASSUME NEW h \in PageHandlers, x.part = h.part
      PROVE  \E y \in ShownOf(u, r) : y.repo = r /\ y.part = x.part
  BY <1>2, <1>3, PageGates, ReaderIsTold
<1>4. CASE x \in Header(u, r)
  <2>1. x.part \in {"about", "mirrors"} /\ (x.part = "mirrors" => CanAdmin(u, r))
    BY <1>4, HeaderPages
  <2> QED
    BY <1>2, <2>1, ReaderIsTold, AdminIsTold
<1>5. CASE x \in settingsFormWith(u, r)
  <2>1. CanAdmin(u, r)
    BY <1>5, SettingsPages DEF repoForUser, Permits
  <2>2. CASE x.part = "settings"
    BY <1>2, <2>1, <2>2, AdminIsTold
  <2>3. ASSUME NEW h \in SettingsTables, Passes(u, r, h.gate), x.part = h.part
        PROVE  \E y \in ShownOf(u, r) : y.repo = r /\ y.part = x.part
    BY <1>2, <2>3, TablesAreCommands, CommandTells
  <2> QED
    BY <1>5, <2>2, <2>3, SettingsPages
<1>6. CASE x \in labels(u, r) \cup milestones(u, r) \cup mrCreateForm(u, r)
  <2>1. x.part \in {"items", "code"}
    BY <1>6, CountPages, SourcePages
  <2> QED
    BY <1>2, <2>1, ReaderIsTold
<1> QED
  BY <1>3, <1>4, <1>5, <1>6, PageShowsIs

LEMMA ToldIsRead ==
    ASSUME NEW u \in Users, u \notin SiteAdmins, NEW r \in RepoIds, NEW x \in ShownOf(u, r),
           x.repo = r
    PROVE  /\ Found(r) /\ CanRead(u, r)
           /\ x.part \in Guarded => CanAdmin(u, r)
<1>1. Found(r)
  BY ShownOfIs, ShownReadable, CountsReadable DEF resolveRepo
<1> QED
  BY <1>1, ShownToThem

LEMMA ReadableHasPages ==
    ASSUME NEW u \in Users, NEW r \in RepoIds, Found(r), CanRead(u, r),
           NEW part \in {"code", "items", "builds", "releases", "wiki"}
    PROVE  \E x \in PageShows(u, r) : x.repo = r /\ x.part = part
<1>1. PageOpens(u, r, "read")
  BY AccessAssumption DEF PageOpens, repoFor
<1>2. {treePage, issuesPage, buildsPage, releasesPage, wiki} \subseteq PageHandlers
  BY DEF PageHandlers
<1>3. \E h \in PageHandlers : h.gate = "read" /\ h.part = part
  BY <1>2 DEF treePage, issuesPage, buildsPage, releasesPage, wiki, Opens
<1> QED
  BY <1>1, <1>3, PageTells

LEMMA AdminHasSettings ==
    ASSUME NEW u \in Users, NEW r \in RepoIds, Found(r), CanRead(u, r), CanAdmin(u, r),
           NEW part \in {"settings", "access", "hooks", "runners"}
    PROVE  \E x \in PageShows(u, r) : x.repo = r /\ x.part = part
<1>1. repoForUser(u, r, "admin") /\ Passes(u, r, "admin")
  BY AccessAssumption DEF repoForUser, Permits, Passes
<1> DEFINE tables == {h.part : h \in {h \in SettingsTables : Passes(u, r, h.gate)}}
<1>2. settingsFormWith(u, r) = Told(r, {"settings"}) \cup Told(r, tables)
  BY <1>1 DEF settingsFormWith, SettingsTables
<1>3. {runAccessList, runWebhookList, runRepoRunnerList} \subseteq SettingsTables
  BY DEF SettingsTables
<1>4. part = "settings" \/ \E h \in SettingsTables : h.gate = "admin" /\ h.part = part
  BY <1>3 DEF runAccessList, runWebhookList, runRepoRunnerList, Opens
<1>5. part \in {"settings"} \/ part \in tables
  BY <1>1, <1>4
<1>6. [repo |-> r, part |-> part] \in settingsFormWith(u, r)
  <2> HIDE DEF tables
  <2> QED
    BY <1>2, <1>5 DEF Told
<1>7. [repo |-> r, part |-> part] \in PageShows(u, r)
  BY <1>6 DEF PageShows
<1> QED
  BY <1>7

LEMMA PagesAgreeNow == PagesAgree
<1> SUFFICES ASSUME NEW v \in Users, NEW r \in RepoIds, v \notin SiteAdmins
             PROVE  LET told == {x.part : x \in {y \in ShownOf(v, r) : y.repo = r}}
                        page == {x.part : x \in {y \in PageShows(v, r) : y.repo = r}}
                    IN  /\ page \subseteq told
                        /\ {"code", "items", "builds", "releases", "wiki"} \cap told
                             \subseteq page
                        /\ told \cap {"settings", "access", "hooks", "runners"}
                             \subseteq page \cup {"secrets", "keys", "leaks"}
  BY DEF PagesAgree
<1> DEFINE told == {x.part : x \in {y \in ShownOf(v, r) : y.repo = r}}
<1> DEFINE page == {x.part : x \in {y \in PageShows(v, r) : y.repo = r}}
<1>1. page \subseteq told
  BY PageIsTold
<1>2. ASSUME NEW part \in told
      PROVE  Found(r) /\ CanRead(v, r) /\ (part \in Guarded => CanAdmin(v, r))
  BY ToldIsRead
<1>3. {"code", "items", "builds", "releases", "wiki"} \cap told \subseteq page
  <2> SUFFICES ASSUME NEW part \in {"code", "items", "builds", "releases", "wiki"}, part \in told
               PROVE  part \in page
    OBVIOUS
  <2>1. \E x \in PageShows(v, r) : x.repo = r /\ x.part = part
    BY <1>2, ReadableHasPages
  <2> QED
    BY <2>1
<1>4. told \cap {"settings", "access", "hooks", "runners"} \subseteq page
  <2> SUFFICES ASSUME NEW part \in {"settings", "access", "hooks", "runners"}, part \in told
               PROVE  part \in page
    OBVIOUS
  <2>1. CanAdmin(v, r)
    BY <1>2 DEF Guarded
  <2>2. \E x \in PageShows(v, r) : x.repo = r /\ x.part = part
    BY <1>2, <2>1, AdminHasSettings
  <2> QED
    BY <2>2
<1> QED
  BY <1>1, <1>3, <1>4

-----------------------------------------------------------------------------
(* Pages: the inductive invariant *)

FormStates == {"idle", "read", "removing", "removed", "adding", "saved", "refused"}
FormRow == [at: FormStates, by: Users \cup {Unset}, repo: RepoIds \cup {Unset},
            want: SUBSET Topics, remove: SUBSET Topics, add: SUBSET Topics]
ClaimRow == [repo: RepoIds \cup {Unset}, token: 0..MaxPageOps, verified: BOOLEAN, old: BOOLEAN]
Verification == [domain: Domains, repo: RepoIds, token: 0..MaxPageOps, found: BOOLEAN]

\* Of a topics form that is under way or saved, the topics nobody else touched
\* are those it asked for, less the ones it has yet to add, and those it has
\* yet to remove.
FormFollows ==
    form.at \notin {"idle", "refused"} =>
      /\ form.repo \in RepoIds
      /\ form.remove \cap form.want = {} /\ form.add \subseteq form.want
      /\ \A t \in Topics \ touched :
           t \in topics[form.repo] <=>
             (t \in form.want /\ t \notin form.add) \/ t \in form.remove
      /\ form.at \in {"removed", "adding", "saved"} => form.remove = {}
      /\ form.at = "saved" => form.add = {}

TopicRows ==
    /\ topics \in [RepoIds -> SUBSET Topics]
    /\ form \in FormRow /\ touched \subseteq Topics
    /\ FormFollows

\* A lookup that found its challenge has been answered for its repository.
DomainRows ==
    /\ claim \in [Domains -> ClaimRow]
    /\ \A d \in Domains : /\ claim[d].repo = Unset => claim[d] = NoClaim
                          /\ claim[d].verified => ~ claim[d].old
    /\ verifying = Unset \/ verifying \in Verification
    /\ verifying # Unset /\ verifying.found =>
         <<verifying.domain, verifying.repo>> \in answered
    /\ answered \subseteq Domains \X RepoIds
    /\ VerifiedIsProven

PagesInv == ReadsInv /\ TopicRows /\ DomainRows /\ pageOps \in 0..MaxPageOps

LEMMA PagesInvIsTyped == PagesInv => PagesTypeOK
<1> SUFFICES ASSUME PagesInv
             PROVE  PagesTypeOK
  OBVIOUS
<1>1. form.want \subseteq Topics /\ form.remove \subseteq Topics /\ form.add \subseteq Topics
  BY DEF PagesInv, TopicRows, FormRow
<1>2. \A d \in Domains : claim[d].repo \in RepoIds \cup {Unset}
  BY DEF PagesInv, DomainRows, ClaimRow
<1> QED
  BY <1>1, <1>2 DEF PagesInv, TopicRows, DomainRows, PagesTypeOK

LEMMA SavedAsAsked == PagesInv => TopicsAsAsked
<1> SUFFICES ASSUME PagesInv, form.at = "saved"
             PROVE  \A t \in Topics \ touched : t \in topics[form.repo] <=> t \in form.want
  BY DEF TopicsAsAsked
<1>1. FormFollows
  BY DEF PagesInv, TopicRows
<1>2. form.remove = {} /\ form.add = {}
  BY <1>1 DEF FormFollows
<1>3. \A t \in Topics \ touched :
        t \in topics[form.repo] <=> (t \in form.want /\ t \notin form.add) \/ t \in form.remove
  BY <1>1 DEF FormFollows
<1> QED
  BY <1>2, <1>3

LEMMA PagesInvStarts == PagesInit => PagesInv
<1> SUFFICES ASSUME PagesInit
             PROVE  PagesInv
  OBVIOUS
<1>1. ReadsInv
  BY ReadsInvStarts DEF PagesInit
<1>2. PagesFresh
  BY DEF PagesInit
<1>3. pageOps \in 0..MaxPageOps
  BY <1>2, PagesAssumption DEF PagesFresh
<1>4. TopicRows
  <2> DEFINE first == CHOOSE t \in Topics : TRUE
  <2>1. first \in Topics
    BY PagesAssumption
  <2>2. topics = [r \in RepoIds |-> IF ForkOf[r] = Unset THEN {first} ELSE {}]
    BY <1>2 DEF PagesFresh
  <2> HIDE DEF first
  <2>3. topics \in [RepoIds -> SUBSET Topics]
    BY <2>1, <2>2
  <2>4. form = NoForm /\ touched = {}
    BY <1>2 DEF PagesFresh
  <2>5. NoForm \in FormRow /\ NoForm.at = "idle"
    BY DEF NoForm, FormRow, FormStates
  <2> QED
    BY <2>3, <2>4, <2>5 DEF TopicRows, FormFollows
<1>5. DomainRows
  <2>1. claim = [d \in Domains |-> NoClaim] /\ verifying = Unset /\ answered = {}
    BY <1>2 DEF PagesFresh
  <2>2. NoClaim \in ClaimRow /\ NoClaim.verified = FALSE
    BY PagesAssumption DEF NoClaim, ClaimRow
  <2>3. \A d \in Domains : claim[d] = NoClaim
    BY <2>1
  <2> QED
    BY <2>1, <2>2, <2>3 DEF DomainRows, VerifiedIsProven
<1> QED
  BY <1>1, <1>3, <1>4, <1>5 DEF PagesInv

-----------------------------------------------------------------------------
(* Pages: the topics form *)

LEMMA TopicsFormKeeps ==
    ASSUME TopicRows, NEW u \in Users, NEW r \in RepoIds, NEW want \in SUBSET Topics,
           topicsForm(u, r, want)
    PROVE  TopicRows'
<1> DEFINE have == topics[r]
<1>1. have \subseteq Topics
  BY DEF TopicRows
<1>2. /\ form' = [at |-> IF have \ want = {} THEN "removed" ELSE "read",
                  by |-> u, repo |-> r, want |-> want,
                  remove |-> have \ want, add |-> want \ have]
      /\ touched' = {} /\ topics' = topics
  BY DEF topicsForm, unwanted
<1>3. /\ form'.at = IF have \ want = {} THEN "removed" ELSE "read"
      /\ form'.repo = r /\ form'.want = want
      /\ form'.remove = have \ want /\ form'.add = want \ have
  BY <1>2
<1>4. form' \in FormRow
  BY <1>1, <1>2 DEF FormRow, FormStates
<1>5. FormFollows'
  <2>1. \A t \in Topics : t \in topics'[r] <=> t \in have
    BY <1>2
  <2>2. \A t \in Topics :
          t \in have <=> (t \in want /\ t \notin want \ have) \/ t \in have \ want
    OBVIOUS
  <2>3. /\ form'.remove \cap form'.want = {} /\ form'.add \subseteq form'.want
        /\ form'.at \in {"removed", "read"} /\ (form'.at = "removed" => form'.remove = {})
    BY <1>3
  <2>4. \A t \in Topics \ touched' :
          t \in topics'[form'.repo] <=>
            (t \in form'.want /\ t \notin form'.add) \/ t \in form'.remove
    BY <1>3, <2>1, <2>2
  <2> QED
    BY <1>3, <2>3, <2>4 DEF FormFollows
<1> QED
  BY <1>2, <1>4, <1>5 DEF TopicRows

LEMMA RemoveTopicKeeps ==
    ASSUME TopicRows, NEW t \in Topics, RemoveTopic(t)
    PROVE  TopicRows'
<1>1. /\ form \in FormRow /\ FormFollows /\ form.at = "removing" /\ t \in form.remove
      /\ form.repo \in RepoIds /\ touched' = touched
  BY DEF TopicRows, FormFollows, RemoveTopic
<1>2. CASE FormAt("refused") /\ UNCHANGED topics
  <2>1. form' \in FormRow /\ form'.at = "refused"
    BY <1>1, <1>2 DEF FormAt, FormRow, FormStates
  <2> QED
    BY <1>1, <1>2, <2>1 DEF TopicRows, FormFollows
<1>3. CASE /\ topics' = [topics EXCEPT ![form.repo] = @ \ {t}]
           /\ form' = [form EXCEPT !.remove = @ \ {t},
                         !.at = IF form.remove = {t} THEN "removed" ELSE @]
  <2>1. /\ form'.at = IF form.remove = {t} THEN "removed" ELSE "removing"
        /\ form'.repo = form.repo /\ form'.want = form.want /\ form'.add = form.add
        /\ form'.remove = form.remove \ {t}
    BY <1>1, <1>3 DEF FormRow
  <2>2. form' \in FormRow
    BY <1>1, <1>3 DEF FormRow, FormStates
  <2>3. /\ topics' \in [RepoIds -> SUBSET Topics]
        /\ topics'[form.repo] = topics[form.repo] \ {t}
    BY <1>1, <1>3 DEF TopicRows
  <2>4. t \notin form.want
    BY <1>1 DEF FormFollows
  <2>5. \A s \in Topics \ touched :
          s \in topics[form.repo] <=>
            (s \in form.want /\ s \notin form.add) \/ s \in form.remove
    BY <1>1 DEF FormFollows
  <2>6. \A s \in Topics \ touched' :
          s \in topics'[form'.repo] <=>
            (s \in form'.want /\ s \notin form'.add) \/ s \in form'.remove
    BY <1>1, <2>1, <2>3, <2>4, <2>5
  <2>7. /\ form'.remove \cap form'.want = {} /\ form'.add \subseteq form'.want
        /\ form'.at \in {"removed", "removing"} /\ (form'.at = "removed" => form'.remove = {})
    BY <1>1, <2>1 DEF FormFollows
  <2>8. FormFollows'
    BY <1>1, <2>1, <2>6, <2>7 DEF FormFollows
  <2> QED
    BY <1>1, <2>2, <2>3, <2>8 DEF TopicRows
<1> QED
  BY <1>2, <1>3 DEF RemoveTopic

LEMMA AddTopicKeeps ==
    ASSUME TopicRows, NEW t \in Topics, AddTopic(t)
    PROVE  TopicRows'
<1>1. /\ form \in FormRow /\ FormFollows /\ form.at = "adding" /\ t \in form.add
      /\ form.repo \in RepoIds /\ touched' = touched
  BY DEF TopicRows, FormFollows, AddTopic
<1>2. /\ topics' = [topics EXCEPT ![form.repo] = @ \cup {t}]
      /\ form' = [form EXCEPT !.add = @ \ {t}, !.at = IF form.add = {t} THEN "saved" ELSE @]
  BY DEF AddTopic
<1>3. /\ form'.at = IF form.add = {t} THEN "saved" ELSE "adding"
      /\ form'.repo = form.repo /\ form'.want = form.want /\ form'.remove = form.remove
      /\ form'.add = form.add \ {t}
  BY <1>1, <1>2 DEF FormRow
<1>4. form' \in FormRow
  BY <1>1, <1>2 DEF FormRow, FormStates
<1>5. /\ topics' \in [RepoIds -> SUBSET Topics]
      /\ topics'[form.repo] = topics[form.repo] \cup {t}
  BY <1>1, <1>2 DEF TopicRows
<1>6. t \in form.want /\ form.remove = {}
  BY <1>1 DEF FormFollows
<1>7. \A s \in Topics \ touched :
        s \in topics[form.repo] <=>
          (s \in form.want /\ s \notin form.add) \/ s \in form.remove
  BY <1>1 DEF FormFollows
<1>8. \A s \in Topics \ touched' :
        s \in topics'[form'.repo] <=>
          (s \in form'.want /\ s \notin form'.add) \/ s \in form'.remove
  BY <1>1, <1>3, <1>5, <1>6, <1>7
<1>9. /\ form'.remove \cap form'.want = {} /\ form'.add \subseteq form'.want
      /\ form'.remove = {}
      /\ form'.at \in {"adding", "saved"} /\ (form'.at = "saved" => form'.add = {})
  BY <1>1, <1>3, <1>6 DEF FormFollows
<1>10. FormFollows'
  BY <1>1, <1>3, <1>8, <1>9 DEF FormFollows
<1> QED
  BY <1>1, <1>4, <1>5, <1>10 DEF TopicRows

\* The two checks of a form, before it removes and before it adds.
LEMMA TopicsChecked ==
    ASSUME TopicRows, topicsRemove \/ topicsAdd
    PROVE  TopicRows'
<1>1. form \in FormRow /\ FormFollows /\ touched' = touched /\ topics' = topics
  BY DEF TopicRows, topicsRemove, topicsAdd
<1>2. PICK at \in {"removing", "adding", "saved", "refused"} :
        /\ FormAt(at)
        /\ at = "removing" => form.at = "read"
        /\ at \in {"adding", "saved"} => form.at = "removed"
        /\ at = "saved" => form.add = {}
        /\ form.at \in {"read", "removed"}
  BY DEF topicsRemove, topicsAdd
<1>3. /\ form'.at = at /\ form'.repo = form.repo /\ form'.want = form.want
      /\ form'.remove = form.remove /\ form'.add = form.add
  BY <1>1, <1>2 DEF FormAt, FormRow
<1>4. form' \in FormRow
  BY <1>1, <1>2 DEF FormAt, FormRow, FormStates
<1>5. FormFollows'
  BY <1>1, <1>2, <1>3 DEF FormFollows
<1> QED
  BY <1>1, <1>4, <1>5 DEF TopicRows

\* A topic changed from another session.
LEMMA EditTopicKeeps ==
    ASSUME TopicRows, NEW u \in Users, NEW r \in RepoIds, NEW t \in Topics, NEW on \in BOOLEAN,
           editTopic(u, r, t, on)
    PROVE  TopicRows'
<1>1. /\ topics' = [topics EXCEPT ![r] = IF on THEN @ \cup {t} ELSE @ \ {t}]
      /\ touched' = IF r = form.repo THEN touched \cup {t} ELSE touched
      /\ form' = form
  BY DEF editTopic
<1>2. form \in FormRow /\ FormFollows /\ touched \subseteq Topics
      /\ topics \in [RepoIds -> SUBSET Topics]
  BY DEF TopicRows
<1>3. topics' \in [RepoIds -> SUBSET Topics] /\ touched' \subseteq Topics
  BY <1>1, <1>2
<1>4. \A s \in Topics \ touched' :
        form.repo \in RepoIds => (s \in topics'[form.repo] <=> s \in topics[form.repo])
  BY <1>1, <1>2
<1>5. FormFollows'
  <2>1. touched \subseteq touched'
    BY <1>1
  <2> QED
    BY <1>1, <1>2, <1>4, <2>1 DEF FormFollows
<1> QED
  BY <1>1, <1>2, <1>3, <1>5 DEF TopicRows

LEMMA PageCounted ==
    ASSUME pageOps \in 0..MaxPageOps, MayPage
    PROVE  pageOps + 1 \in 0..MaxPageOps
BY PagesAssumption DEF MayPage

LEMMA TopicsStepKeeps ==
    ASSUME TopicRows, DomainRows, pageOps \in 0..MaxPageOps, TopicsStep
    PROVE  TopicRows' /\ DomainRows' /\ pageOps' \in 0..MaxPageOps
<1>1. ASSUME NEW u \in Users, NEW r \in RepoIds, NEW want \in SUBSET Topics,
             topicsForm(u, r, want)
      PROVE  /\ TopicRows' /\ pageOps' \in 0..MaxPageOps
             /\ UNCHANGED <<claim, verifying, answered>>
  BY <1>1, TopicsFormKeeps, PageCounted DEF topicsForm, CountedPage
<1>2. ASSUME NEW u \in Users, NEW r \in RepoIds, NEW t \in Topics, NEW on \in BOOLEAN,
             editTopic(u, r, t, on)
      PROVE  /\ TopicRows' /\ pageOps' \in 0..MaxPageOps
             /\ UNCHANGED <<claim, verifying, answered>>
  BY <1>2, EditTopicKeeps, PageCounted DEF editTopic, CountedPage
<1>3. ASSUME NEW t \in Topics, RemoveTopic(t) \/ AddTopic(t)
      PROVE  /\ TopicRows' /\ pageOps' \in 0..MaxPageOps
             /\ UNCHANGED <<claim, verifying, answered>>
  BY <1>3, RemoveTopicKeeps, AddTopicKeeps DEF RemoveTopic, AddTopic
<1>4. /\ TopicRows' /\ pageOps' \in 0..MaxPageOps
      /\ UNCHANGED <<claim, verifying, answered>>
  <2>1. CASE topicsRemove \/ topicsAdd
    BY <2>1, TopicsChecked DEF topicsRemove, topicsAdd
  <2> QED
    BY <1>1, <1>2, <1>3, <2>1 DEF TopicsStep
<1> QED
  BY <1>4 DEF DomainRows, VerifiedIsProven

-----------------------------------------------------------------------------
(* Pages: custom domains *)

\* A claim that is written anew or aged is not verified.
LEMMA ClaimKeeps ==
    ASSUME DomainRows, NEW d \in Domains, NEW c \in ClaimRow,
           claim' = [claim EXCEPT ![d] = c],
           c.repo = Unset => c = NoClaim,
           c.verified => ~ c.old /\ <<d, c.repo>> \in answered,
           verifying' = Unset \/ verifying' = verifying, answered' = answered
    PROVE  DomainRows'
<1>1. claim \in [Domains -> ClaimRow]
  BY DEF DomainRows
<1>2. claim' \in [Domains -> ClaimRow]
  BY <1>1
<1>3. \A e \in Domains : claim'[e] = IF e = d THEN c ELSE claim[e]
  BY <1>1
<1>4. VerifiedIsProven'
  BY <1>3 DEF DomainRows, VerifiedIsProven
<1>5. \A e \in Domains : /\ claim'[e].repo = Unset => claim'[e] = NoClaim
                         /\ claim'[e].verified => ~ claim'[e].old
  BY <1>3 DEF DomainRows
<1>6. verifying' = Unset \/ verifying' \in Verification
  BY DEF DomainRows
<1>7. verifying' # Unset /\ verifying'.found =>
        <<verifying'.domain, verifying'.repo>> \in answered'
  BY DEF DomainRows
<1>8. answered' \subseteq Domains \X RepoIds
  BY DEF DomainRows
<1> QED
  BY <1>2, <1>4, <1>5, <1>6, <1>7, <1>8 DEF DomainRows

LEMMA NoClaimRow == NoClaim \in ClaimRow /\ NoClaim.verified = FALSE
BY PagesAssumption DEF NoClaim, ClaimRow

LEMMA DomainCommandsKeep ==
    ASSUME DomainRows, pageOps \in 0..MaxPageOps,
           NEW u \in Users, NEW r \in RepoIds, NEW d \in Domains,
           runDomainAdd(u, r, d) \/ runDomainVerify(u, r, d) \/ runDomainRemove(u, r, d)
    PROVE  DomainRows' /\ pageOps' \in 0..MaxPageOps
<1>1. CASE runDomainAdd(u, r, d)
  <2>1. pageOps + 1 \in 0..MaxPageOps /\ pageOps' = pageOps + 1
    BY <1>1, PageCounted DEF runDomainAdd, CountedPage
  <2> DEFINE c == [repo |-> r, token |-> pageOps + 1, verified |-> FALSE, old |-> FALSE]
  <2>2. c \in ClaimRow /\ c.repo # Unset /\ c.verified = FALSE
    BY <2>1, AccessAssumption DEF ClaimRow
  <2>3. claim' = [claim EXCEPT ![d] = c] /\ UNCHANGED <<verifying, answered>>
    BY <1>1 DEF runDomainAdd, AddPageDomain
  <2> HIDE DEF c
  <2>4. DomainRows'
    BY <2>2, <2>3, ClaimKeeps
  <2> QED
    BY <2>1, <2>4
<1>2. CASE runDomainVerify(u, r, d)
  <2>1. CASE claim[d].old
    BY <1>2, <2>1, NoClaimRow, ClaimKeeps DEF runDomainVerify
  <2>2. CASE ~ claim[d].old
    <3>1. claim[d].token \in 0..MaxPageOps
      BY DEF DomainRows, ClaimRow
    <3>2. verifying' = [domain |-> d, repo |-> r, token |-> claim[d].token, found |-> FALSE]
      BY <1>2, <2>2 DEF runDomainVerify
    <3>3. verifying' \in Verification /\ verifying'.found = FALSE
      BY <3>1, <3>2 DEF Verification
    <3>4. UNCHANGED <<claim, answered, pageOps>>
      BY <1>2, <2>2 DEF runDomainVerify
    <3> QED
      BY <3>3, <3>4 DEF DomainRows, VerifiedIsProven
  <2> QED
    BY <1>2, <2>1, <2>2 DEF runDomainVerify
<1>3. CASE runDomainRemove(u, r, d)
  BY <1>3, NoClaimRow, ClaimKeeps DEF runDomainRemove
<1> QED
  BY <1>1, <1>2, <1>3

LEMMA ExpiredKeeps ==
    ASSUME DomainRows, NEW d \in Domains, PageDomainExpired(d)
    PROVE  DomainRows'
<1> DEFINE c == [claim[d] EXCEPT !.old = TRUE]
<1>1. claim[d] \in ClaimRow
  BY DEF DomainRows
<1>2. c \in ClaimRow /\ c.repo = claim[d].repo /\ c.verified = claim[d].verified
  BY <1>1 DEF ClaimRow
<1>3. c.repo # Unset /\ ~ c.verified
  BY <1>2 DEF PageDomainExpired
<1>4. claim' = [claim EXCEPT ![d] = c] /\ UNCHANGED <<verifying, answered>>
  BY DEF PageDomainExpired
<1> HIDE DEF c
<1> QED
  BY <1>2, <1>3, <1>4, ClaimKeeps

\* The lookup, and the row it verifies if the claim is still the repository's.
LEMMA VerifyKeeps ==
    ASSUME DomainRows, VerifyPageDomain
    PROVE  DomainRows'
<1>1. /\ verifying \in Verification /\ <<verifying.domain, verifying.repo>> \in answered
      /\ verifying' = Unset /\ answered' = answered
  BY DEF DomainRows, VerifyPageDomain
<1>2. verifying.domain \in Domains /\ verifying.repo \in RepoIds
  BY <1>1 DEF Verification
<1> DEFINE d == verifying.domain
<1> DEFINE c == [claim[d] EXCEPT !.verified = TRUE, !.old = FALSE]
<1>3. CASE claim[d].repo = verifying.repo
  <2>1. claim' = [claim EXCEPT ![d].verified = TRUE, ![d].old = FALSE]
    BY <1>3 DEF VerifyPageDomain, VerifyRow
  <2>2. claim[d] \in ClaimRow /\ claim \in [Domains -> ClaimRow]
    BY <1>2 DEF DomainRows
  <2>3. c \in ClaimRow /\ c.repo = verifying.repo /\ ~ c.old
    BY <1>3, <2>2 DEF ClaimRow
  <2>4. claim' = [claim EXCEPT ![d] = c]
    BY <2>1, <2>2, <1>2
  <2>5. c.repo # Unset
    BY <1>2, <2>3, AccessAssumption
  <2> HIDE DEF c
  <2> QED
    BY <1>1, <1>2, <2>3, <2>4, <2>5, ClaimKeeps
<1>4. CASE claim[d].repo # verifying.repo
  <2>1. claim' = claim
    BY <1>4 DEF VerifyPageDomain, VerifyRow
  <2> QED
    BY <1>1, <2>1 DEF DomainRows, VerifiedIsProven
<1> QED
  BY <1>3, <1>4

LEMMA LookupKeeps ==
    ASSUME DomainRows, lookupTXT
    PROVE  DomainRows'
<1>1. verifying \in Verification /\ claim' = claim
  BY DEF DomainRows, lookupTXT
<1>2. CASE /\ verifying' = [verifying EXCEPT !.found = TRUE]
           /\ answered' = answered \cup {<<verifying.domain, verifying.repo>>}
  <2>1. /\ verifying' \in Verification /\ verifying'.domain = verifying.domain
        /\ verifying'.repo = verifying.repo
    BY <1>1, <1>2 DEF Verification
  <2>2. verifying.domain \in Domains /\ verifying.repo \in RepoIds
    BY <1>1 DEF Verification
  <2> QED
    BY <1>1, <1>2, <2>1, <2>2 DEF DomainRows, VerifiedIsProven
<1>3. CASE verifying' = Unset /\ UNCHANGED answered
  BY <1>1, <1>3 DEF DomainRows, VerifiedIsProven
<1> QED
  BY <1>2, <1>3 DEF lookupTXT

LEMMA DomainsStepKeeps ==
    ASSUME TopicRows, DomainRows, pageOps \in 0..MaxPageOps, DomainsStep
    PROVE  TopicRows' /\ DomainRows' /\ pageOps' \in 0..MaxPageOps
<1>1. UNCHANGED <<topics, form, touched>>
  BY DEF DomainsStep, runDomainAdd, runDomainVerify, runDomainRemove, PageDomainExpired,
         Publishes, lookupTXT, VerifyPageDomain
<1>2. TopicRows'
  BY <1>1 DEF TopicRows, FormFollows
<1>3. ASSUME NEW d \in Domains, Publishes(d)
      PROVE  DomainRows' /\ pageOps' \in 0..MaxPageOps
  BY <1>3 DEF Publishes, DomainRows, VerifiedIsProven
<1>4. ASSUME NEW d \in Domains, PageDomainExpired(d)
      PROVE  DomainRows' /\ pageOps' \in 0..MaxPageOps
  BY <1>4, ExpiredKeeps DEF PageDomainExpired
<1>5. CASE lookupTXT \/ VerifyPageDomain
  BY <1>2, <1>5, LookupKeeps, VerifyKeeps DEF lookupTXT, VerifyPageDomain
<1> QED
  BY <1>2, <1>3, <1>4, <1>5, DomainCommandsKeep DEF DomainsStep

-----------------------------------------------------------------------------
(* Pages: the theorems *)

\* A form dispatches a command, and the command is a step of its own module.
LEMMA FormsDispatch ==
    ASSUME Forms
    PROVE  ReadsNext /\ UNCHANGED pageVars
<1>1. ASSUME NEW u \in Users, NEW r \in RepoIds,
             pinToggle(u, r) \/ bookmarkToggle(u, r) \/ streamBuild(u, r)
      PROVE  ReadsNext /\ UNCHANGED pageVars
  <2>1. \/ \E kind \in MarkKinds, on \in BOOLEAN : setRepoMark(u, r, kind, on)
        \/ takeFollow(u, r)
    BY <1>1 DEF pinToggle, bookmarkToggle, streamBuild, MarkKinds
  <2>2. UNCHANGED <<accessVars, pageVars>>
    BY <1>1 DEF pinToggle, bookmarkToggle, streamBuild
  <2> QED
    BY <2>1, <2>2 DEF ReadsNext, ReadsStep
<1>2. ASSUME NEW u \in Users, NEW r \in RepoIds, settingsSubmit(u, r)
      PROVE  ReadsNext /\ UNCHANGED pageVars
  <2>1. UNCHANGED pageVars
    BY <1>2 DEF settingsSubmit
  <2>2. \/ (\E h \in WriteHandlers : Configure(u, r, h)) /\ UNCHANGED accessVars
        \/ (\E w \in Workers : MayAsk(w) /\ AskRepo(w, u)) /\ UNCHANGED readVars
    BY <1>2 DEF settingsSubmit, AskRepo
  <2> QED
    BY <2>1, <2>2 DEF ReadsNext, ReadsStep, AccessNext, AccessStep
<1>3. ASSUME NEW u \in Users, orgSubmit(u)
      PROVE  ReadsNext /\ UNCHANGED pageVars
  <2>1. (\E w \in Workers : MayAsk(w) /\ AskOrg(w, u)) /\ UNCHANGED <<readVars, pageVars>>
    BY <1>3 DEF orgSubmit, AskOrg
  <2> QED
    BY <2>1 DEF ReadsNext, AccessNext, AccessStep
<1>4. ASSUME NEW u \in Users, NEW s \in SnippetIds, snippetNewSubmit(u, s) \/ snippetAction(u, s)
      PROVE  ReadsNext /\ UNCHANGED pageVars
  <2>1. /\ \/ \E v \in Visibilities : runSnippetCreate(u, s, v) \/ runSnippetEdit(u, s, v)
           \/ runSnippetDelete(u, s)
        /\ UNCHANGED <<accessVars, pageVars>>
    BY <1>4 DEF snippetNewSubmit, snippetAction
  <2> QED
    BY <2>1 DEF ReadsNext, ReadsStep
<1> QED
  BY <1>1, <1>2, <1>3, <1>4 DEF Forms

LEMMA PageRowsRest ==
    ASSUME PagesInv, ReadsInv', UNCHANGED pageVars
    PROVE  PagesInv'
<1>1. UNCHANGED <<topics, form, touched, claim, dns, verifying, answered, pageOps>>
  BY DEF pageVars
<1>2. TopicRows' /\ DomainRows'
  BY <1>1 DEF PagesInv, TopicRows, FormFollows, DomainRows, VerifiedIsProven
<1> QED
  BY <1>1, <1>2 DEF PagesInv

LEMMA PagesInvStays == PagesInv /\ [PagesNext]_<<accessVars, readVars, pageVars>> => PagesInv'
<1> SUFFICES ASSUME PagesInv, [PagesNext]_<<accessVars, readVars, pageVars>>
             PROVE  PagesInv'
  OBVIOUS
<1>1. CASE [ReadsNext]_<<accessVars, readVars>> /\ UNCHANGED pageVars
  BY <1>1, ReadsInvStays, PageRowsRest DEF PagesInv
<1>2. CASE TopicsStep /\ UNCHANGED <<accessVars, readVars>>
  <2>1. ReadsInv'
    BY <1>2, ReadsInvStays DEF PagesInv
  <2> QED
    BY <1>2, <2>1, TopicsStepKeeps DEF PagesInv
<1>3. CASE DomainsStep /\ UNCHANGED <<accessVars, readVars>>
  <2>1. ReadsInv'
    BY <1>3, ReadsInvStays DEF PagesInv
  <2> QED
    BY <1>3, <2>1, DomainsStepKeeps DEF PagesInv
<1>4. CASE Elsewhere
  BY <1>1, <1>4 DEF Elsewhere, ReadsNext, AccessNext
<1>5. CASE Forms
  BY <1>1, <1>5, FormsDispatch
<1>6. CASE Configured /\ UNCHANGED <<accessVars, pageVars>>
  BY <1>1, <1>6 DEF ReadsNext, ReadsStep
<1>7. CASE UNCHANGED <<accessVars, readVars, pageVars>>
  BY <1>1, <1>7
<1> QED
  BY <1>2, <1>3, <1>4, <1>5, <1>6, <1>7 DEF PagesNext, FormsNext, TopicsNext, DomainsNext

LEMMA PagesInvAgrees == PagesInv => PagesAgreeWithCommands
BY PagesAgreeNow, PagesShowReadableNow
   DEF PagesInv, ReadsInv, AccessInv, AccessShape, DomainRows, PagesAgreeWithCommands

\* The rows of topics and domains keep their types, and a claim that nobody
\* holds is no claim (store/pagedomains.go).
THEOREM PagesTypeCorrect == PagesSpec => []PagesTypeOK
BY PagesInvStarts, PagesInvStays, PagesInvIsTyped, PTL DEF PagesSpec

\* A topics form that says saved left what it was asked for, whatever other
\* sessions did to other topics meanwhile (httpd's settings form).
THEOREM TopicsStayAsAsked == PagesSpec => []TopicsAsAsked
BY PagesInvStarts, PagesInvStays, SavedAsAsked, PTL DEF PagesSpec

\* Pages open what commands open and show nothing to who may not read it, and a
\* verified domain has answered its own repository's challenge, whatever forms,
\* claims and changes of access cross (httpd, control/pagescmd.go).
THEOREM PagesStayInAgreement == PagesSpec => []PagesAgreeWithCommands
BY PagesInvAgrees, PagesInvStarts, PagesInvStays, PTL DEF PagesSpec

-----------------------------------------------------------------------------
(* All that belongs to people *)

\* The part at work keeps its own invariant; under the read commands the rows
\* of the pages rest and keep theirs.
PeopleInv ==
    /\ working \in {"accounts", "credentials", "reads", "forms", "topics", "domains"}
    /\ working = "accounts" => AccountInv
    /\ working = "credentials" => CredentialInv
    /\ working \in {"reads", "forms", "topics", "domains"} => PagesInv

LEMMA PeopleInvStarts == PeopleInit => PeopleInv
BY AccountInitially, CredentialInvInit, PagesInvStarts DEF PeopleInit, PeopleInv

LEMMA PeopleInvStays == PeopleInv /\ [PeopleNext]_peopleVars => PeopleInv'
<1> SUFFICES ASSUME PeopleInv, [PeopleNext]_peopleVars PROVE PeopleInv'
  OBVIOUS
<1>1. working' = working
  BY DEF PeopleNext, peopleVars
<1>2. CASE working = "accounts"
  <2>1. [AccountNext]_accountVars
    BY <1>2 DEF PeopleNext, peopleVars
  <2> QED
    BY <1>1, <1>2, <2>1, AccountStep DEF PeopleInv
<1>3. CASE working = "credentials"
  <2>1. [CredentialNext]_credentialVars
    BY <1>3 DEF PeopleNext, peopleVars
  <2> QED
    BY <1>1, <1>3, <2>1, CredentialInvNext DEF PeopleInv
<1>4. CASE working = "reads"
  <2>1. [ReadsNext]_<<accessVars, readVars>> /\ UNCHANGED pageVars
    BY <1>4 DEF PeopleNext, peopleVars
  <2>2. PagesInv'
    BY <1>4, <2>1, ReadsInvStays, PageRowsRest DEF PeopleInv, PagesInv
  <2> QED
    BY <1>1, <1>4, <2>2 DEF PeopleInv
<1>5. CASE working \in {"forms", "topics", "domains"}
  <2>1. [PagesNext]_<<accessVars, readVars, pageVars>>
    BY <1>5 DEF PeopleNext, peopleVars, PagesNext
  <2> QED
    BY <1>1, <1>5, <2>1, PagesInvStays DEF PeopleInv
<1> QED
  BY <1>2, <1>3, <1>4, <1>5 DEF PeopleInv

\* Accounts, credentials, the rows that commands write and the rows of pages
\* keep their types while their part is at work (store/).
THEOREM PeopleTypeCorrect == PeopleSpec => []PeopleTypeOK
<1>1. PeopleInv => PeopleTypeOK
  BY AccountInvIsTyped, CredentialInvIsTyped, ReadsInvIsTyped, PagesInvIsTyped
     DEF PeopleInv, PeopleTypeOK, PagesInv
<1> QED
  BY <1>1, PeopleInvStarts, PeopleInvStays, PTL DEF PeopleSpec

\* Among all that belongs to people, commands show a repository to its readers
\* and its configuration to its administrators (control/read.go, dashboard.go).
THEOREM CommandsStayShown == PeopleSpec => []CommandsShown
<1>1. PeopleInv => CommandsShown
  BY ReadsInvAgrees DEF PeopleInv, CommandsShown, PagesInv
<1> QED
  BY <1>1, PeopleInvStarts, PeopleInvStays, PTL DEF PeopleSpec

\* And pages show what commands show, sites what the public may see, and a
\* verified domain is proven (httpd, control/pagescmd.go).
THEOREM PagesStayShown == PeopleSpec => []PagesShown
<1>1. PeopleInv => PagesShown
  BY PagesInvAgrees DEF PeopleInv, PagesShown
<1> QED
  BY <1>1, PeopleInvStarts, PeopleInvStays, PTL DEF PeopleSpec
=============================================================================
