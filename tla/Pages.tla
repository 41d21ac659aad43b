------------------------------- MODULE Pages --------------------------------
(***************************************************************************)
(* The web side (httpd/): what its pages, feeds, git over HTTP and         *)
(* published sites show to a signed-in or anonymous visitor, the forms     *)
(* that dispatch control commands, and custom domains for published sites  *)
(* (control/pagescmd.go, store/pagedomains.go).                            *)
(*                                                                         *)
(* A page over one repository is the check it makes and the part it        *)
(* renders; a page over many is the set of repositories it shows. A form   *)
(* is the command it dispatches after the page's own check; two forms do   *)
(* more: the topics form reads, then removes, then adds.                   *)
(***************************************************************************)
EXTENDS Reads

CONSTANTS
    Domains,       \* host names that may be claimed
    Topics,
    MaxTopics,     \* policy.MaxTopics
    MaxPageOps     \* bound on commands and claims, so also on challenge tokens

ASSUME PagesAssumption == Topics # {} /\ MaxTopics \in Nat /\ MaxPageOps \in Nat

VARIABLES
    topics,     \* rows of repo_topics
    form,       \* a topics form being saved
    touched,    \* history: topics others changed since the form read them
    claim,      \* rows of page_domains
    dns,        \* external: the challenge record each domain carries
    verifying,  \* `repo domain verify` between its read and its write
    answered,     \* history: <<domain, repository>> whose challenge was answered
    pageOps

pageVars == <<topics, form, touched, claim, dns, verifying, answered, pageOps>>

-----------------------------------------------------------------------------
(* Pages over one repository *)

Viewers == Users \cup {Unset}     \* Unset: nobody is signed in

\* repoFor: grants are looked up for a signed-in viewer only.
repoFor(v, r) == Found(r) /\ IF v = Unset THEN repo[r].public ELSE CanRead(v, r)

\* repoForUser: an invisible repository is not found, then the permission.
repoForUser(v, r, need) ==
    Found(r) /\ v # Unset /\ CanRead(v, r) /\ Permits(v, r, need)

\* A plausible mistake: git over HTTP serves whatever exists.
publicRepoAny(r) == Found(r)
publicRepo(r) == Found(r) /\ repo[r].public

treePage == Opens("read", "code")
renderTree == Opens("read", "code")
blobPage == Opens("read", "code")
raw == Opens("read", "code")
blame == Opens("read", "code")
search == Opens("read", "code")
log == Opens("read", "code")
commit == Opens("read", "code")
refsPage == Opens("read", "code")
archive == Opens("read", "code")
logAtom == Opens("read", "code")
compare == Opens("read", "code")
symbolsPage == Opens("read", "code")
blobSymbols == Opens("read", "code")
releasesPage == Opens("read", "releases")
releaseAsset == Opens("read", "releases")
releasesAtom == Opens("read", "releases")
issuesPage == Opens("read", "items")
issuePage == Opens("read", "items")
mrs == Opens("read", "items")
mrPage == Opens("read", "items")
mrRangeDiff == Opens("read", "items")
issueCreateForm == Opens("read", "items")
buildsPage == Opens("read", "builds")
build == Opens("read", "builds")
wiki == Opens("read", "wiki")
wikiRaw == Opens("read", "wiki")
editForm == Opens("write", "code")
infoRefs == Opens("public", "code")
uploadPack == Opens("public", "code")
badgeState == Opens("public", "builds")
servePage == Opens("public", "code")

PageHandlers ==
    {treePage, renderTree, blobPage, raw, blame, search, log, commit, refsPage, archive,
     logAtom, compare, symbolsPage, blobSymbols, releasesPage, releaseAsset,
     releasesAtom, issuesPage, issuePage, mrs, mrPage, mrRangeDiff, issueCreateForm,
     buildsPage, build, wiki, wikiRaw, editForm, infoRefs, uploadPack, badgeState,
     servePage}

PageParts ==
    [gate \in {"read", "write", "public"} |->
       {h.part : h \in {h \in PageHandlers : h.gate = gate}}]

PageOpens(v, r, gate) ==
    CASE gate = "read"   -> repoFor(v, r)
      [] gate = "write"  -> repoForUser(v, r, "write")
      [] gate = "public" -> publicRepo(r)

\* repoFor fills every page's header; mirrors go to administrators.
Header(v, r) ==
    IF ~ repoFor(v, r) THEN {}
    ELSE Told(r, {"about"})
         \cup (IF v # Unset /\ CanAdmin(v, r) THEN Told(r, {"mirrors"}) ELSE {})

\* A plausible mistake: the page is built for whoever may write.
settingsFormWithWrite(v, r) ==
    IF repoForUser(v, r, "write") THEN Told(r, {"settings", "scan", "runners", "access", "hooks"})
    ELSE {}
\* Its tables come from the commands, run as the viewer.
settingsFormWith(v, r) ==
    IF repoForUser(v, r, "admin")
    THEN Told(r, {"settings"})
         \cup Told(r, {h.part : h \in {h \in {runDepsStatus, runSecurityStatus,
                 runRepoRunnerList, runAccessList, runWebhookList, runWebhookDeliveries} :
                   Passes(v, r, h.gate)}})
    ELSE {}

\* Labels and milestones are counted over the owner's readable repositories.
WebScope(v, r) ==
    IF v # Unset THEN ReadableScope(v, r)
    ELSE IF repo[r].owner \in OrgIds
         THEN {x \in RepoIds : repo[x].is = "here" /\ repo[x].owner = repo[r].owner
                               /\ repo[x].public}
         ELSE {r}
labels(v, r) ==
    IF repoFor(v, r) THEN UNION {Told(x, {"items"}) : x \in WebScope(v, r)} ELSE {}
milestones(v, r) ==
    IF repoFor(v, r) THEN UNION {Told(x, {"items"}) : x \in WebScope(v, r)} ELSE {}

\* The sources a merge request may be opened from: branches here and those
\* of the forks the viewer writes to.
writableForks(v, r) ==
    IF v = Unset THEN {} ELSE {f \in RepoIds : Found(f) /\ ForkOf[f] = r /\ CanWrite(v, f)}
mrSources(v, r) == UNION {Told(x, {"code"}) : x \in {r} \cup writableForks(v, r)}
mrCreateForm(v, r) == IF repoFor(v, r) /\ v # Unset THEN mrSources(v, r) ELSE {}

\* A reference in someone's text links only to what the viewer can read.
RefURL(v) == {r \in RepoIds : repoFor(v, r)}

PageShows(v, r) ==
    LET open == {gate \in {"read", "write", "public"} : PageOpens(v, r, gate)}
    IN  Told(r, UNION {PageParts[gate] : gate \in open})
    \cup Header(v, r) \cup settingsFormWith(v, r) \cup labels(v, r)
    \cup milestones(v, r) \cup mrCreateForm(v, r)

-----------------------------------------------------------------------------
(* Pages over many repositories *)

pinnedRows(v) == {r \in MarkedBy(v, "pin") : CanRead(v, r)}

dashboard(v) ==
    DashboardMRs(v) \cup DashboardIssues(v) \cup ReviewQueue(v) \cup AssignedIssues(v)
    \cup RecentEvents(v) \cup PinnedQueries(v) \cup pinnedRows(v)
explore == ListPublicRepos
\* `/`: the dashboard when signed in, explore otherwise.
index(v) == IF v = Unset THEN explore ELSE dashboard(v)

globalSearch(v) == IF v = Unset THEN ListPublicRepos ELSE runSearch(v)
ownerFeed == OwnerPublicEvents
ownerAtom == OwnerPublicEvents

\* An owner's page is what `profile show` reports to this viewer; the
\* bookmarks tab is the viewer's own.
ownerProfile(v) ==
    ownerFeed \cup (IF v = Unset THEN ListPublicRepos
                    ELSE runProfileShow(v) \cup runRepoBookmarks(v))
queriesPage(v) == IF v = Unset THEN {} ELSE runItemQuery(v)
notifications(v) == IF v = Unset THEN {} ELSE Inbox(v)

\* orgScope: not found unless a member or a reader of something there.
orgScope(v, o) ==
    IF ~ OrgHere(o) THEN {}
    ELSE {r \in ReposHere : repo[r].owner = o /\ repoFor(v, r)}
orgLabels(v) == UNION {orgScope(v, o) : o \in OrgIds}
orgMilestones(v) == UNION {orgScope(v, o) : o \in OrgIds}

\* orgAdminView: the teams' grants name repositories of the organization.
orgAdminView(v) ==
    IF v = Unset THEN {}
    ELSE {r \in ReposHere : \E t \in TeamIds : /\ orgAdmin(v, TeamOrg[t]) /\ TeamHere(t)
                                          /\ team[t].roles[r] # "none"}

PagesList(v) ==
    index(v) \cup explore \cup globalSearch(v) \cup ownerAtom \cup ownerProfile(v)
    \cup queriesPage(v) \cup notifications(v) \cup orgLabels(v) \cup orgMilestones(v)
    \cup RefURL(v) \cup orgAdminView(v)

snippetScope(v) ==
    {s \in SnippetIds : snippet[s].owner # Unset /\ CanReadSnippet(v, s)}
snippetPage(v) == snippetScope(v)
snippetRaw(v) == snippetScope(v)
ownerSnippets(v, owner) == ListSnippets(v, owner, v \in SiteAdmins \/ v = owner)

-----------------------------------------------------------------------------
(* Forms that dispatch one command *)

MayPage == pageOps < MaxPageOps
CountedPage == pageOps' = pageOps + 1

\* pinToggle and bookmarkToggle read the mark, then dispatch the other verb.
pinToggle(u, r) ==
    /\ repoForUser(u, r, "read")
    /\ setRepoMark(u, r, "pin", <<"pin", r>> \notin mark[u])
    /\ UNCHANGED <<accessVars, pageVars>>
bookmarkToggle(u, r) ==
    /\ repoForUser(u, r, "read")
    /\ setRepoMark(u, r, "bookmark", <<"bookmark", r>> \notin mark[u])
    /\ UNCHANGED <<accessVars, pageVars>>

\* Every field but the topics is one command, which checks again; archive,
\* visibility, access and transfer are Access's requests.
settingsSubmit(u, r) ==
    /\ repoForUser(u, r, "admin")
    /\ \/ /\ \E h \in WriteHandlers : Configure(u, r, h)
          /\ UNCHANGED accessVars
       \/ /\ \E w \in Workers :
               /\ MayAsk(w)
               /\ \/ runAccessGrant(w, u) \/ runAccessRevoke(w, u)
                  \/ runSetVisibility(w, u) \/ runGitDaemon(w, u)
                  \/ setArchived(w, u) \/ runRepoTransfer(w, u)
               /\ asked'[w].repo = r
          /\ UNCHANGED readVars
    /\ UNCHANGED pageVars

\* The organization's forms make no check of their own.
orgSubmit(u) ==
    /\ \E w \in Workers :
         /\ MayAsk(w)
         /\ \/ runOrgCreate(w, u) \/ runOrgMembersAdd(w, u) \/ runOrgMembersRemove(w, u)
            \/ runTeamCreate(w, u) \/ runTeamDelete(w, u) \/ editTeamMembers(w, u)
            \/ runTeamGrant(w, u) \/ runTeamRevoke(w, u)
    /\ UNCHANGED <<readVars, pageVars>>

snippetNewSubmit(u, s) ==
    /\ \E v \in Visibilities : runSnippetCreate(u, s, v)
    /\ UNCHANGED <<accessVars, pageVars>>
snippetAction(u, s) ==
    /\ s \in snippetScope(u)
    /\ (\E v \in Visibilities : runSnippetEdit(u, s, v)) \/ runSnippetDelete(u, s)
    /\ UNCHANGED <<accessVars, pageVars>>

\* The live build page runs `build log --follow` as the viewer.
streamBuild(u, r) ==
    /\ repoFor(u, r) /\ takeFollow(u, r)
    /\ UNCHANGED <<accessVars, pageVars>>

-----------------------------------------------------------------------------
(* The topics form *)

\* at: "idle", "read", "removing", "removed", "adding", "saved" or "refused".
NoForm == [at |-> "idle", by |-> Unset, repo |-> Unset, want |-> {}, remove |-> {}, add |-> {}]
Running == form.at \in {"read", "removing", "removed", "adding"}

\* A plausible mistake: the form adds what is new and removes nothing.
unwantedNone(have, want) == {}
unwanted(have, want) == have \ want

topicsForm(u, r, want) ==
    /\ MayPage /\ ~ Running /\ repoForUser(u, r, "admin")
    /\ LET have == topics[r] IN
         form' = [at |-> IF unwanted(have, want) = {} THEN "removed" ELSE "read",
                  by |-> u, repo |-> r, want |-> want,
                  remove |-> unwanted(have, want), add |-> want \ have]
    /\ touched' = {}
    /\ CountedPage
    /\ UNCHANGED <<topics, claim, dns, verifying, answered>>

FormAt(at) == form' = [form EXCEPT !.at = at]

\* `repo topics remove`: the check, then one DELETE after the other; a topic
\* somebody removed meanwhile ends the command there.
topicsRemove ==
    /\ form.at = "read"
    /\ FormAt(IF resolveRepo(form.by, form.repo, "admin") THEN "removing" ELSE "refused")
    /\ UNCHANGED <<topics, touched, claim, dns, verifying, answered, pageOps>>

RemoveTopic(t) ==
    /\ form.at = "removing" /\ t \in form.remove
    /\ IF t \in topics[form.repo]
       THEN /\ topics' = [topics EXCEPT ![form.repo] = @ \ {t}]
            /\ form' = [form EXCEPT !.remove = @ \ {t},
                          !.at = IF form.remove = {t} THEN "removed" ELSE @]
       ELSE FormAt("refused") /\ UNCHANGED topics
    /\ UNCHANGED <<touched, claim, dns, verifying, answered, pageOps>>

\* `repo topics add`: the check and the count, then one INSERT after the
\* other; nothing to add is saved already.
topicsAdd ==
    LET room == Cardinality(topics[form.repo] \cup form.add) <= MaxTopics
    IN  /\ form.at = "removed"
        /\ FormAt(IF form.add = {} THEN "saved"
                  ELSE IF resolveRepo(form.by, form.repo, "admin") /\ room THEN "adding"
                  ELSE "refused")
        /\ UNCHANGED <<topics, touched, claim, dns, verifying, answered, pageOps>>

AddTopic(t) ==
    /\ form.at = "adding" /\ t \in form.add
    /\ topics' = [topics EXCEPT ![form.repo] = @ \cup {t}]
    /\ form' = [form EXCEPT !.add = @ \ {t}, !.at = IF form.add = {t} THEN "saved" ELSE @]
    /\ UNCHANGED <<touched, claim, dns, verifying, answered, pageOps>>

\* The same commands from another session.
editTopic(u, r, t, on) ==
    /\ MayPage /\ resolveRepo(u, r, "admin")
    /\ IF on THEN Cardinality(topics[r] \cup {t}) <= MaxTopics ELSE t \in topics[r]
    /\ topics' = [topics EXCEPT ![r] = IF on THEN @ \cup {t} ELSE @ \ {t}]
    /\ touched' = IF r = form.repo THEN touched \cup {t} ELSE touched
    /\ CountedPage
    /\ UNCHANGED <<form, claim, dns, verifying, answered>>

-----------------------------------------------------------------------------
(* Custom domains *)

NoClaim == [repo |-> Unset, token |-> 0, verified |-> FALSE, old |-> FALSE]

\* AddPageDomain clears an expired pending claim, then inserts.
AddPageDomain(r, d) ==
    /\ claim[d].repo = Unset \/ claim[d].old
    /\ claim' = [claim EXCEPT ![d] =
                   [repo |-> r, token |-> pageOps + 1, verified |-> FALSE, old |-> FALSE]]

runDomainAdd(u, r, d) ==
    /\ MayPage /\ resolveRepo(u, r, "admin") /\ repo[r].public
    /\ AddPageDomain(r, d)
    /\ CountedPage
    /\ UNCHANGED <<topics, form, touched, dns, verifying, answered>>

\* The pending claim outlives its TTL.
PageDomainExpired(d) ==
    /\ claim[d].repo # Unset /\ ~ claim[d].verified /\ ~ claim[d].old
    /\ claim' = [claim EXCEPT ![d].old = TRUE]
    /\ UNCHANGED <<topics, form, touched, dns, verifying, answered, pageOps>>

\* External: the domain's owner publishes the challenge they were given.
Publishes(d) ==
    /\ claim[d].repo # Unset /\ dns[d] # claim[d].token
    /\ dns' = [dns EXCEPT ![d] = claim[d].token]
    /\ UNCHANGED <<topics, form, touched, claim, verifying, answered, pageOps>>

\* `repo domain verify` up to the lookup: an expired claim is removed.
runDomainVerify(u, r, d) ==
    /\ verifying = Unset /\ resolveRepo(u, r, "admin")
    /\ claim[d].repo = r /\ ~ claim[d].verified
    /\ IF claim[d].old
       THEN claim' = [claim EXCEPT ![d] = NoClaim] /\ UNCHANGED verifying
       ELSE verifying' = [domain |-> d, repo |-> r, token |-> claim[d].token, found |-> FALSE]
            /\ UNCHANGED claim
    /\ UNCHANGED <<topics, form, touched, dns, answered, pageOps>>

\* lookupTXT answers, or fails, or carries another record.
lookupTXT ==
    /\ verifying # Unset /\ ~ verifying.found
    /\ \/ /\ dns[verifying.domain] = verifying.token
          /\ verifying' = [verifying EXCEPT !.found = TRUE]
          /\ answered' = answered \cup {<<verifying.domain, verifying.repo>>}
       \/ verifying' = Unset /\ UNCHANGED answered
    /\ UNCHANGED <<topics, form, touched, claim, dns, pageOps>>

\* A plausible mistake: the row is updated by its key.
VerifyByDomain(d, r) == claim[d].repo # Unset
\* UPDATE ... WHERE domain = ? AND repo_id = ?.
VerifyRow(d, r) == claim[d].repo = r

VerifyPageDomain ==
    LET v == verifying
    IN  /\ v # Unset /\ v.found
        /\ claim' = IF VerifyRow(v.domain, v.repo)
                    THEN [claim EXCEPT ![v.domain].verified = TRUE, ![v.domain].old = FALSE]
                    ELSE claim
        /\ verifying' = Unset
        /\ UNCHANGED <<topics, form, touched, dns, answered, pageOps>>

runDomainRemove(u, r, d) ==
    /\ resolveRepo(u, r, "admin") /\ claim[d].repo = r
    /\ claim' = [claim EXCEPT ![d] = NoClaim]
    /\ UNCHANGED <<topics, form, touched, dns, verifying, answered, pageOps>>

\* Only a verified claim resolves to a repository.
PageDomainRepo(d) == IF claim[d].verified THEN claim[d].repo ELSE Unset

\* A plausible mistake: a verified domain serves its repository for good.
pagesRouterVerified(d) == IF PageDomainRepo(d) = Unset THEN {} ELSE {PageDomainRepo(d)}
pagesRouter(d) == {r \in {PageDomainRepo(d)} \ {Unset} : Found(r) /\ repo[r].public}

-----------------------------------------------------------------------------
(* The specification *)

PagesFresh ==
    /\ topics = [r \in RepoIds |-> IF ForkOf[r] = Unset THEN {CHOOSE t \in Topics : TRUE} ELSE {}]
    /\ form = NoForm
    /\ touched = {}
    /\ claim = [d \in Domains |-> NoClaim]
    /\ dns = [d \in Domains |-> 0]
    /\ verifying = Unset
    /\ answered = {}
    /\ pageOps = 0

PagesInit == ReadsInit /\ PagesFresh

Forms ==
    \/ \E u \in Users, r \in RepoIds :
         pinToggle(u, r) \/ bookmarkToggle(u, r) \/ settingsSubmit(u, r) \/ streamBuild(u, r)
    \/ \E u \in Users, s \in SnippetIds : snippetNewSubmit(u, s) \/ snippetAction(u, s)
    \/ \E u \in Users : orgSubmit(u)

TopicsStep ==
    \/ \E u \in Users, r \in RepoIds :
         \/ \E want \in SUBSET Topics : topicsForm(u, r, want)
         \/ \E t \in Topics, on \in BOOLEAN : editTopic(u, r, t, on)
    \/ topicsRemove \/ topicsAdd
    \/ \E t \in Topics : RemoveTopic(t) \/ AddTopic(t)

DomainsStep ==
    \/ \E u \in Users, r \in RepoIds, d \in Domains :
         runDomainAdd(u, r, d) \/ runDomainVerify(u, r, d) \/ runDomainRemove(u, r, d)
    \/ \E d \in Domains : PageDomainExpired(d) \/ Publishes(d)
    \/ lookupTXT \/ VerifyPageDomain

\* Topics, domains and the other forms share nothing but the access rows they
\* check, so each is also a specification of its own.
Elsewhere == (\E w \in Workers : AccessStep(w))
             /\ UNCHANGED <<readVars, pageVars>>

FormsNext == Elsewhere \/ Forms \/ (Configured /\ UNCHANGED <<accessVars, pageVars>>)
TopicsNext == Elsewhere \/ (TopicsStep /\ UNCHANGED <<accessVars, readVars>>)
DomainsNext == Elsewhere \/ (DomainsStep /\ UNCHANGED <<accessVars, readVars>>)

PagesNext == FormsNext \/ TopicsNext \/ DomainsNext

PagesSpec == PagesInit /\ [][PagesNext]_<<accessVars, readVars, pageVars>>

PagesTypeOK ==
    /\ topics \in [RepoIds -> SUBSET Topics]
    /\ form.want \subseteq Topics /\ form.remove \subseteq Topics /\ form.add \subseteq Topics
    /\ \A d \in Domains :
         /\ claim[d].repo \in RepoIds \cup {Unset}
         /\ claim[d].repo = Unset => claim[d] = NoClaim
         /\ claim[d].verified => ~ claim[d].old
    /\ answered \subseteq Domains \X RepoIds
    /\ pageOps \in 0..MaxPageOps

-----------------------------------------------------------------------------
(* Properties *)

\* A team of an organization that v administers has a grant on a repository
\* that is not the organization's.
KeptByTeam(v, r) ==
    \E t \in TeamIds : /\ orgAdmin(v, TeamOrg[t])
                      /\ team[t].roles[r] # "none" /\ repo[r].owner # TeamOrg[t]

\* Web pages, feeds, badges, git over HTTP and published sites show a
\* repository only to who may read it as things stand, and to a visitor who
\* is not signed in only while it is public, whatever domain it was reached
\* by. The exceptions: rows that name the viewer, as on the command line, and
\* a grant that a team kept through a transfer, on its organization's page.
PagesShowReadable ==
    /\ \A v \in Viewers :
         /\ \A r \in RepoIds : \A x \in PageShows(v, r) : repoFor(v, x.repo)
         /\ \A r \in PagesList(v) :
              \/ repoFor(v, r)
              \/ v # Unset /\ \E as \in Ties : <<as, r>> \in tie[v]
              \/ r \in orgAdminView(v) /\ KeptByTeam(v, r)
         /\ \A s \in snippetPage(v) \cup snippetRaw(v) :
              snippet[s].visibility # "private" \/ v = snippet[s].owner \/ v \in SiteAdmins
    /\ \A d \in Domains : \A r \in pagesRouter(d) : repoFor(Unset, r)

\* The surfaces do not drift apart (httpd/control.go): for someone signed in,
\* a page opens a part of a repository exactly when a command would, and
\* never shows configuration a command would withhold.
PagesAgree ==
    \A v \in Users, r \in RepoIds :
      LET told == {x.part : x \in {y \in ShownOf(v, r) : y.repo = r}}
          page == {x.part : x \in {y \in PageShows(v, r) : y.repo = r}}
      IN  v \notin SiteAdmins =>
            /\ page \subseteq told
            /\ {"code", "items", "builds", "releases", "wiki"} \cap told \subseteq page
            /\ told \cap {"settings", "access", "hooks", "runners"}
                 \subseteq page \cup {"secrets", "keys", "leaks"}

\* A topics form that says saved left exactly the topics asked for, save the
\* ones somebody else added or removed since the form read the list.
TopicsAsAsked ==
    form.at = "saved" =>
      \A t \in Topics \ touched : t \in topics[form.repo] <=> t \in form.want

\* A verified domain belongs to a repository whose own challenge the domain
\* answered, though claims are removed, expire and change hands during the
\* lookup.
VerifiedIsProven ==
    \A d \in Domains : claim[d].verified => <<d, claim[d].repo>> \in answered

\* Pages show what commands show, sites what the public may see (httpd).
PagesAgreeWithCommands == PagesAgree /\ PagesShowReadable /\ VerifiedIsProven
=============================================================================
