SPECIFICATION PeopleSpec
CONSTANTS
  t1 = t1
  o1 = o1
  \* accounts
  People = {u1, u2}
  Addresses = {a1, a2}
  Nobody = Nobody
  MaxAcctOps = 3
  MaxAcctFaults = 1
  \* credentials
  Holders = {u1}
  KeyIds = {1, 2}
  TokenIds = {1, 2, 3}
  SessionIds = {s1}
  Conns = {c1}
  None = None
  MaxEnds = 1
  \* commands and pages: repository 2 is a fork of 1
  Users = {u1, u2}
  OrgIds = {o1}
  TeamIds = {t1}
  RepoIds = {1, 2}
  TeamOrg <- MCTeamOrg
  SiteAdmins = {u1}
  Workers = {1}
  Unset = Unset
  MaxAccessOps = 1
  ForkOf <- MCForkOf
  SnippetIds = {1, 2}
  MaxFollows = 1
  MaxReadOps = 1
  Domains = {"d"}
  Topics = {"a", "b"}
  MaxTopics = 2
  MaxPageOps = 2
INVARIANTS
  PeopleTypeOK
  AccountsInOrder
  CredentialsInOrder
  CommandsShown
  PagesShown
  TopicsAsAsked
PROPERTIES
  ConnectionsEnd
  ClaimedIsPurged
CHECK_DEADLOCK FALSE
