SPECIFICATION ForgeSpec
CONSTANTS
  u1 = u1
  u2 = u2
  o1 = o1
  t1 = t1
  \* directory: a user and an organization, one spare name
  un = un
  on = on
  pn = pn
  Nil = Nil
  DirIds = {1, 2, 3}
  Owners = {u1, o1}
  Orgs = {o1}
  OwnerNames = {un, on, pn}
  FirstName <- MCFirstName
  Names = {x, y}
  Cmds = {1, 2}
  MaxRepos = 1
  MaxDirOps = 2
  MaxDirFaults = 1
  MaxBackups = 1
  \* access: u2 is an administrator of the instance
  Users = {u1, u2}
  OrgIds = {o1}
  TeamIds = {t1}
  RepoIds = {1}
  TeamOrg <- MCTeamOrg
  SiteAdmins = {u2}
  Workers = {1, 2}
  Unset = Unset
  MaxAccessOps = 2
  \* tracker
  ItemIds = {1}
  TrackNames = {"n"}
  Shas = {"c"}
  Preferring = {}
  TrackWorkers = {1, 2}
  MaxTrackOps = 2
  \* review threads: u1 wrote the merge request, u2 may write the target
  Readers = {u1, u2}
  SourceWriters = {u1}
  TargetWriters = {u2}
  MRAuthor = u1
  CommentIds = {1, 2}
  Texts = {a, b}
  Plain = Plain
  MaxCommits = 3
  MaxTurns = 1
  \* pushes: commit 2 descends from 1, 3 is unrelated and unsigned
  Branches = {"main"}
  Tags = {"v"}
  Commits = {1, 2, 3}
  Before <- MCBefore
  Signed = {1, 2}
  Leaking = {2}
  PushIds = {1, 2}
  Admins = {1, 2}
  Writers = {1, 2}
  MaxPushOps = 3
  \* bot issues
  Findings = {f, g}
  Checkers = {p, q}
  MaxBotRuns = 2
  MaxByHand = 1
INVARIANTS
  ForgeTypeOK
  DirectoryAgrees
  AccessInOrder
  
  ThreadsInOrder
  
  IssueMatchesReport
PROPERTIES
  RoleRisesByAdmin
  ArchivedStays
  PublishedStays
  SettingsHold
CHECK_DEADLOCK FALSE
