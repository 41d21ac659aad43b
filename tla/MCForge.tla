------------------------------ MODULE MCForge ------------------------------
(***************************************************************************)
(* A small instance of every part of the forge that keeps repositories and *)
(* what is written in them.  Apart from Tracker, which works on the rows   *)
(* of Access, the parts share no variable, so a run explores each from its *)
(* initial states while the others rest: `part' is the one at work.        *)
(***************************************************************************)
EXTENDS Directory, Tracker, Threads, Pushes, BotIssues, TLC

CONSTANTS u1, u2, o1, t1, un, on, pn

VARIABLE part

MCFirstName == (u1 :> un) @@ (o1 :> on)
MCTeamOrg == (t1 :> o1)
MCBefore == {<<1, 2>>}

TrackerRests ==
    /\ rows = {} /\ shut = {} /\ inbox = {} /\ refs = {}
    /\ item = [i \in ItemIds |-> NewItem(i)]
    /\ watch = [r \in RepoIds |-> [v \in Users |-> "default"]]
    /\ acted = [x \in ItemIds \X (Shas \cup {"mr"}) |-> 0]
    /\ job = [x \in TrackWorkers |-> Unset]
    /\ stale = {} /\ strayed = {} /\ trackOps = 0

\* A part that rests has one initial state.
ForgeInit ==
    /\ part \in {"directory", "access", "tracker", "threads", "pushes", "bot"}
    /\ DirectoryInit /\ ThreadsInit /\ PushesInit /\ BotInit
    /\ (\E r \in DirIds : repos[r].is = "here") => part = "directory"
    /\ \/ part = "tracker" /\ TrackerInit
       \/ /\ part # "tracker" /\ AccessInit /\ TrackerRests
          /\ \/ part = "access"
             \/ /\ \A r \in RepoIds : repo[r].is # "here"
                /\ \A o \in OrgIds : org[o].is # "here"

ForgeNext ==
    /\ UNCHANGED part
    /\ \/ part = "directory" /\ DirectoryNext
          /\ UNCHANGED <<accessVars, trackVars, threadVars, pushVars, botVars>>
       \/ part = "access" /\ AccessNext
          /\ UNCHANGED <<directoryVars, trackVars, threadVars, pushVars, botVars>>
       \/ part = "tracker" /\ TrackerNext
          /\ UNCHANGED <<directoryVars, threadVars, pushVars, botVars>>
       \/ part = "threads" /\ ThreadsNext
          /\ UNCHANGED <<directoryVars, accessVars, trackVars, pushVars, botVars>>
       \/ part = "pushes" /\ PushesNext
          /\ UNCHANGED <<directoryVars, accessVars, trackVars, threadVars, botVars>>
       \/ part = "bot" /\ BotNext
          /\ UNCHANGED <<directoryVars, accessVars, trackVars, threadVars, pushVars>>

forgeVars == <<part, directoryVars, accessVars, trackVars, threadVars,
               pushVars, botVars>>

ForgeSpec == ForgeInit /\ [][ForgeNext]_forgeVars

\* The part at work keeps its state in shape.
ForgeTypeOK ==
    /\ part = "directory" => DirectoryTypeOK
    /\ part = "access" => AccessTypeOK
    /\ part = "tracker" => AccessTypeOK /\ TrackTypeOK
    /\ part = "threads" => ThreadsTypeOK
    /\ part = "pushes" => PushesTypeOK
    /\ part = "bot" => BotTypeOK
=============================================================================
