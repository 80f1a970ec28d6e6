-------------------------------- MODULE LogPage --------------------------------
(***************************************************************************)
(* The pages of the log: ViewComponent with its levels, AttachComponent    *)
(* with the listener it makes (see WebsocketClient), DownloadComponent     *)
(* with the links it shows; and SetLevel of the server.                    *)
(*                                                                         *)
(* JavaScript runs a task to its end: an action is a task.  The text of    *)
(* the log, the names of the files and the terminal are not modelled.      *)
(***************************************************************************)
EXTENDS Calls

CONSTANTS Levels,     \* names of levels
          Listeners,  \* listeners that are not at rest (bound of the model)
          Tokens      \* access tokens

Tags == {"file", "console"}

LogAsks ==
    [kind : {"levels", "files"}] \cup [kind : {"set"}, tag : Tags, level : Levels]
LogCalls ==
    [ask : LogAsks, served : BOOLEAN, heard : BOOLEAN, got : [Tags -> Levels] \cup {None},
     since : SUBSET Tags]

ASSUME LogPageAssumption ==
    /\ Levels # {}
    /\ None \notin Levels \cup Listeners \cup Tokens \cup LogCalls

VARIABLES
    ready, err,  \* of the page that is shown: loaded, with an error
    data,        \* tag |-> the level that is selected, or None
    backup,      \* tag |-> the level the page was told, or None
    setting,     \* disabled of ViewComponent
    listener,    \* of AttachComponent, or None
    sub,         \* listener |-> its phase (see Subscription)
    token,       \* token_ of DownloadComponent, or None
    level,       \* at the server: tag |-> level
    changed      \* tags changed at the server since they were read (history)

loadVars == <<ready, err>>
levelVars == <<data, backup, setting, changed>>
attachVars == <<listener, sub>>
logVars == <<loadVars, levelVars, attachVars, token, level>>

Subscription(l) == INSTANCE Subscription WITH phase <- sub[l]
-------------------------------------------------------------------------------
(***************************************************************************)
(* The server.                                                             *)
(***************************************************************************)

\* A change of t, for the page that shows it.
Noted(t) == IF page = "levels" THEN {t} ELSE {}

\* SetLevel, Level, and the names of the files.
ServeLog(i) ==
    LET c == call[i].ask
    IN /\ Pending(i)
       /\ \/ /\ c.kind = "set"
             /\ Served(i, None, Noted(c.tag))
             /\ level' = [level EXCEPT ![c.tag] = c.level]
             /\ changed' = IF Heard(i) THEN changed ELSE changed \cup Noted(c.tag)
          \/ /\ c.kind \in {"levels", "files"} /\ Heard(i)
             /\ Served(i, level, {})
             /\ UNCHANGED <<level, changed>>
       /\ UNCHANGED <<page, others, loadVars, data, backup, setting, attachVars, token>>

\* Other administrators.
OthersSet(t) ==
    /\ \E l \in Levels \ {level[t]} : level' = [level EXCEPT ![t] = l]
    /\ ChangedByOthers(Noted(t))
    /\ changed' = changed \cup Noted(t)
    /\ UNCHANGED <<page, loadVars, data, backup, setting, attachVars, token>>
-------------------------------------------------------------------------------
(***************************************************************************)
(* load, of both pages: at first, and after an error.                      *)
(***************************************************************************)
Load(kind, calls) ==
    /\ ready' = FALSE /\ err' = FALSE
    /\ Issue(calls, [kind |-> kind])

Refresh ==
    /\ page \in {"levels", "files"} /\ ready /\ err
    /\ Load(page, call)
    /\ UNCHANGED <<page, others, levelVars, attachVars, token, level>>

\* A level the page does not know is shown as none.
LevelsLoaded(i) ==
    /\ Answered(i) /\ call[i].ask.kind = "levels"
    /\ ready' = TRUE
    /\ data' = call[i].got /\ backup' = call[i].got /\ changed' = call[i].since
    /\ UNCHANGED <<page, others, err, setting, attachVars, token, level>>

NamesLoaded(i) ==
    /\ Answered(i) /\ call[i].ask.kind = "files"
    /\ ready' = TRUE
    /\ UNCHANGED <<page, others, err, levelVars, attachVars, token, level>>

NotLoaded(i) ==
    /\ Failed(i) /\ call[i].ask.kind \in {"levels", "files"}
    /\ ready' = TRUE /\ err' = TRUE
    /\ UNCHANGED <<page, others, levelVars, attachVars, token, level>>
-------------------------------------------------------------------------------
(***************************************************************************)
(* ViewComponent, when it is loaded.                                       *)
(***************************************************************************)
okView == page = "levels" /\ ready /\ ~err

elseLevels == <<page, others, loadVars, attachVars, token, level>>

\* Mutant of Select: also while a level is set.
Select_Anytime(t, l) ==
    /\ okView /\ data[t] # l
    /\ data' = [data EXCEPT ![t] = l]
    /\ UNCHANGED <<elseLevels, call, backup, setting, changed>>

Select(t, l) ==
    /\ okView /\ ~setting /\ data[t] # l
    /\ data' = [data EXCEPT ![t] = l]
    /\ UNCHANGED <<elseLevels, call, backup, setting, changed>>

\* onClickResetFile, onClickResetConsole.
Reset(t) ==
    /\ okView /\ ~setting /\ data[t] # backup[t]
    /\ data' = [data EXCEPT ![t] = backup[t]]
    /\ UNCHANGED <<elseLevels, call, backup, setting, changed>>

\* onClickSetFile, onClickSetConsole.
Set(t) ==
    /\ okView /\ ~setting /\ data[t] # backup[t]
    /\ setting' = TRUE
    /\ Issue(call, [kind |-> "set", tag |-> t, level |-> data[t]])
    /\ UNCHANGED <<elseLevels, data, backup, changed>>

\* finalize, and the answer: what is selected now is what was set.
IsSet(i) ==
    /\ Answered(i) /\ call[i].ask.kind = "set"
    /\ setting' = FALSE
    /\ LET t == call[i].ask.tag IN
         /\ backup' = [backup EXCEPT ![t] = data[t]]
         /\ changed' = (changed \ {t}) \cup call[i].since
    /\ UNCHANGED <<elseLevels, data>>

NotSet(i) ==
    /\ Failed(i) /\ call[i].ask.kind = "set"
    /\ setting' = FALSE
    /\ changed' = IF call[i].served THEN changed \cup {call[i].ask.tag} ELSE changed
    /\ UNCHANGED <<elseLevels, data, backup>>
-------------------------------------------------------------------------------
(***************************************************************************)
(* AttachComponent, which is part of that view.                            *)
(***************************************************************************)
elseAttach == <<page, call, others, loadVars, levelVars, token, level>>

\* onClickAttach: the constructor of the listener connects.
Attach ==
    /\ okView /\ listener = None
    /\ \E l \in Listeners : /\ sub[l] = "over"
                            /\ listener' = l
                            /\ sub' = [sub EXCEPT ![l] = "trying"]
    /\ UNCHANGED elseAttach

\* onClickDetach: the listener is closed, and what it has in progress ends.
Close ==
    /\ listener' = None
    /\ IF listener = None THEN UNCHANGED sub
       ELSE \E p \in {"closed", "over"} :
              <<sub[listener], p>> \in Subscription(listener)!Steps
              /\ sub' = [sub EXCEPT ![listener] = p]

Detach == okView /\ listener # None /\ Close /\ UNCHANGED elseAttach

\* What listener l does by itself.
Listen(l) ==
    /\ \E p \in {"trying", "connected", "over"} :
         /\ <<sub[l], p>> \in Subscription(l)!Steps
         /\ p = "over" => sub[l] = "closed"
         /\ sub' = [sub EXCEPT ![l] = p]
    /\ UNCHANGED <<elseAttach, listener>>
-------------------------------------------------------------------------------
(***************************************************************************)
(* The components are made and destroyed.                                  *)
(***************************************************************************)
NoLevels == [t \in Tags |-> None]

InitLog ==
    /\ ready = FALSE /\ err = FALSE
    /\ data = NoLevels /\ backup = NoLevels /\ setting = FALSE /\ changed = {}
    /\ listener = None /\ sub = [l \in Listeners |-> "over"]
    /\ token = None
    /\ level = [t \in Tags |-> CHOOSE l \in Levels : TRUE]

\* Mutant of LeaveLog: the listener is forgotten.
LeaveLog_Attached ==
    /\ data' = NoLevels /\ backup' = NoLevels /\ setting' = FALSE /\ changed' = {}
    /\ listener' = None
    /\ UNCHANGED <<sub, level>>

\* ngOnDestroy of what was shown.
LeaveLog ==
    /\ data' = NoLevels /\ backup' = NoLevels /\ setting' = FALSE /\ changed' = {}
    /\ Close
    /\ UNCHANGED level

\* ngOnInit, when the calls are in progress.
EnterLog(p, calls) == LeaveLog /\ Load(p, calls)

\* The route p is no page of the log.
NoLog == LeaveLog /\ ready' = FALSE /\ err' = FALSE

\* Mutant of Told: only the first session counts.
Told_First(p, t) == token' = IF p # "files" THEN None ELSE IF token = None THEN t ELSE token

\* DownloadComponent, while p is its page, is told of the token t of the
\* session, and keeps the last there was.
Told(p, t) == token' = IF p # "files" THEN None ELSE IF t # None THEN t ELSE token

LogTask ==
    \/ Refresh \/ Attach \/ Detach
    \/ \E t \in Tags : Reset(t) \/ Set(t) \/ OthersSet(t) \/ \E l \in Levels : Select(t, l)
    \/ \E l \in Listeners : Listen(l)

\* What becomes of call i.
LogCall(i) ==
    \/ ServeLog(i) \/ LevelsLoaded(i) \/ NamesLoaded(i) \/ NotLoaded(i)
    \/ IsSet(i) \/ NotSet(i)
-------------------------------------------------------------------------------
LogTypeOK ==
    /\ {ready, err, setting} \subseteq BOOLEAN
    /\ {data, backup} \subseteq [Tags -> Levels \cup {None}]
    /\ level \in [Tags -> Levels]
    /\ changed \subseteq Tags
    /\ listener \in Listeners \cup {None}
    /\ sub \in [Listeners -> {"trying", "connected", "closed", "over"}]
    /\ token \in Tokens \cup {None}

\* The server has set the level of t, and the page does not know yet.
SetUnanswered(t) ==
    \E i \in Slots : Answerable(i) /\ call[i].ask.kind = "set" /\ call[i].ask.tag = t

\* What the page takes for the level of the server is it, unless others, or a
\* call nobody listens to any more, have changed it since.
LevelsTrue ==
    okView => \A t \in Tags : backup[t] = level[t] \/ t \in changed \/ SetUnanswered(t)

\* Only the listener of the page that is shown receives the log.
OnlyAttached ==
    \A l \in Listeners :
      sub[l] \in {"trying", "connected"} => page = "levels" /\ listener = l
===============================================================================
