------------------------------- MODULE UserFind -------------------------------
(***************************************************************************)
(* The conditional GET of the list of users: Find of m/server/user with    *)
(* ServeMessage and checkIfModifiedSince of m/helper, against the writers  *)
(* of the table, Add and Change of m/server/user/internal/db.              *)
(*                                                                         *)
(* A writer stamps the row of modification times with the second it reads  *)
(* off its clock, and commits both; the stamp never goes back.  A request  *)
(* reads the time first, is answered `not modified` when what its sender   *)
(* kept is not older, and reads the list otherwise.  The clock is a wall   *)
(* clock: it may be set back.                                              *)
(*                                                                         *)
(* Caches of clients are external (browsers): an answer is kept with its   *)
(* Last-Modified and offered again as If-Modified-Since.                   *)
(***************************************************************************)
EXTENDS Naturals

CONSTANTS Clients,     \* senders of Find, each with one request at a time
          Writers,     \* transactions in progress at a time (bound of the model)
          MaxTime,     \* seconds (bound of the model)
          MaxChanges,  \* changes of the table (bound of the model)
          Nothing

ASSUME FindAssumption ==
    /\ MaxTime \in Nat \ {0}
    /\ MaxChanges \in Nat
    /\ Nothing \notin [lm : 0..MaxTime, ver : 0..MaxChanges]
    /\ Nothing \notin 1..MaxTime
    /\ Nothing \notin 0..MaxChanges

VARIABLES
    now,      \* the clock of the server, in seconds
    modtime,  \* the row of modification times: unix
    version,  \* changes of the table that were committed
    unmoved,  \* the versions whose commit did not move modtime (history)
    stamp,    \* writer |-> the time it read in its transaction, or Nothing
    find,     \* client |-> its request in progress, or Nothing
    cache     \* client |-> what it kept of the last answer, or Nothing

writeVars == <<modtime, version, unmoved, stamp>>
findVars == <<now, writeVars, find, cache>>

Times == 1..MaxTime
Versions == 0..MaxChanges

\* An answer: Last-Modified (0 when the header is left out) and the list.
Answers == [lm : 0..MaxTime, ver : Versions]

\* ModtimeHelper.Modified: UPDATE ... SET unix = u WHERE id = ? AND unix < u.
Modified(m, u) == IF m < u THEN u ELSE m

InitFind ==
    /\ now \in Times
    /\ modtime = now
    /\ version = 0
    /\ unmoved = {}
    /\ stamp = [w \in Writers |-> Nothing]
    /\ find = [c \in Clients |-> Nothing]
    /\ cache = [c \in Clients |-> Nothing]

\* Time passes; the clock is set back.
Tick == now < MaxTime /\ now' = now + 1 /\ UNCHANGED <<writeVars, find, cache>>

SetBack == now > 1 /\ now' = now - 1 /\ UNCHANGED <<writeVars, find, cache>>
-------------------------------------------------------------------------------
(***************************************************************************)
(* Add and Change: the row is inserted or updated, then modtimeHelper is   *)
(* given time.Now(), then both are committed.                              *)
(***************************************************************************)
Stamp(w) ==
    /\ stamp[w] = Nothing
    /\ stamp' = [stamp EXCEPT ![w] = now]
    /\ UNCHANGED <<now, modtime, version, unmoved, find, cache>>

\* The UPDATE holds the row until the commit, so that its condition sees what
\* is committed.
CommitChange(w) ==
    /\ stamp[w] # Nothing
    /\ version < MaxChanges
    /\ version' = version + 1
    /\ modtime' = Modified(modtime, stamp[w])
    /\ unmoved' = unmoved \cup (IF modtime' = modtime THEN {version'} ELSE {})
    /\ stamp' = [stamp EXCEPT ![w] = Nothing]
    /\ UNCHANGED <<now, find, cache>>

\* A statement fails, or finds no row to change.
Abort(w) ==
    /\ stamp[w] # Nothing
    /\ stamp' = [stamp EXCEPT ![w] = Nothing]
    /\ UNCHANGED <<now, modtime, version, unmoved, find, cache>>
-------------------------------------------------------------------------------
(***************************************************************************)
(* Find.                                                                   *)
(***************************************************************************)

\* Mutant of NotModified: one second of tolerance.
NotModified_Tolerant(lm, m) == lm # 0 /\ m # 0 /\ m <= lm + 1

\* checkIfModifiedSince: both times known, and the list not newer.
NotModified(lm, m) == lm # 0 /\ m # 0 /\ m <= lm

Since(c) == IF cache[c] = Nothing THEN 0 ELSE cache[c].lm

\* db.LastModified gave m: the stored time, or the zero time when the row
\* cannot be read.
ReadModtime(c, m) ==
    /\ find[c] = Nothing
    /\ IF NotModified(Since(c), m)
       THEN UNCHANGED find
       ELSE find' = [find EXCEPT ![c] = [lm |-> m, ver |-> Nothing]]
    /\ UNCHANGED <<now, writeVars, cache>>

\* db.Find.
ReadList(c) ==
    /\ find[c] # Nothing /\ find[c].ver = Nothing
    /\ find' = [find EXCEPT ![c].ver = version]
    /\ UNCHANGED <<now, writeVars, cache>>

\* db.Find fails, or the answer is lost: the client keeps what it had.
Fail(c) ==
    /\ find[c] # Nothing
    /\ find' = [find EXCEPT ![c] = Nothing]
    /\ UNCHANGED <<now, writeVars, cache>>

\* Mutant of Reply: the time is read after the list.
Reply_ReadsTimeLast(c) ==
    /\ find[c] # Nothing /\ find[c].ver # Nothing
    /\ cache' = [cache EXCEPT ![c] = [find[c] EXCEPT !.lm = modtime]]
    /\ find' = [find EXCEPT ![c] = Nothing]
    /\ UNCHANGED <<now, writeVars>>

Reply(c) ==
    /\ find[c] # Nothing /\ find[c].ver # Nothing
    /\ cache' = [cache EXCEPT ![c] = find[c]]
    /\ find' = [find EXCEPT ![c] = Nothing]
    /\ UNCHANGED <<now, writeVars>>
-------------------------------------------------------------------------------
Request(c) ==
    \/ \E m \in {modtime, 0} : ReadModtime(c, m)
    \/ ReadList(c) \/ Fail(c) \/ Reply(c)

FindNext ==
    \/ Tick \/ SetBack
    \/ \E w \in Writers : Stamp(w) \/ CommitChange(w) \/ Abort(w)
    \/ \E c \in Clients : Request(c)

FindSpec == InitFind /\ [][FindNext]_findVars

\* A client asks again and again; it may not count on being given the list
\* because the time cannot be read.  Neither the database nor the network
\* fails for ever.
Polls(c) ==
    /\ WF_findVars(ReadModtime(c, modtime))
    /\ SF_findVars(ReadList(c)) /\ SF_findVars(Reply(c))

PollSpec == FindSpec /\ \A c \in Clients : Polls(c)
-------------------------------------------------------------------------------
FindTypeOK ==
    /\ now \in Times
    /\ modtime \in Times
    /\ version \in Versions
    /\ unmoved \in SUBSET (1..MaxChanges)
    /\ stamp \in [Writers -> Times \cup {Nothing}]
    /\ find \in [Clients -> [lm : 0..MaxTime, ver : Versions \cup {Nothing}] \cup {Nothing}]
    /\ cache \in [Clients -> Answers \cup {Nothing}]

\* The client's list is older than the table.
Stale(c) == cache[c] # Nothing /\ cache[c].ver < version

\* `Not modified` hides a change only from within one second, or behind a
\* clock that was set back: every change since the client's list was
\* committed without moving the time.
StaleOnlyUnmoved ==
    \A c \in Clients :
      Stale(c) /\ NotModified(cache[c].lm, modtime) =>
        (cache[c].ver + 1)..version \subseteq unmoved

\* What a client is told never claims to be newer than the table, whatever
\* writers commit while it is being answered.
NeverAhead == \A c \in Clients : cache[c] # Nothing => cache[c].lm <= modtime

\* A change that moved the time reaches every client that goes on asking.
MovedIsSeen ==
    \A c \in Clients : \A v \in 1..MaxChanges :
      (cache[c] # Nothing /\ version >= v /\ v \notin unmoved) ~>
      (cache[c] # Nothing /\ cache[c].ver >= v)
===============================================================================
