------------------------------- MODULE Generator -------------------------------
(***************************************************************************)
(* The template generator, main.ts and helper.ts of jsgenerate: jsgenerate *)
(* walks through this repository and writes a project into a directory,    *)
(* which an earlier run may have left half written.                        *)
(*                                                                         *)
(* context is external: serve hands out the entries one after the other,   *)
(* a directory before what it holds, otherwise in any order, and waits for *)
(* each; a file is created, and complete some time later.  A template is   *)
(* rendered without waiting for that, a copy is waited for.  A run may be  *)
(* stopped at any time, and is when an error is not caught.                *)
(***************************************************************************)
EXTENDS Naturals, FiniteSets, Functions

CONSTANTS Entries,  \* of the repository
          MaxRuns,  \* of the generator (bound of the model)
          None

Areas == {"git", "pb", "view", "other"}

\* in: the path of the entry's directory, or "".  art: its name ends with .art,
\* which is not part of its path.  names: it holds the uuid, once rendered.
EntryType ==
    [path : STRING, in : STRING, dir : BOOLEAN, art : BOOLEAN, area : Areas, names : BOOLEAN]

ASSUME GeneratorAssumption == Entries \subseteq EntryType /\ MaxRuns \in Nat

Uuids == 1..MaxRuns

VARIABLES
    out,     \* output path |-> what is there: an entry, its uuid, complete or not
    run,     \* the run in progress, or None
    writes,  \* output paths the run is writing to, |-> the entry, begun or not
    runs,    \* runs that have started
    done,    \* the last run, if nothing has stopped it since "success", or None (history)
    cut,     \* files that were being written when a run was stopped (history)
    lost     \* uuids of runs that ended before they had made its directory (history)

vars == <<out, run, writes, runs, done, cut, lost>>

Exists(f) == f \in DOMAIN out

\* What g is when v is put at x.
Put(x, v, g) == [y \in DOMAIN g \cup {x} |-> IF y = x THEN v ELSE g[y]]
-------------------------------------------------------------------------------
(***************************************************************************)
(* helper.ts, and the lists main.ts gives it.                              *)
(***************************************************************************)
skip == {"README.md", "README_ZH.md", "LICENSE", ".gitignore"}

\* Mutant of Skipped: the list is forgotten.
Skipped_None(e) == FALSE

\* Files that are there twice, for this repository and for the project.
Skipped(e) == e.path \in skip /\ ~e.art

checkExclude(e, view) == e.area = "git" \/ (e.area = "view" /\ ~view)

rename == [p \in {"bin/etc/example.jsonnet"} |-> "bin/etc/project.jsonnet"]

\* What is in pb gets a directory of its own, named by the uuid.
getOutput(e, uuid) ==
    <<IF e.area = "pb" /\ e.in # "" THEN uuid ELSE 0,
      IF e.art /\ e.path \in DOMAIN rename THEN rename[e.path] ELSE e.path>>

\* The files of this repository are so: no two are written to one, and some are
\* written to the directory of the protocol.
ASSUME EntriesAssumption ==
    LET own == {e \in Entries : e.path \notin skip \/ e.art}
    IN /\ \A d, e \in own : getOutput(d, 1) = getOutput(e, 1) => d = e
       /\ \E e \in own : e.area = "pb" /\ e.in # ""

\* Mutant of getUUID: each run has its own.
getUUID_New == {runs + 1}

\* The uuid of the directory there is, or else a new one.
getUUID ==
    LET found == {u \in Uuids : \E f \in DOMAIN out : f[1] = u}
    IN IF found # {} THEN found ELSE {runs + 1}
-------------------------------------------------------------------------------
(***************************************************************************)
(* A run.                                                                  *)
(***************************************************************************)

\* What its tags ask for: the front-end, and what becomes of what is there.
Metadata == [view : BOOLEAN, trunc : BOOLEAN, supplement : BOOLEAN]

Init ==
    /\ out = <<>> /\ run = None /\ writes = <<>> /\ runs = 0
    /\ done = None /\ cut = {} /\ lost = {}

\* found: what was there when the run began (history).
Start ==
    /\ run = None /\ runs < MaxRuns
    /\ \E u \in getUUID, md \in Metadata :
         run' = [uuid |-> u, md |-> md, left |-> Entries, at |-> "walk", found |-> DOMAIN out]
    /\ runs' = runs + 1
    /\ done' = None
    /\ UNCHANGED <<out, writes, cut, lost>>

Due(e) == e \in run.left /\ ~\E d \in run.left : d.dir /\ d.path = e.in

\* Mutant of Kept: to truncate comes first.
Kept_UnlessTrunc(f) == Exists(f) /\ run.md.supplement /\ ~run.md.trunc

\* What is there is left alone, or an error.
Kept(f) == Exists(f) /\ run.md.supplement
Refused(f) == Exists(f) /\ ~run.md.supplement /\ ~run.md.trunc

\* The callbacks of serve, for a file and for a directory.
Visit(e) ==
    LET f == getOutput(e, run.uuid)
        goesOn == run' = [run EXCEPT !.left = @ \ {e}]
    IN /\ run # None /\ run.at = "walk" /\ Due(e)
       /\ \/ /\ Skipped(e) \/ checkExclude(e, run.md.view) \/ Kept(f)
             /\ goesOn
             /\ UNCHANGED <<out, writes>>
          \/ /\ ~Skipped(e) /\ ~checkExclude(e, run.md.view) /\ Refused(f)
             /\ run' = [run EXCEPT !.at = "error"]
             /\ UNCHANGED <<out, writes>>
          \/ /\ ~Skipped(e) /\ ~checkExclude(e, run.md.view) /\ ~Kept(f) /\ ~Refused(f)
             /\ IF e.dir
                THEN /\ out' = Put(f, [path |-> e.path, uuid |-> 0, whole |-> TRUE], out)
                     /\ goesOn
                     /\ UNCHANGED writes
                ELSE /\ writes' = Put(f, [entry |-> e, begun |-> FALSE], writes)
                     /\ run' = [run EXCEPT !.left = @ \ {e},
                                           !.at = IF e.art THEN "walk" ELSE "copy"]
                     /\ UNCHANGED out
       /\ UNCHANGED <<runs, done, cut, lost>>

Content(e, whole) ==
    [path |-> e.path, uuid |-> IF e.names THEN run.uuid ELSE 0, whole |-> whole]

\* writeFile and copyFile.
BeginWrite(f) ==
    /\ f \in DOMAIN writes /\ ~writes[f].begun
    /\ writes' = [writes EXCEPT ![f].begun = TRUE]
    /\ out' = Put(f, Content(writes[f].entry, FALSE), out)
    /\ UNCHANGED <<run, runs, done, cut, lost>>

EndWrite(f) ==
    /\ f \in DOMAIN writes /\ writes[f].begun
    /\ writes' = Restrict(writes, DOMAIN writes \ {f})
    /\ out' = Put(f, Content(writes[f].entry, TRUE), out)
    /\ run' = IF writes[f].entry.art THEN run ELSE [run EXCEPT !.at = "walk"]
    /\ cut' = cut \ {f}
    /\ UNCHANGED <<runs, done, lost>>

\* "jsgenerate success"
Success ==
    /\ run # None /\ run.at = "walk" /\ run.left = {}
    /\ run' = [run EXCEPT !.at = "success"]
    /\ UNCHANGED <<out, writes, runs, done, cut, lost>>

\* Mutant of Exit: the process does not wait for the files.
Exit_AtOnce ==
    /\ run # None /\ run.at = "success"
    /\ run' = None /\ writes' = <<>>
    /\ done' = run
    /\ UNCHANGED <<out, runs, cut, lost>>

\* The process ends when nothing is left to do.
Exit ==
    /\ run # None /\ run.at = "success" /\ writes = <<>>
    /\ run' = None
    /\ done' = run
    /\ UNCHANGED <<out, writes, runs, cut, lost>>

\* An error nobody catches, or whoever runs it, stops the process.
Stop ==
    /\ run # None
    /\ run' = None /\ writes' = <<>>
    /\ cut' = cut \cup {f \in DOMAIN writes : writes[f].begun}
    /\ lost' = IF run.uuid \in {f[1] : f \in DOMAIN out} THEN lost ELSE lost \cup {run.uuid}
    /\ UNCHANGED <<out, runs, done>>

Next ==
    \/ Start \/ Success \/ Exit \/ Stop
    \/ \E e \in Entries : Visit(e)
    \/ \E f \in DOMAIN writes : BeginWrite(f) \/ EndWrite(f)

Spec == Init /\ [][Next]_vars
-------------------------------------------------------------------------------
Outputs == {getOutput(e, u) : e \in Entries, u \in Uuids}
Runs == [uuid : Uuids, md : Metadata, left : SUBSET Entries,
         at : {"walk", "copy", "success", "error"}, found : SUBSET Outputs]

ASSUME NoneAssumption == None \notin Runs

TypeOK ==
    /\ DOMAIN out \subseteq Outputs
    /\ out \in [DOMAIN out -> [path : STRING, uuid : {0} \cup Uuids, whole : BOOLEAN]]
    /\ DOMAIN writes \subseteq Outputs
    /\ writes \in [DOMAIN writes -> [entry : Entries, begun : BOOLEAN]]
    /\ run \in Runs \cup {None} /\ done \in Runs \cup {None}
    /\ runs \in 0..MaxRuns
    /\ cut \subseteq Outputs /\ lost \subseteq Uuids

\* What the project is to hold.
Wanted(r) == {e \in Entries : ~checkExclude(e, r.md.view) /\ (e.path \in skip => e.art)}

\* After "success", when the process has ended by itself, everything is there,
\* whatever runs there were before; a file is incomplete only if an earlier run
\* was stopped while it was written, and this one was to supplement.
Complete ==
    done # None =>
      \A e \in Wanted(done) :
        LET f == getOutput(e, done.uuid)
        IN Exists(f) /\ (out[f].whole \/ (f \in cut /\ done.md.supplement))

\* Then every file that holds the uuid holds that of the directory the protocol
\* is in, unless it is from a run that ended before it had made that.
SameUuid ==
    done # None =>
      \A f \in DOMAIN out : out[f].uuid \in {0, done.uuid} \cup lost

\* A run that is to supplement changes nothing that was there before it, with
\* whatever else it was started.
SupplementKeeps ==
    [][run # None /\ run.md.supplement =>
         \A f \in run.found : Exists(f)' /\ out'[f] = out[f]]_<<out, run>>

\* A run that finds nothing does not end with an error: no two entries are
\* written to one file.
FreshSucceeds == run # None /\ run.found = {} => run.at # "error"
===============================================================================
