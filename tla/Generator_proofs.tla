---------------------------- MODULE Generator_proofs ----------------------------
(***************************************************************************)
(* Proofs about the template generator: what a run has visited is written  *)
(* or being written, a file that is half written is known to be, and the   *)
(* uuids there are follow the directory of the protocol.                   *)
(***************************************************************************)
EXTENDS Generator, TLAPS

\* The run is responsible for e.
Responsible(e) == ~Skipped(e) /\ ~checkExclude(e, run.md.view)

\* What is being written was visited, each file for one entry.
WriteInv ==
    \A f \in DOMAIN writes :
      /\ run # None
      /\ writes[f].entry \in Entries \ run.left /\ ~Skipped(writes[f].entry)
      /\ f = getOutput(writes[f].entry, run.uuid)

\* A file that is not complete is being written, or was when a run was stopped.
WholeInv ==
    \A f \in DOMAIN out : \/ out[f].whole \/ f \in cut
                          \/ f \in DOMAIN writes /\ writes[f].begun

\* What the run has visited is there, or being written.
VisitInv ==
    run # None =>
      /\ run.at = "success" => run.left = {}
      /\ \A e \in Entries \ run.left : Responsible(e) =>
           LET f == getOutput(e, run.uuid)
           IN \/ f \in DOMAIN writes
              \/ Exists(f) /\ (out[f].whole \/ (f \in cut /\ run.md.supplement))

\* One directory of the protocol at most is there, that of the run.
UuidInv ==
    /\ \A f, g \in DOMAIN out : f[1] # 0 /\ g[1] # 0 => f[1] = g[1]
    /\ run # None =>
         \A f \in DOMAIN out : f[1] \in {0, run.uuid} /\ out[f].uuid \in {0, run.uuid} \cup lost
    /\ run = None =>
         \A f \in DOMAIN out : out[f].uuid \in {0} \cup lost \cup {g[1] : g \in DOMAIN out}

\* What was there before the run still is, and is not written to if it is to
\* be kept.
FoundInv ==
    run # None => /\ run.found \subseteq DOMAIN out
                  /\ run.md.supplement => run.found \cap DOMAIN writes = {}

\* A run that has found nothing has made what there is.
FreshInv ==
    run # None /\ run.found = {} =>
      /\ run.at # "error"
      /\ \A f \in DOMAIN out \cup DOMAIN writes :
           \E e \in Entries \ run.left : ~Skipped(e) /\ f = getOutput(e, run.uuid)

DoneInv == done # None => run = None

IInv ==
    /\ TypeOK /\ WriteInv /\ WholeInv /\ VisitInv /\ UuidInv /\ FoundInv /\ FreshInv /\ DoneInv
    /\ Complete /\ SameUuid
-------------------------------------------------------------------------------
(***************************************************************************)
(* Operators.                                                              *)
(***************************************************************************)

\* An entry is written to the directory of the protocol, or to none that has a
\* uuid; no two are written to one file.
LEMMA Writing ==
    ASSUME NEW u \in Uuids
    PROVE  /\ \A e \in Entries : /\ getOutput(e, u) \in Outputs
                                 /\ getOutput(e, u)[1] \in {0, u}
                                 /\ e.area = "pb" /\ e.in # "" => getOutput(e, u)[1] = u
           /\ \A d, e \in Entries :
                ~Skipped(d) /\ ~Skipped(e) /\ getOutput(d, u) = getOutput(e, u) => d = e
<1>1. u # 0
  BY GeneratorAssumption DEF Uuids
<1>2. ASSUME NEW e \in Entries
      PROVE  /\ getOutput(e, u) \in Outputs
             /\ getOutput(e, u)[1] \in {0, u}
             /\ e.area = "pb" /\ e.in # "" => getOutput(e, u)[1] = u
  <2>1. getOutput(e, u) \in Outputs
    BY DEF Outputs
  <2>2. getOutput(e, u)[1] = IF e.area = "pb" /\ e.in # "" THEN u ELSE 0
    BY DEF getOutput
  <2> QED
    BY <2>1, <2>2
<1>3. ASSUME NEW d \in Entries, NEW e \in Entries, getOutput(d, u) = getOutput(e, u)
      PROVE  getOutput(d, 1) = getOutput(e, 1)
  BY <1>1, <1>3 DEF getOutput
<1> QED
  BY <1>2, <1>3, EntriesAssumption DEF Skipped

\* The uuid of a run is one; it is that of the directory there is, if any.
LEMMA Uuid ==
    ASSUME TypeOK, runs < MaxRuns, NEW u \in getUUID
    PROVE  /\ u \in Uuids
           /\ \/ \E f \in DOMAIN out : f[1] = u
              \/ \A f \in DOMAIN out : f[1] = 0
<1>1. ASSUME NEW f \in DOMAIN out
      PROVE  f[1] \in {0} \cup Uuids
  <2>1. PICK e \in Entries, v \in Uuids : f = getOutput(e, v)
    BY DEF TypeOK, Outputs
  <2> QED
    BY <2>1, Writing
<1>2. runs + 1 \in Uuids
  BY GeneratorAssumption DEF TypeOK, Uuids
<1> QED
  BY <1>1, <1>2 DEF getUUID

\* What a run makes of an entry.
LEMMA Visiting ==
    ASSUME TypeOK, NEW e \in Entries, Visit(e)
    PROVE  LET f == getOutput(e, run.uuid)
           IN /\ run \in Runs /\ run.at = "walk" /\ e \in run.left
              /\ run' \in Runs /\ run'.uuid = run.uuid /\ run'.md = run.md
              /\ run'.found = run.found
              /\ UNCHANGED <<runs, done, cut, lost>>
              /\ \/ /\ Skipped(e) \/ checkExclude(e, run.md.view) \/ Kept(f)
                    /\ run'.left = run.left \ {e} /\ run'.at = "walk"
                    /\ UNCHANGED <<out, writes>>
                 \/ /\ ~Skipped(e) /\ Refused(f)
                    /\ run'.left = run.left /\ run'.at = "error"
                    /\ UNCHANGED <<out, writes>>
                 \/ /\ ~Skipped(e) /\ ~Kept(f) /\ ~Refused(f)
                    /\ run'.left = run.left \ {e} /\ run'.at = "walk"
                    /\ out' = Put(f, [path |-> e.path, uuid |-> 0, whole |-> TRUE], out)
                    /\ UNCHANGED writes
                 \/ /\ ~Skipped(e) /\ ~Kept(f) /\ ~Refused(f)
                    /\ run'.left = run.left \ {e} /\ run'.at \in {"walk", "copy"}
                    /\ writes' = Put(f, [entry |-> e, begun |-> FALSE], writes)
                    /\ UNCHANGED out
<1> DEFINE f == getOutput(e, run.uuid)
<1>1. run \in Runs /\ run.at = "walk" /\ e \in run.left /\ UNCHANGED <<runs, done, cut, lost>>
  BY DEF TypeOK, Visit, Due
<1> DEFINE on(at) == [run EXCEPT !.left = @ \ {e}, !.at = at]
<1>2. \A at \in {"walk", "copy"} :
        /\ on(at) \in Runs /\ on(at).uuid = run.uuid /\ on(at).md = run.md
        /\ on(at).found = run.found /\ on(at).left = run.left \ {e} /\ on(at).at = at
  BY <1>1 DEF Runs
<1>3. [run EXCEPT !.left = @ \ {e}] = on("walk")
  BY <1>1 DEF Runs
<1>4. CASE run' = [run EXCEPT !.at = "error"]
  BY <1>1, <1>4 DEF Visit, Runs
<1> HIDE DEF on, f
<1> QED
  BY <1>1, <1>2, <1>3, <1>4 DEF Visit, on, f
\* Nothing is written to when no run is in progress, and "success" is not said
\* of a run that goes on.
LEMMA Idle ==
    ASSUME WriteInv, DoneInv
    PROVE  /\ run = None => DOMAIN writes = {}
           /\ run # None => done = None
  BY DEF WriteInv, DoneInv

\* What the writes of the run are.
LEMMA Writes ==
    ASSUME TypeOK, WriteInv, NEW f \in DOMAIN writes
    PROVE  /\ run # None /\ run \in Runs
           /\ writes[f].entry \in Entries \ run.left /\ ~Skipped(writes[f].entry)
           /\ f = getOutput(writes[f].entry, run.uuid)
           /\ f \in Outputs /\ f[1] \in {0, run.uuid}
           /\ \A whole \in BOOLEAN : LET c == Content(writes[f].entry, whole)
                IN /\ c \in [path : STRING, uuid : {0} \cup Uuids, whole : BOOLEAN]
                   /\ c.uuid \in {0, run.uuid} /\ c.whole = whole
<1>1. /\ run # None /\ run \in Runs
      /\ writes[f].entry \in Entries \ run.left /\ ~Skipped(writes[f].entry)
      /\ f = getOutput(writes[f].entry, run.uuid)
  BY DEF TypeOK, WriteInv
<1>2. run.uuid \in Uuids
  BY <1>1 DEF Runs
<1>3. f \in Outputs /\ f[1] \in {0, run.uuid}
  BY <1>1, <1>2, Writing
<1>4. writes[f].entry \in EntryType
  BY <1>1, GeneratorAssumption
<1>5. writes[f].entry.path \in STRING
  BY <1>4 DEF EntryType
<1> QED
  BY <1>1, <1>2, <1>3, <1>5 DEF Content
-------------------------------------------------------------------------------
(***************************************************************************)
(* Steps.                                                                  *)
(***************************************************************************)
LEMMA StartKeeps ==
    ASSUME IInv, Start
    PROVE  IInv'
<1>1. run = None /\ runs < MaxRuns /\ DOMAIN writes = {}
  BY Idle DEF IInv, Start
<1>2. PICK u \in getUUID, md \in Metadata :
        run' = [uuid |-> u, md |-> md, left |-> Entries, at |-> "walk", found |-> DOMAIN out]
  BY DEF Start
<1>3. runs' = runs + 1 /\ done' = None /\ UNCHANGED <<out, writes, cut, lost>>
  BY DEF Start
<1>4. u \in Uuids
  BY <1>1, Uuid DEF IInv
<1>5. /\ run'.uuid = u /\ run'.md = md /\ run'.left = Entries
      /\ run'.at = "walk" /\ run'.found = DOMAIN out
  BY <1>2
<1>6. run' \in Runs
  BY <1>2, <1>4 DEF IInv, TypeOK, Runs
<1>7. run' # None
  BY <1>6, NoneAssumption
<1>8. TypeOK'
  BY <1>1, <1>3, <1>6, GeneratorAssumption DEF IInv, TypeOK
<1>9. WriteInv'
  BY <1>1, <1>3 DEF WriteInv
<1>10. WholeInv'
  BY <1>3 DEF IInv, WholeInv
<1>11. VisitInv'
  BY <1>5 DEF VisitInv
<1>12. UuidInv'
  <2>1. \/ \E f \in DOMAIN out : f[1] = u
        \/ \A f \in DOMAIN out : f[1] = 0
    BY <1>1, Uuid DEF IInv
  <2>2. u # 0
    BY <1>4, GeneratorAssumption DEF Uuids
  <2>3. \A f \in DOMAIN out : f[1] \in {0, u}
    BY <2>1, <2>2 DEF IInv, UuidInv
  <2>4. \A f \in DOMAIN out : out[f].uuid \in {0, u} \cup lost
    BY <1>1, <2>3 DEF IInv, UuidInv
  <2> QED
    BY <1>3, <1>5, <1>7, <2>3, <2>4 DEF IInv, UuidInv
<1>13. FoundInv'
  BY <1>1, <1>3, <1>5 DEF FoundInv
<1>14. FreshInv'
  BY <1>1, <1>3, <1>5 DEF FreshInv
<1>15. DoneInv' /\ Complete' /\ SameUuid'
  BY <1>3 DEF DoneInv, Complete, SameUuid
<1> QED
  BY <1>8, <1>9, <1>10, <1>11, <1>12, <1>13, <1>14, <1>15 DEF IInv

LEMMA VisitKeeps ==
    ASSUME IInv, NEW e \in Entries, Visit(e)
    PROVE  IInv'
<1> DEFINE f == getOutput(e, run.uuid)
           passes == /\ Skipped(e) \/ checkExclude(e, run.md.view) \/ Kept(f)
                     /\ run'.left = run.left \ {e} /\ run'.at = "walk"
                     /\ UNCHANGED <<out, writes>>
           fails == /\ ~Skipped(e) /\ Refused(f)
                    /\ run'.left = run.left /\ run'.at = "error"
                    /\ UNCHANGED <<out, writes>>
           makes == /\ ~Skipped(e) /\ ~Kept(f) /\ ~Refused(f)
                    /\ run'.left = run.left \ {e} /\ run'.at = "walk"
                    /\ out' = Put(f, [path |-> e.path, uuid |-> 0, whole |-> TRUE], out)
                    /\ UNCHANGED writes
           puts == /\ ~Skipped(e) /\ ~Kept(f) /\ ~Refused(f)
                   /\ run'.left = run.left \ {e} /\ run'.at \in {"walk", "copy"}
                   /\ writes' = Put(f, [entry |-> e, begun |-> FALSE], writes)
                   /\ UNCHANGED out
<1>1. /\ run \in Runs /\ run.at = "walk" /\ e \in run.left
      /\ run' \in Runs /\ run'.uuid = run.uuid /\ run'.md = run.md
      /\ run'.found = run.found
      /\ UNCHANGED <<runs, done, cut, lost>>
  BY Visiting DEF IInv
<1>2. passes \/ fails \/ makes \/ puts
  BY Visiting DEF IInv
<1>3. run # None /\ run' # None /\ done = None
  BY <1>1, Idle, NoneAssumption DEF IInv
<1>4. run.uuid \in Uuids /\ f \in Outputs /\ f[1] \in {0, run.uuid}
  BY <1>1, Writing DEF Runs
<1>5. \A d \in Entries \ run.left : ~Skipped(d) /\ ~Skipped(e) => getOutput(d, run.uuid) # f
  BY <1>1, <1>4, Writing
<1>6. f \in DOMAIN writes => Skipped(e)
  BY <1>5 DEF IInv, WriteInv
<1>7. ASSUME makes
      PROVE  /\ ~Skipped(e) /\ UNCHANGED writes
             /\ run'.left = run.left \ {e} /\ run'.at = "walk"
             /\ DOMAIN out' = DOMAIN out \cup {f}
             /\ out'[f] = [path |-> e.path, uuid |-> 0, whole |-> TRUE]
             /\ \A g \in DOMAIN out : g # f => out'[g] = out[g]
             /\ out' = [g \in DOMAIN out' |-> out'[g]]
  <2> DEFINE v == [path |-> e.path, uuid |-> 0, whole |-> TRUE]
  <2>1. /\ out' = Put(f, v, out)
        /\ ~Skipped(e) /\ UNCHANGED writes
        /\ run'.left = run.left \ {e} /\ run'.at = "walk"
    BY <1>7
  <2> HIDE DEF f, v
  <2>2. /\ DOMAIN Put(f, v, out) = DOMAIN out \cup {f}
        /\ Put(f, v, out)[f] = v
        /\ \A g \in DOMAIN out : g # f => Put(f, v, out)[g] = out[g]
        /\ Put(f, v, out) = [g \in DOMAIN out \cup {f} |-> Put(f, v, out)[g]]
    BY DEF Put
  <2> QED
    BY <2>1, <2>2 DEF v
<1>8. ASSUME puts
      PROVE  /\ ~Skipped(e) /\ UNCHANGED out
             /\ run'.left = run.left \ {e} /\ run'.at \in {"walk", "copy"}
             /\ ~Kept(f)
             /\ DOMAIN writes' = DOMAIN writes \cup {f}
             /\ writes'[f] = [entry |-> e, begun |-> FALSE]
             /\ \A g \in DOMAIN writes : g # f => writes'[g] = writes[g]
             /\ writes' = [g \in DOMAIN writes' |-> writes'[g]]
             /\ f \notin DOMAIN writes
  <2> DEFINE v == [entry |-> e, begun |-> FALSE]
  <2>1. /\ writes' = Put(f, v, writes) /\ f \notin DOMAIN writes
        /\ ~Skipped(e) /\ UNCHANGED out /\ ~Kept(f)
        /\ run'.left = run.left \ {e} /\ run'.at \in {"walk", "copy"}
    BY <1>6, <1>8
  <2> HIDE DEF f, v
  <2>2. /\ DOMAIN Put(f, v, writes) = DOMAIN writes \cup {f}
        /\ Put(f, v, writes)[f] = v
        /\ \A g \in DOMAIN writes : g # f => Put(f, v, writes)[g] = writes[g]
        /\ Put(f, v, writes) = [g \in DOMAIN writes \cup {f} |-> Put(f, v, writes)[g]]
    BY DEF Put
  <2> QED
    BY <2>1, <2>2 DEF v
<1>9. e.path \in STRING
  BY GeneratorAssumption DEF EntryType
<1>10. Kept(f) \/ Refused(f) => Exists(f)
  BY DEF Kept, Refused
<1>a. f' = f
  BY <1>1
<1> HIDE DEF f, makes, puts
<1>11. TypeOK'
  <2> USE <1>1 DEF IInv, TypeOK
  <2>1. CASE passes \/ fails
    BY <2>1
  <2>2. CASE makes
    <3> DEFINE Item == [path : STRING, uuid : {0} \cup Uuids, whole : BOOLEAN]
    <3>1. [path |-> e.path, uuid |-> 0, whole |-> TRUE] \in Item
      BY <1>9
    <3>2. \A g \in DOMAIN out : out[g] \in Item
      OBVIOUS
    <3> HIDE DEF Item
    <3>3. \A g \in DOMAIN out' : out'[g] \in Item
      BY <1>7, <2>2, <3>1, <3>2
    <3>4. DOMAIN out' \subseteq Outputs
      BY <1>4, <1>7, <2>2
    <3>5. out' \in [DOMAIN out' -> Item]
      BY <1>7, <2>2, <3>3
    <3> QED
      BY <1>7, <2>2, <3>4, <3>5 DEF Item
  <2>3. CASE puts
    <3> DEFINE Item == [entry : Entries, begun : BOOLEAN]
    <3>1. [entry |-> e, begun |-> FALSE] \in Item
      OBVIOUS
    <3>2. \A g \in DOMAIN writes : writes[g] \in Item
      OBVIOUS
    <3> HIDE DEF Item
    <3>3. \A g \in DOMAIN writes' : writes'[g] \in Item
      BY <1>8, <2>3, <3>1, <3>2
    <3>4. DOMAIN writes' \subseteq Outputs
      BY <1>4, <1>8, <2>3
    <3>5. writes' \in [DOMAIN writes' -> Item]
      BY <1>8, <2>3, <3>3
    <3> QED
      BY <1>8, <2>3, <3>4, <3>5 DEF Item
  <2> QED
    BY <1>2, <2>1, <2>2, <2>3
<1>12. WriteInv'
  <2>1. run'.left \subseteq run.left
    BY <1>2, <1>7, <1>8
  <2>2. CASE passes \/ fails \/ makes
    <3>1. UNCHANGED writes
      BY <1>7, <2>2
    <3> QED
      BY <1>1, <1>3, <2>1, <3>1 DEF IInv, WriteInv
  <2>3. CASE puts
    BY <1>1, <1>3, <1>8, <2>1, <2>3 DEF IInv, WriteInv, f
  <2> QED
    BY <1>2, <2>2, <2>3
<1>13. WholeInv'
  <2>1. CASE passes \/ fails
    BY <1>1, <2>1 DEF IInv, WholeInv
  <2>2. CASE makes
    BY <1>1, <1>7, <2>2 DEF IInv, WholeInv
  <2>3. CASE puts
    BY <1>1, <1>8, <2>3 DEF IInv, WholeInv
  <2> QED
    BY <1>2, <2>1, <2>2, <2>3
<1>14. VisitInv'
  <2> DEFINE There(g) == \/ g \in DOMAIN writes
                         \/ /\ g \in DOMAIN out
                            /\ out[g].whole \/ (g \in cut /\ run.md.supplement)
  <2>1. run'.at # "success" \/ run'.left = {}
    BY <1>2, <1>7, <1>8
  <2>2. ASSUME NEW g, There(g)
        PROVE  There(g)'
    <3>1. CASE passes \/ fails
      BY <1>1, <2>2, <3>1 DEF Exists
    <3>2. CASE makes
      BY <1>1, <1>7, <2>2, <3>2 DEF Exists
    <3>3. CASE puts
      BY <1>1, <1>8, <2>2, <3>3 DEF Exists
    <3> QED
      BY <1>2, <3>1, <3>2, <3>3
  <2>3. ASSUME run'.left # run.left, Responsible(e)
        PROVE  There(f)'
    <3>1. CASE passes
      <4>1. Kept(f)
        BY <1>1, <2>3, <3>1 DEF Responsible
      <4>2. Exists(f) /\ run.md.supplement
        BY <4>1 DEF Kept
      <4>3. There(f)
        BY <4>2 DEF IInv, WholeInv, Exists
      <4> QED
        BY <1>a, <2>2, <4>3
    <3>2. CASE makes
      <4>1. f \in DOMAIN out' /\ out'[f].whole
        BY <1>7, <3>2
      <4> QED
        BY <1>a, <4>1
    <3>3. CASE puts
      <4>1. f \in DOMAIN writes'
        BY <1>8, <3>3
      <4> QED
        BY <1>a, <4>1
    <3> QED
      BY <1>2, <2>3, <3>1, <3>2, <3>3
  <2>4. run'.left = run.left \/ run'.left = run.left \ {e}
    BY <1>2, <1>7, <1>8
  <2>5. \A d \in Entries \ run.left : Responsible(d) => There(getOutput(d, run.uuid))
    BY <1>3 DEF IInv, VisitInv, Exists
  <2>6. \A d \in Entries : Responsible(d)' <=> Responsible(d)
    BY <1>1 DEF Responsible
  <2>7. ASSUME NEW d \in Entries \ run'.left, Responsible(d)'
        PROVE  There(getOutput(d, run.uuid))'
    <3>1. CASE d \in run.left
      <4>1. d = e /\ run'.left # run.left
        BY <2>4, <2>7, <3>1
      <4>2. Responsible(e)
        BY <2>6, <2>7, <4>1
      <4>3. There(f)'
        BY <2>3, <4>1, <4>2
      <4>4. getOutput(d, run.uuid)' = f'
        BY <1>1, <4>1 DEF f
      <4> QED
        BY <4>3, <4>4
    <3>2. CASE d \notin run.left
      <4>1. There(getOutput(d, run.uuid))
        BY <2>5, <2>6, <2>7, <3>2
      <4>2. getOutput(d, run.uuid)' = getOutput(d, run.uuid)
        BY <1>1
      <4> QED
        BY <2>2, <4>1, <4>2
    <3> QED
      BY <3>1, <3>2
  <2> QED
    BY <1>1, <2>1, <2>7 DEF VisitInv, Exists
<1>15. UuidInv'
  <2>1. \A g \in DOMAIN out : /\ g[1] \in {0, run.uuid}
                              /\ out[g].uuid \in {0, run.uuid} \cup lost
    BY <1>3 DEF IInv, UuidInv
  <2>2. \A g \in DOMAIN out' : /\ g[1] \in {0, run.uuid}
                               /\ out'[g].uuid \in {0, run.uuid} \cup lost
    <3>1. CASE passes \/ fails \/ puts
      BY <1>1, <1>8, <2>1, <3>1
    <3>2. CASE makes
      BY <1>4, <1>7, <2>1, <3>2
    <3> QED
      BY <1>2, <3>1, <3>2
  <2> QED
    BY <1>1, <1>3, <2>2 DEF UuidInv
<1>16. FoundInv'
  <2>1. run.found \subseteq DOMAIN out /\ (run.md.supplement => run.found \cap DOMAIN writes = {})
    BY <1>3 DEF IInv, FoundInv
  <2>2. CASE passes \/ fails
    BY <1>1, <2>1, <2>2 DEF FoundInv
  <2>3. CASE makes
    BY <1>1, <1>7, <2>1, <2>3 DEF FoundInv
  <2>4. CASE puts
    <3>1. run.md.supplement => f \notin run.found
      BY <1>8, <2>1, <2>4 DEF Kept, Exists
    <3> QED
      BY <1>1, <1>8, <2>1, <2>4, <3>1 DEF FoundInv
  <2> QED
    BY <1>2, <2>2, <2>3, <2>4
<1>17. FreshInv'
  <2> SUFFICES ASSUME run.found = {}
               PROVE  /\ run'.at # "error"
                      /\ \A g \in DOMAIN out' \cup DOMAIN writes' :
                           \E d \in Entries \ run'.left :
                             ~Skipped(d) /\ g = getOutput(d, run.uuid)
    BY <1>1, <1>3 DEF FreshInv
  <2>1. \A g \in DOMAIN out \cup DOMAIN writes :
          \E d \in Entries \ run.left : ~Skipped(d) /\ g = getOutput(d, run.uuid)
    BY <1>3 DEF IInv, FreshInv
  <2>2. ~fails
    BY <1>5, <1>10, <2>1 DEF Exists
  <2>3. CASE passes
    BY <2>1, <2>3
  <2>4. CASE makes
    BY <1>7, <2>1, <2>4 DEF f
  <2>5. CASE puts
    BY <1>8, <2>1, <2>5 DEF f
  <2> QED
    BY <1>2, <2>2, <2>3, <2>4, <2>5
<1>18. DoneInv' /\ Complete' /\ SameUuid'
  BY <1>1, <1>3 DEF DoneInv, Complete, SameUuid
<1> QED
  BY <1>11, <1>12, <1>13, <1>14, <1>15, <1>16, <1>17, <1>18 DEF IInv

LEMMA BeginWriteKeeps ==
    ASSUME IInv, NEW f \in DOMAIN writes, BeginWrite(f)
    PROVE  IInv'
<1> DEFINE c == Content(writes[f].entry, FALSE)
<1>1. /\ run # None /\ run \in Runs /\ done = None
      /\ writes[f].entry \in Entries \ run.left /\ ~Skipped(writes[f].entry)
      /\ f = getOutput(writes[f].entry, run.uuid)
      /\ f \in Outputs /\ f[1] \in {0, run.uuid}
  BY Writes, Idle DEF IInv
<1>2. /\ c \in [path : STRING, uuid : {0} \cup Uuids, whole : BOOLEAN]
      /\ c.uuid \in {0, run.uuid}
  BY Writes DEF IInv
<1>3. UNCHANGED <<run, runs, done, cut, lost>>
  BY DEF BeginWrite
<1>4. /\ DOMAIN writes' = DOMAIN writes
      /\ writes' = [writes EXCEPT ![f].begun = TRUE]
      /\ \A g \in DOMAIN writes : /\ writes'[g].entry = writes[g].entry
                                  /\ writes[g].begun \/ g = f => writes'[g].begun
  BY DEF BeginWrite, IInv, TypeOK
<1> HIDE DEF c
<1>5. /\ DOMAIN out' = DOMAIN out \cup {f}
      /\ out'[f] = c
      /\ \A g \in DOMAIN out : g # f => out'[g] = out[g]
      /\ out' = [g \in DOMAIN out' |-> out'[g]]
  <2>1. out' = Put(f, c, out)
    BY DEF BeginWrite, c
  <2> QED
    BY <2>1 DEF Put
<1>6. TypeOK'
  <2> DEFINE Item == [path : STRING, uuid : {0} \cup Uuids, whole : BOOLEAN]
  <2>1. \A g \in DOMAIN out : out[g] \in Item
    BY DEF IInv, TypeOK
  <2>2. c \in Item
    BY <1>2
  <2> HIDE DEF Item
  <2>3. out' \in [DOMAIN out' -> Item]
    BY <1>5, <2>1, <2>2
  <2>4. writes' \in [DOMAIN writes' -> [entry : Entries, begun : BOOLEAN]]
    BY <1>4 DEF IInv, TypeOK
  <2> QED
    BY <1>1, <1>3, <1>4, <1>5, <2>3, <2>4 DEF IInv, TypeOK, Item
<1>7. WriteInv'
  BY <1>1, <1>3, <1>4 DEF IInv, WriteInv
<1>8. WholeInv'
  BY <1>3, <1>4, <1>5 DEF IInv, WholeInv
<1>9. VisitInv'
  BY <1>3, <1>4, <1>5 DEF IInv, VisitInv, Exists, Responsible
<1>10. UuidInv'
  <2>1. \A g \in DOMAIN out' : /\ g[1] \in {0, run.uuid}
                               /\ out'[g].uuid \in {0, run.uuid} \cup lost
    BY <1>1, <1>2, <1>5 DEF IInv, UuidInv
  <2> QED
    BY <1>1, <1>3, <2>1 DEF UuidInv
<1>11. FoundInv'
  BY <1>3, <1>4, <1>5 DEF IInv, FoundInv
<1>12. FreshInv'
  BY <1>3, <1>4, <1>5 DEF IInv, FreshInv
<1>13. DoneInv' /\ Complete' /\ SameUuid'
  BY <1>1, <1>3 DEF DoneInv, Complete, SameUuid
<1> QED
  BY <1>6, <1>7, <1>8, <1>9, <1>10, <1>11, <1>12, <1>13 DEF IInv

LEMMA EndWriteKeeps ==
    ASSUME IInv, NEW f \in DOMAIN writes, EndWrite(f)
    PROVE  IInv'
<1> DEFINE c == Content(writes[f].entry, TRUE)
<1>1. /\ run # None /\ run \in Runs /\ done = None
      /\ f \in Outputs /\ f[1] \in {0, run.uuid}
  BY Writes, Idle DEF IInv
<1>2. /\ c \in [path : STRING, uuid : {0} \cup Uuids, whole : BOOLEAN]
      /\ c.uuid \in {0, run.uuid} /\ c.whole
  BY Writes DEF IInv
<1>3. UNCHANGED <<runs, done, lost>> /\ cut' = cut \ {f}
  BY DEF EndWrite
<1>4. /\ DOMAIN writes' = DOMAIN writes \ {f}
      /\ writes' = [g \in DOMAIN writes \ {f} |-> writes[g]]
      /\ \A g \in DOMAIN writes' : writes'[g] = writes[g]
  BY DEF EndWrite, Restrict
<1>5. /\ run' \in Runs /\ run' # None
      /\ run'.uuid = run.uuid /\ run'.md = run.md /\ run'.left = run.left
      /\ run'.found = run.found /\ run'.at \in {run.at, "walk"}
  <2>1. CASE run' = run
    BY <1>1, <2>1
  <2>2. CASE run' = [run EXCEPT !.at = "walk"]
    BY <1>1, <2>2, NoneAssumption DEF Runs
  <2> QED
    BY <2>1, <2>2 DEF EndWrite
<1> HIDE DEF c
<1>6. /\ DOMAIN out' = DOMAIN out \cup {f}
      /\ out'[f] = c
      /\ \A g \in DOMAIN out : g # f => out'[g] = out[g]
      /\ out' = [g \in DOMAIN out' |-> out'[g]]
  <2>1. out' = Put(f, c, out)
    BY DEF EndWrite, c
  <2> QED
    BY <2>1 DEF Put
<1>7. TypeOK'
  <2> DEFINE Item == [path : STRING, uuid : {0} \cup Uuids, whole : BOOLEAN]
  <2>1. \A g \in DOMAIN out : out[g] \in Item
    BY DEF IInv, TypeOK
  <2>2. c \in Item
    BY <1>2
  <2> HIDE DEF Item
  <2>3. out' \in [DOMAIN out' -> Item]
    BY <1>6, <2>1, <2>2
  <2>4. writes' \in [DOMAIN writes' -> [entry : Entries, begun : BOOLEAN]]
    BY <1>4 DEF IInv, TypeOK
  <2> QED
    BY <1>1, <1>3, <1>4, <1>5, <1>6, <2>3, <2>4 DEF IInv, TypeOK, Item
<1>8. WriteInv'
  BY <1>4, <1>5 DEF IInv, WriteInv
<1>9. WholeInv'
  BY <1>2, <1>3, <1>4, <1>6 DEF IInv, WholeInv
<1>10. VisitInv'
  <2>1. run'.at = "success" => run'.left = {}
    BY <1>1, <1>5 DEF IInv, VisitInv
  <2>2. ASSUME NEW e \in Entries \ run'.left, Responsible(e)'
        PROVE  LET h == getOutput(e, run'.uuid)
               IN \/ h \in DOMAIN writes'
                  \/ h \in DOMAIN out' /\ (out'[h].whole \/ (h \in cut' /\ run'.md.supplement))
    <3> DEFINE g == getOutput(e, run.uuid)
    <3>1. Responsible(e)
      BY <1>5, <2>2 DEF Responsible
    <3>2. \/ g \in DOMAIN writes
          \/ g \in DOMAIN out /\ (out[g].whole \/ (g \in cut /\ run.md.supplement))
      BY <1>1, <1>5, <2>2, <3>1 DEF IInv, VisitInv, Exists
    <3> HIDE DEF g
    <3>3. \/ g \in DOMAIN writes'
          \/ g \in DOMAIN out' /\ (out'[g].whole \/ (g \in cut' /\ run.md.supplement))
      BY <1>2, <1>3, <1>4, <1>6, <3>2
    <3> QED
      BY <1>5, <3>3 DEF g
  <2> QED
    BY <2>1, <2>2 DEF VisitInv, Exists
<1>11. UuidInv'
  <2>1. \A g \in DOMAIN out' : /\ g[1] \in {0, run.uuid}
                               /\ out'[g].uuid \in {0, run.uuid} \cup lost
    BY <1>1, <1>2, <1>6 DEF IInv, UuidInv
  <2> QED
    BY <1>3, <1>5, <2>1 DEF UuidInv
<1>12. FoundInv'
  BY <1>1, <1>4, <1>5, <1>6 DEF IInv, FoundInv
<1>13. FreshInv'
  BY <1>1, <1>4, <1>5, <1>6 DEF IInv, FreshInv
<1>14. DoneInv' /\ Complete' /\ SameUuid'
  BY <1>1, <1>3 DEF DoneInv, Complete, SameUuid
<1> QED
  BY <1>7, <1>8, <1>9, <1>10, <1>11, <1>12, <1>13, <1>14 DEF IInv

LEMMA SuccessKeeps ==
    ASSUME IInv, Success
    PROVE  IInv'
<1>1. run # None /\ run \in Runs /\ done = None /\ run.left = {} /\ run.at = "walk"
  BY Idle DEF IInv, TypeOK, Success
<1>2. UNCHANGED <<out, writes, runs, done, cut, lost>>
  BY DEF Success
<1>3. /\ run' \in Runs /\ run' # None /\ run'.at = "success"
      /\ run'.uuid = run.uuid /\ run'.md = run.md /\ run'.left = run.left
      /\ run'.found = run.found
  BY <1>1, NoneAssumption DEF Success, Runs
<1>4. TypeOK' /\ WriteInv' /\ WholeInv'
  BY <1>1, <1>2, <1>3 DEF IInv, TypeOK, WriteInv, WholeInv
<1>5. VisitInv' /\ UuidInv'
  BY <1>1, <1>2, <1>3 DEF IInv, VisitInv, UuidInv, Exists, Responsible
<1>6. FoundInv' /\ FreshInv'
  BY <1>1, <1>2, <1>3 DEF IInv, FoundInv, FreshInv
<1>7. DoneInv' /\ Complete' /\ SameUuid'
  BY <1>1, <1>2 DEF DoneInv, Complete, SameUuid
<1> QED
  BY <1>4, <1>5, <1>6, <1>7 DEF IInv

\* The directory of the protocol is there, since the repository has files for it.
LEMMA ExitKeeps ==
    ASSUME IInv, Exit
    PROVE  IInv'
<1>1. run # None /\ run \in Runs /\ run.left = {} /\ DOMAIN writes = {}
  <2>1. run # None /\ run.at = "success" /\ DOMAIN writes = {}
    BY DEF Exit
  <2> QED
    BY <2>1 DEF IInv, TypeOK, VisitInv
<1>2. run' = None /\ done' = run /\ UNCHANGED <<out, writes, runs, cut, lost>>
  BY DEF Exit
<1>3. TypeOK' /\ WriteInv' /\ WholeInv'
  BY <1>1, <1>2 DEF IInv, TypeOK, WriteInv, WholeInv
<1>4. VisitInv' /\ FoundInv' /\ FreshInv' /\ DoneInv'
  BY <1>2 DEF VisitInv, FoundInv, FreshInv, DoneInv
<1>5. ASSUME NEW e \in Entries, Responsible(e)
      PROVE  LET f == getOutput(e, run.uuid)
             IN Exists(f) /\ (out[f].whole \/ (f \in cut /\ run.md.supplement))
  BY <1>1, <1>5 DEF IInv, VisitInv
<1>6. Complete'
  <2>1. \A e \in Wanted(run) : Responsible(e)
    BY DEF Wanted, Responsible, Skipped
  <2>2. \A e \in Wanted(run) : e \in Entries
    BY DEF Wanted
  <2> QED
    BY <1>2, <1>5, <2>1, <2>2 DEF Complete, Exists, Wanted
<1>7. \A f \in DOMAIN out : out[f].uuid \in {0, run.uuid} \cup lost
  BY <1>1 DEF IInv, UuidInv
<1>8. SameUuid'
  BY <1>2, <1>7 DEF SameUuid
<1>9. UuidInv'
  <2>1. PICK e \in Entries : ~Skipped(e) /\ e.area = "pb" /\ e.in # ""
    BY EntriesAssumption DEF Skipped
  <2>2. Responsible(e)
    BY <2>1 DEF Responsible, checkExclude
  <2>3. run.uuid \in {g[1] : g \in DOMAIN out}
    <3>1. run.uuid \in Uuids
      BY <1>1 DEF Runs
    <3>2. getOutput(e, run.uuid) \in DOMAIN out
      BY <1>5, <2>2 DEF Exists
    <3>3. getOutput(e, run.uuid)[1] = run.uuid
      BY <2>1, <3>1, Writing
    <3> QED
      BY <3>2, <3>3
  <2> QED
    BY <1>2, <1>7, <2>3 DEF IInv, UuidInv
<1> QED
  BY <1>3, <1>4, <1>6, <1>8, <1>9 DEF IInv

LEMMA StopKeeps ==
    ASSUME IInv, Stop
    PROVE  IInv'
<1>1. run # None /\ run \in Runs /\ done = None
  BY Idle DEF IInv, TypeOK, Stop
<1>2. run' = None /\ DOMAIN writes' = {} /\ writes' = <<>> /\ UNCHANGED <<out, runs, done>>
  BY DEF Stop
<1>3. cut' = cut \cup {f \in DOMAIN writes : writes[f].begun}
  BY DEF Stop
<1>4. /\ lost \subseteq lost' /\ lost' \subseteq lost \cup {run.uuid}
      /\ run.uuid \in lost' \/ run.uuid \in {f[1] : f \in DOMAIN out}
  BY DEF Stop
<1>5. TypeOK'
  <2>1. run.uuid \in Uuids
    BY <1>1 DEF Runs
  <2>2. writes' \in [DOMAIN writes' -> [entry : Entries, begun : BOOLEAN]]
    BY <1>2
  <2> QED
    BY <1>2, <1>3, <1>4, <2>1, <2>2 DEF IInv, TypeOK
<1>6. WriteInv'
  BY <1>2 DEF WriteInv
<1>7. WholeInv'
  BY <1>2, <1>3 DEF IInv, WholeInv
<1>8. UuidInv'
  <2>1. \A f \in DOMAIN out : out[f].uuid \in {0, run.uuid} \cup lost
    BY <1>1 DEF IInv, UuidInv
  <2> QED
    BY <1>2, <1>4, <2>1 DEF IInv, UuidInv
<1>9. VisitInv' /\ FoundInv' /\ FreshInv' /\ DoneInv'
  BY <1>2 DEF VisitInv, FoundInv, FreshInv, DoneInv
<1>10. Complete' /\ SameUuid'
  BY <1>1, <1>2 DEF Complete, SameUuid
<1> QED
  BY <1>5, <1>6, <1>7, <1>8, <1>9, <1>10 DEF IInv
-------------------------------------------------------------------------------
(***************************************************************************)
(* Theorems.                                                               *)
(***************************************************************************)
LEMMA Inductive == Spec => []IInv
<1>1. Init => IInv
  <2>1. 0 \in 0..MaxRuns
    BY GeneratorAssumption
  <2>2. DOMAIN <<>> = {}
    OBVIOUS
  <2>3. ASSUME Init
        PROVE  TypeOK
    <3>1. /\ out \in [DOMAIN out -> [path : STRING, uuid : {0} \cup Uuids, whole : BOOLEAN]]
          /\ writes \in [DOMAIN writes -> [entry : Entries, begun : BOOLEAN]]
      BY <2>2, <2>3 DEF Init
    <3> QED
      BY <2>1, <2>2, <2>3, <3>1 DEF Init, TypeOK
  <2>4. ASSUME Init
        PROVE  /\ WriteInv /\ WholeInv /\ VisitInv /\ UuidInv /\ FoundInv /\ FreshInv
               /\ DoneInv /\ Complete /\ SameUuid
    BY <2>2, <2>4 DEF Init, WriteInv, WholeInv, VisitInv, UuidInv, FoundInv, FreshInv,
      DoneInv, Complete, SameUuid
  <2> QED
    BY <2>3, <2>4 DEF IInv
<1>2. IInv /\ [Next]_vars => IInv'
  <2> SUFFICES ASSUME IInv, [Next]_vars
               PROVE  IInv'
    OBVIOUS
  <2>1. CASE UNCHANGED vars
    BY <2>1 DEF vars, IInv, TypeOK, WriteInv, WholeInv, VisitInv, UuidInv, FoundInv, FreshInv,
      DoneInv, Complete, SameUuid, Exists, Responsible
  <2> QED
    BY <2>1, StartKeeps, VisitKeeps, BeginWriteKeeps, EndWriteKeeps, SuccessKeeps, ExitKeeps,
      StopKeeps DEF Next
<1> QED
  BY <1>1, <1>2, PTL DEF Spec

\* A run only ever writes files an entry of this repository stands for, under a
\* uuid it may have, whatever earlier runs have left: the model's types hold.
THEOREM TypeCorrect == Spec => []TypeOK
  BY Inductive, PTL DEF IInv

\* A project that was reported as written is all there, whatever was stopped
\* before it: a file may only be half written where this run was to leave alone
\* what an earlier one had not finished.
THEOREM AllThere == Spec => []Complete
  BY Inductive, PTL DEF IInv

\* What names the protocol's directory in a reported project names the one that
\* is there, or else comes from a run that was stopped before it had made it.
THEOREM OneUuid == Spec => []SameUuid
  BY Inductive, PTL DEF IInv

\* A run into an empty directory does not end with an error: it meets no file it
\* has written itself.
THEOREM NoConflict == Spec => []FreshSucceeds
<1>1. IInv => FreshSucceeds
  BY DEF IInv, FreshInv, FreshSucceeds
<1> QED
  BY <1>1, Inductive, PTL

\* To supplement leaves every file alone that the run has found, be it complete
\* or not, and with --trunc as well.
THEOREM Supplements == Spec => SupplementKeeps
<1> DEFINE Keeps == run # None /\ run.md.supplement =>
                      \A f \in run.found : Exists(f)' /\ out'[f] = out[f]
<1>1. ASSUME IInv, [Next]_vars
      PROVE  [Keeps]_<<out, run>>
  <2> SUFFICES ASSUME run # None, run.md.supplement, NEW f \in run.found
               PROVE  f \in DOMAIN out' /\ out'[f] = out[f]
    BY DEF Exists
  <2>1. f \in DOMAIN out /\ f \notin DOMAIN writes
    BY <1>1 DEF IInv, FoundInv
  <2>2. CASE out' = out
    BY <2>1, <2>2
  <2>3. ASSUME NEW g \in DOMAIN writes, NEW v, out' = Put(g, v, out)
        PROVE  f \in DOMAIN out' /\ out'[f] = out[f]
    BY <2>1, <2>3 DEF Put
  <2>4. ASSUME NEW e \in Entries, Visit(e)
        PROVE  f \in DOMAIN out' /\ out'[f] = out[f]
    <3> DEFINE g == getOutput(e, run.uuid)
               v == [path |-> e.path, uuid |-> 0, whole |-> TRUE]
    <3>1. out' = out \/ (~Kept(g) /\ out' = Put(g, v, out))
      BY <1>1, <2>4, Visiting DEF IInv
    <3> HIDE DEF g, v
    <3>2. ~Kept(g) => g # f
      BY <2>1 DEF Kept, Exists
    <3> QED
      BY <2>1, <3>1, <3>2 DEF Put
  <2>5. \A g \in DOMAIN writes : BeginWrite(g) \/ EndWrite(g) =>
          \E whole \in BOOLEAN : out' = Put(g, Content(writes[g].entry, whole), out)
    BY DEF BeginWrite, EndWrite
  <2> QED
    BY <1>1, <2>2, <2>3, <2>4, <2>5 DEF Next, vars, Start, Success, Exit, Stop
<1> QED
  BY <1>1, Inductive, PTL DEF Spec, SupplementKeeps
===============================================================================
