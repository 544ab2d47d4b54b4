----------------------------- MODULE RotateLogs -----------------------------
(***************************************************************************)
(* log/file-rotatelogs: a log file per period, generations within it by     *)
(* size or on demand, and the purge of old files by age or by number, by a  *)
(* goroutine of its own.  A file is named by its period and generation.     *)
(* The mutex makes Write, Rotate and Close one step each.                   *)
(***************************************************************************)
EXTENDS Integers, Sequences, SequencesExt, FiniteSets

(* One of MaxAge and RotationCount is set: New gives MaxAge a default and   *)
(* refuses both.                                                            *)
CONSTANTS RotationTime, RotationSize, RotationCount, MaxAge,   \* 0: not set
          ForceNewFile, Linked,
          Failing,          \* rotateNolock may fail: its link cannot be made
          MaxTime, MaxGen, MaxRestarts

VARIABLES now,
          files,            \* name -> its mtime and its size
          curBaseFn, curFn, generation, outFh,
          link,             \* what the symlink names
          locks,            \* lock files
          toUnlink,         \* what the purging goroutines have yet to remove
          order,            \* history: the files in the order of their creation
          restarts

rl == <<curBaseFn, curFn, generation, outFh>>
vars == <<now, files, rl, link, locks, toUnlink, order, restarts>>

NoFile == [period |-> -1, gen |-> 0]
NoBase == -1

New == /\ curBaseFn = NoBase /\ curFn = NoFile /\ generation = 0 /\ outFh = NoFile
Init == /\ New /\ now = 0 /\ files = <<>> /\ link = NoFile /\ locks = {} /\ toUnlink = {}
        /\ order = <<>> /\ restarts = 0
-----------------------------------------------------------------------------
(* GenerateFn: the time truncated to the rotation time. *)
Period == IF RotationTime = 0 THEN now ELSE now \div RotationTime
Exists(f) == f \in DOMAIN files
Upd(fn, k, v) == [x \in DOMAIN fn \cup {k} |-> IF x = k THEN v ELSE fn[x]]
Without(fn, ks) == [x \in DOMAIN fn \ ks |-> fn[x]]

(* Glob sorts by name: no suffix, then .1, .10, .11, .2 and so on. *)
SuffixKey(g) == IF g = 0 THEN 0 ELSE IF g < 10 THEN 11 * g ELSE 11 * (g \div 10) + 1 + (g % 10)
NameLess(f, h) == f.period < h.period \/ (f.period = h.period /\ SuffixKey(f.gen) < SuffixKey(h.gen))

(* CreateFile opens for appending: an old file keeps its time. *)
CreateFile(f) == IF Exists(f) THEN files ELSE Upd(files, f, [mtime |-> now, size |-> 0])
Appeared(f) == IF Exists(f) THEN order ELSE Append(order, f)

AllButLast(n, fs) == {f \in fs : Cardinality({h \in fs : NameLess(f, h)}) >= n}
(* The faulty variant: files are removed a tick too soon. *)
PurgeYoung(fs) == {f \in DOMAIN fs : fs[f].mtime <= now - MaxAge + 1 /\ fs[f].mtime < now}

(* What rotateNolock finds to remove: by age, or all but the last by name. *)
Purge(fs) == IF MaxAge > 0 THEN {f \in DOMAIN fs : fs[f].mtime <= now - MaxAge}
             ELSE AllButLast(RotationCount, DOMAIN fs)

(* rotateNolock(f): under a lock file of its own, the link, then the purge. *)
rotateNolock(f, fs, fails) ==
    IF fails \/ f \in locks
    THEN UNCHANGED <<link, toUnlink>>
    ELSE /\ link' = IF Linked THEN f ELSE link
         /\ toUnlink' = toUnlink \cup Purge(fs)

(* The first generation from g on whose name is free. *)
FreeGen(p, g) == CHOOSE n \in g..(MaxGen + 1) : ~Exists([period |-> p, gen |-> n])
                    /\ \A m \in g..(n - 1) : Exists([period |-> p, gen |-> m])

SizeRotation == curFn # NoFile /\ Exists(curFn) /\ RotationSize > 0 /\ RotationSize <= files[curFn].size
Stays(useGen) == Period = curBaseFn /\ ~useGen /\ ~SizeRotation
(* The name that getWriterNolock opens when it does not stay. *)
NextFile(useGen) ==
    LET gen == IF Period # curBaseFn THEN 0 ELSE generation + 1
        force == SizeRotation \/ (IF Period # curBaseFn THEN ForceNewFile ELSE TRUE) IN
    [period |-> Period, gen |-> IF force THEN FreeGen(Period, gen) ELSE gen]

Grown(fs, f) == IF f \in DOMAIN fs THEN [fs EXCEPT ![f].mtime = now, ![f].size = IF @ < RotationSize THEN @ + 1 ELSE @] ELSE fs

(* The rest of getWriterNolock: open, rotate, and make f the current file. *)
Switch(f, fails) ==
    /\ f.gen <= MaxGen /\ order' = Appeared(f) /\ rotateNolock(f, CreateFile(f), fails)
    /\ curBaseFn' = Period /\ curFn' = f /\ generation' = f.gen /\ outFh' = f

(* getWriterNolock, and what is written to the file it returns.  The error  *)
(* of rotateNolock is compared with a fresh one and so never reported.      *)
Write ==
    /\ IF Stays(FALSE)
       THEN files' = Grown(files, outFh) /\ UNCHANGED <<rl, link, toUnlink, order>>
       ELSE \E fails \in {FALSE, Failing} : LET f == NextFile(FALSE) IN
            Switch(f, fails) /\ files' = Grown(CreateFile(f), f)
    /\ UNCHANGED <<now, locks, restarts>>

(* The file cannot be created: Write and Rotate return the error. *)
CreateFails == Failing /\ ~Stays(FALSE) /\ UNCHANGED vars

(* Rotate: bails out on a failed rotation, if it were ever recognised. *)
Rotate ==
    \E fails \in {FALSE, Failing} : LET f == NextFile(TRUE) IN
    /\ Switch(f, fails) /\ files' = CreateFile(f)
    /\ UNCHANGED <<now, locks, restarts>>

Close == outFh # NoFile /\ outFh' = NoFile /\ UNCHANGED <<now, files, curBaseFn, curFn, generation, link, locks, toUnlink, order, restarts>>

(* The purging goroutine removes its next file. *)
Unlink(f) == /\ f \in toUnlink /\ toUnlink' = toUnlink \ {f} /\ files' = Without(files, {f}) /\ order' = SelectSeq(order, LAMBDA h : h # f)
             /\ UNCHANGED <<now, rl, link, locks, restarts>>

(* The process ends, in the middle of a rotation perhaps, and starts anew. *)
Restart == /\ restarts < MaxRestarts /\ restarts' = restarts + 1
           /\ curBaseFn' = NoBase /\ curFn' = NoFile /\ generation' = 0 /\ outFh' = NoFile
           /\ toUnlink' = {}
           /\ locks' \in {locks} \cup (IF curFn = NoFile THEN {} ELSE {locks \cup {curFn}})
           /\ UNCHANGED <<now, files, link, order>>

Tick == now < MaxTime /\ now' = now + 1 /\ UNCHANGED <<files, rl, link, locks, toUnlink, order, restarts>>

Next == Write \/ CreateFails \/ Rotate \/ Close \/ (\E f \in toUnlink : Unlink(f)) \/ Restart \/ Tick
Spec == Init /\ [][Next]_vars
-----------------------------------------------------------------------------
(* The file that is written to is in the directory, and no goroutine is     *)
(* about to take it away.                                                   *)
CurrentKept == outFh # NoFile => Exists(outFh) /\ outFh \notin toUnlink

(* A file is removed only when nothing has been written to it for MaxAge,   *)
(* though the goroutine acts on what an earlier listing said.               *)
RemovedAreOld == \A f \in DOMAIN files \ DOMAIN files' : now - files[f].mtime >= MaxAge

(* "Purge logs except latest 7 files": a removed file is not one of the     *)
(* latest RotationCount.                                                    *)
RemovedAreExcess == \A i \in DOMAIN order : order[i] \notin DOMAIN files' => Len(order) - i >= RotationCount

(* When the goroutines are done no more than RotationCount files are left,  *)
(* but for rotations that met a stale lock or failed.                       *)
CountKept == toUnlink = {} /\ outFh # NoFile => Cardinality(DOMAIN files) <= RotationCount

(* The link follows the writer.                                             *)
LinkFollows == Linked /\ outFh # NoFile => link = outFh
=============================================================================
