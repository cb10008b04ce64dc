----------------------------- MODULE ArtifactStore -----------------------------
(***************************************************************************)
(* The artifact registry of one data root: immutable object files beside   *)
(* their rows in SQLite, written by several threads of the process that    *)
(* serves, and cleaned up by every process that starts.                    *)
(*                                                                         *)
(*   artifacts.py  import_stream / import_file / _commit / resolve /       *)
(*                 _verify / clean_staging / _quarantine                   *)
(*   store.py      add_artifact, artifact_usage_bytes,                     *)
(*                 artifact_relative_paths                                 *)
(*   server.py     Broker.__init__ (cleans before the host lock is tried), *)
(*                 _upload_artifact (the slots)                            *)
(*                                                                         *)
(* An import has one file, whatever its name is at the moment: os.replace  *)
(* moves it from .staging to objects, a clean-up moves it to .orphaned.    *)
(* Its bytes are "whole" (what the caller declared or validated) or        *)
(* "other" (short, altered or still being written).  `stamp` stands for    *)
(* the inode, size and times that _verification_key compares: each change  *)
(* of the bytes changes them.                                              *)
(***************************************************************************)
EXTENDS Integers, FiniteSets, Functions

CONSTANTS
  Processes,   \* broker processes started on the data root
  Handlers,    \* HTTP handler threads that receive an upload
  Executor,    \* the scheduler thread, which imports results
  Readers,     \* threads that resolve an artifact
  Imports,     \* the imports that may be begun: each has names of its own
  Size,        \* bytes of each import
  MaxStorage,  \* max_storage_bytes
  MaxUploads,  \* max_concurrent_uploads
  NoImport,    \* a thread works on no import
  MaxStamp,    \* bound: changes of the bytes of a registered object
  MaxEnds      \* bound: ends of the serving process, power losses included

Usage(S) == SumFunctionOnSet(Size, S)

ASSUME ImportsAssumption == IsFiniteSet(Imports) /\ NoImport \notin Imports
ASSUME SizeAssumption == Size \in [Imports -> Nat]
ASSUME BoundAssumption == MaxStorage \in Nat /\ MaxUploads \in Nat /\ MaxStamp \in Nat
                          /\ MaxEnds \in Nat

VARIABLES
  phase,     \* where in Broker.__init__ and serve() each process is
  todo,      \* files a clean-up listed and has not looked at yet
  known,     \* the relative paths a clean-up read from the store
  alone,     \* has no other process served while this one cleaned up
  pc,        \* where each importing thread is
  import,    \* the import it works on
  place,     \* directory the file of each import is in
  content,   \* its bytes
  stamp,     \* what stat() says of them
  rows,      \* the imports that have a row in the artifacts table
  verified,  \* _verified: the stamp under which an object's bytes were checked
  reader,    \* each reader's descriptor: import, stamp before, bytes read
  failed,    \* history: imports whose caller got an exception
  taken,     \* history: files moved by a clean-up that was not alone
  ends       \* ends of the serving process so far

cleanVars == <<phase, todo, known, alone>>
importVars == <<pc, import>>
fileVars == <<place, content, stamp>>
vars == <<cleanVars, importVars, fileVars, rows, verified, reader, failed, taken, ends>>

Threads == Handlers \cup {Executor}
Unverified == -1
Bytes == {"whole", "other"}
Places == {"none", "staging", "objects", "orphaned"}
Phases == {"down", "staging", "known", "objects", "serving"}

\* _quota_lock is held from the check of the usage to the entry in the cache.
Locked == {"admitted", "replaced", "synced", "registered"}
Steps == {"idle", "receiving", "received"} \cup Locked

Idle == [step |-> "idle", n |-> NoImport, before |-> 0, seen |-> "other"]
Readings == [step : {"idle", "opened", "hashed"}, n : Imports \cup {NoImport},
             before : Nat, seen : Bytes]

TypeOK ==
  /\ phase \in [Processes -> Phases]
  /\ todo \in [Processes -> SUBSET Imports]
  /\ known \in [Processes -> SUBSET Imports]
  /\ alone \in [Processes -> BOOLEAN]
  /\ pc \in [Threads -> Steps]
  /\ import \in [Threads -> Imports \cup {NoImport}]
  /\ \A t \in Threads : pc[t] # "idle" => import[t] \in Imports
  /\ place \in [Imports -> Places]
  /\ content \in [Imports -> Bytes]
  /\ stamp \in [Imports -> Nat]
  /\ rows \in SUBSET Imports
  /\ verified \in [Imports -> Nat \cup {Unverified}]
  /\ reader \in [Readers -> Readings]
  /\ \A r \in Readers : reader[r].step # "idle" => reader[r].n \in Imports
  /\ failed \in SUBSET Imports
  /\ taken \in SUBSET Imports
  /\ ends \in Nat

Init ==
  /\ phase = [p \in Processes |-> "down"]
  /\ todo = [p \in Processes |-> {}]
  /\ known = [p \in Processes |-> {}]
  /\ alone = [p \in Processes |-> FALSE]
  /\ pc = [t \in Threads |-> "idle"]
  /\ import = [t \in Threads |-> NoImport]
  /\ place = [n \in Imports |-> "none"]
  /\ content = [n \in Imports |-> "other"]
  /\ stamp = [n \in Imports |-> 0]
  /\ rows = {}
  /\ verified = [n \in Imports |-> Unverified]
  /\ reader = [r \in Readers |-> Idle]
  /\ failed = {}
  /\ taken = {}
  /\ ends = 0

Serving == \E p \in Processes : phase[p] = "serving"
Busy == {t \in Threads : pc[t] # "idle"}
Working(n) == \E t \in Busy : import[t] = n

--------------------------------------------------------------------------------
(* Importing *)

Goto(t, from, to) ==
  /\ pc[t] = from
  /\ pc' = [pc EXCEPT ![t] = to]

\* _upload_artifact with a free slot, or an executor with a result: the file in
\* .staging is created.
Begin(t, n) ==
  /\ Serving
  /\ Goto(t, "idle", "receiving")
  /\ t \in Handlers => Cardinality(Busy \cap Handlers) < MaxUploads
  /\ place[n] = "none"
  /\ n \notin failed
  /\ import' = [import EXCEPT ![t] = n]
  /\ place' = [place EXCEPT ![n] = "staging"]
  /\ UNCHANGED <<cleanVars, content, stamp, rows, verified, reader, failed, taken, ends>>

\* The bytes are read from the peer or the source, hashed, written and synced.
\* The stream may end early, the source may change under the copy.
Receive(t) ==
  /\ Goto(t, "receiving", "received")
  /\ \E b \in Bytes : content' = [content EXCEPT ![import[t]] = b]
  /\ UNCHANGED <<cleanVars, import, place, stamp, rows, verified, reader, failed, taken, ends>>

\* Mutant: the usage is compared before the quota lock is taken.
MutantAdmit(t) ==
  /\ Goto(t, "received", "admitted")
  /\ content[import[t]] = "whole"
  /\ Usage(rows) + Size[import[t]] <= MaxStorage
  /\ UNCHANGED <<cleanVars, import, fileVars, rows, verified, reader, failed, taken, ends>>

\* Size, hash and source are as declared, the quota lock is free, and the
\* registered bytes leave room for these.
Admit(t) ==
  /\ Goto(t, "received", "admitted")
  /\ content[import[t]] = "whole"
  /\ \A u \in Threads : pc[u] \notin Locked
  /\ Usage(rows) + Size[import[t]] <= MaxStorage
  /\ UNCHANGED <<cleanVars, import, fileVars, rows, verified, reader, failed, taken, ends>>

\* Mutant: the row is committed before the object has its name for good.
MutantReplace(t) ==
  /\ Goto(t, "admitted", "replaced")
  /\ place[import[t]] = "staging"
  /\ place' = [place EXCEPT ![import[t]] = "objects"]
  /\ rows' = rows \cup {import[t]}
  /\ UNCHANGED <<cleanVars, import, content, stamp, verified, reader, failed, taken, ends>>

\* os.replace of the staged file by its object name; it fails when a clean-up
\* has moved the file (Abort).
Replace(t) ==
  /\ Goto(t, "admitted", "replaced")
  /\ place[import[t]] = "staging"
  /\ place' = [place EXCEPT ![import[t]] = "objects"]
  /\ UNCHANGED <<cleanVars, import, content, stamp, rows, verified, reader, failed, taken, ends>>

\* fsync of the object's directory: from here on the new name survives.  That the
\* directory itself, when it is new in objects, survives is taken from the file system.
SyncDirectory(t) ==
  /\ Goto(t, "replaced", "synced")
  /\ UNCHANGED <<cleanVars, import, fileVars, rows, verified, reader, failed, taken, ends>>

\* add_artifact commits the row.
Register(t) ==
  /\ Goto(t, "synced", "registered")
  /\ rows' = rows \cup {import[t]}
  /\ UNCHANGED <<cleanVars, import, fileVars, verified, reader, failed, taken, ends>>

\* The exception of import n leaves thread t: its caller sees a failure.
Raise(t, n) ==
  /\ pc' = [pc EXCEPT ![t] = "idle"]
  /\ import' = [import EXCEPT ![t] = NoImport]
  /\ failed' = failed \cup {n}

\* add_artifact raises: the object is unlinked and nothing was registered.
RegisterFails(t) ==
  LET n == import[t]
  IN  /\ pc[t] = "synced"
      /\ place' = [place EXCEPT ![n] = IF @ = "objects" THEN "none" ELSE @]
      /\ Raise(t, n)
      /\ UNCHANGED <<cleanVars, content, stamp, rows, verified, reader, taken, ends>>

\* Anything before the row raises: a short stream, another hash, a source that
\* changed or was moved, the quota, a staged file that is gone, an I/O error.
\* What is still staged is unlinked; an object that has its name already stays.
Abort(t) ==
  LET n == import[t]
  IN  /\ pc[t] \in {"receiving", "received", "admitted", "replaced"}
      /\ place' = [place EXCEPT ![n] = IF @ = "staging" THEN "none" ELSE @]
      /\ Raise(t, n)
      /\ UNCHANGED <<cleanVars, content, stamp, rows, verified, reader, taken, ends>>

\* stat() of the object, its entry in the cache, and the answer to the caller.
Answer(t) ==
  LET n == import[t]
  IN  /\ Goto(t, "registered", "idle")
      /\ place[n] = "objects"
      /\ verified' = [verified EXCEPT ![n] = stamp[n]]
      /\ import' = [import EXCEPT ![t] = NoImport]
      /\ UNCHANGED <<cleanVars, fileVars, rows, reader, failed, taken, ends>>

\* A clean-up moved the object meanwhile: stat() raises, the row stays.
AnswerFails(t) ==
  /\ pc[t] = "registered"
  /\ place[import[t]] # "objects"
  /\ Raise(t, import[t])
  /\ UNCHANGED <<cleanVars, fileVars, rows, verified, reader, taken, ends>>

--------------------------------------------------------------------------------
(* Resolving *)

\* resolve(verify=True): the row is found, its object opened and fstat'ed.
Open(r, n) ==
  /\ Serving
  /\ reader[r].step = "idle"
  /\ n \in rows
  /\ place[n] = "objects"
  /\ reader' = [reader EXCEPT ![r] =
                  [step |-> "opened", n |-> n, before |-> stamp[n], seen |-> "other"]]
  /\ UNCHANGED <<cleanVars, importVars, fileVars, rows, verified, failed, taken, ends>>

\* The cached key is the file's: resolved without reading it.
CacheHit(r) ==
  /\ reader[r].step = "opened"
  /\ verified[reader[r].n] = reader[r].before
  /\ reader' = [reader EXCEPT ![r] = Idle]
  /\ UNCHANGED <<cleanVars, importVars, fileVars, rows, verified, failed, taken, ends>>

\* The cached key is another one: the file is read and hashed.
Hash(r) ==
  /\ reader[r].step = "opened"
  /\ verified[reader[r].n] # reader[r].before
  /\ reader' = [reader EXCEPT ![r] =
                  [@ EXCEPT !.step = "hashed", !.seen = content[reader[r].n]]]
  /\ UNCHANGED <<cleanVars, importVars, fileVars, rows, verified, failed, taken, ends>>

\* Mutant: the file's state before the reading is forgotten.
MutantConclude(r) ==
  LET n == reader[r].n
  IN  /\ reader[r].step = "hashed"
      /\ verified' = IF reader[r].seen = "whole"
                       THEN [verified EXCEPT ![n] = stamp[n]] ELSE verified
      /\ reader' = [reader EXCEPT ![r] = Idle]
      /\ UNCHANGED <<cleanVars, importVars, fileVars, rows, failed, taken, ends>>

\* fstat again: the file did not change while it was read and its hash is the
\* registered one, so its key is cached; otherwise ArtifactIntegrityError.
Conclude(r) ==
  LET n == reader[r].n
      intact == stamp[n] = reader[r].before /\ reader[r].seen = "whole"
  IN  /\ reader[r].step = "hashed"
      /\ verified' = IF intact THEN [verified EXCEPT ![n] = stamp[n]] ELSE verified
      /\ reader' = [reader EXCEPT ![r] = Idle]
      /\ UNCHANGED <<cleanVars, importVars, fileVars, rows, failed, taken, ends>>

\* Somebody writes to a registered object, or repairs it.  No one else writes
\* to a file whose import has not returned.
Change(n) ==
  /\ n \in rows
  /\ ~Working(n)
  /\ stamp[n] < MaxStamp
  /\ stamp' = [stamp EXCEPT ![n] = @ + 1]
  /\ \E b \in Bytes : content' = [content EXCEPT ![n] = b]
  /\ UNCHANGED <<cleanVars, importVars, place, rows, verified, reader, failed, taken, ends>>

--------------------------------------------------------------------------------
(* Starting and ending *)

\* Broker.__init__: clean_staging lists .staging, whoever else may be running.
Construct(p) ==
  /\ phase[p] = "down"
  /\ phase' = [phase EXCEPT ![p] = "staging"]
  /\ todo' = [todo EXCEPT ![p] = {n \in Imports : place[n] = "staging"}]
  /\ alone' = [alone EXCEPT ![p] = ~Serving]
  /\ UNCHANGED <<known, importVars, fileVars, rows, verified, reader, failed, taken, ends>>

\* _quarantine: the file listed is moved below .orphaned; one that left its
\* place since it was listed is skipped.
Quarantine(p, n, from) ==
  /\ n \in todo[p]
  /\ todo' = [todo EXCEPT ![p] = @ \ {n}]
  /\ place' = [place EXCEPT ![n] = IF @ = from THEN "orphaned" ELSE @]
  /\ taken' = IF place[n] = from /\ ~alone[p] THEN taken \cup {n} ELSE taken
  /\ UNCHANGED <<phase, known, alone, importVars, content, stamp, rows, verified,
                 reader, failed, ends>>

\* Mutant: the pass over .staging leaves the files of a dead process there.
MutantQuarantineStaged(p, n) ==
  /\ phase[p] = "staging"
  /\ n \in todo[p]
  /\ todo' = [todo EXCEPT ![p] = {}]
  /\ UNCHANGED <<phase, known, alone, importVars, fileVars, rows, verified, reader,
                 failed, taken, ends>>

QuarantineStaged(p, n) == phase[p] = "staging" /\ Quarantine(p, n, "staging")

\* The rows' paths are read after the pass over .staging ...
ReadKnown(p) ==
  /\ phase[p] = "staging"
  /\ todo[p] = {}
  /\ phase' = [phase EXCEPT ![p] = "known"]
  /\ known' = [known EXCEPT ![p] = rows]
  /\ UNCHANGED <<todo, alone, importVars, fileVars, rows, verified, reader, failed, taken, ends>>

\* Mutant: every object without a row in this process's view is listed, and the
\* view is the one of its cache.
MutantListObjects(p) ==
  /\ phase[p] = "known"
  /\ phase' = [phase EXCEPT ![p] = "objects"]
  /\ todo' = [todo EXCEPT ![p] =
                {n \in Imports : place[n] = "objects" /\ verified[n] = Unverified}]
  /\ known' = [known EXCEPT ![p] = {}]
  /\ UNCHANGED <<alone, importVars, fileVars, rows, verified, reader, failed, taken, ends>>

\* ... and the objects are listed after that: those not known are to go.
ListObjects(p) ==
  /\ phase[p] = "known"
  /\ phase' = [phase EXCEPT ![p] = "objects"]
  /\ todo' = [todo EXCEPT ![p] = {n \in Imports \ known[p] : place[n] = "objects"}]
  /\ known' = [known EXCEPT ![p] = {}]
  /\ UNCHANGED <<alone, importVars, fileVars, rows, verified, reader, failed, taken, ends>>

QuarantineObject(p, n) == phase[p] = "objects" /\ Quarantine(p, n, "objects")

\* The host lock is free: the process serves, its cache empty.
Serve(p) ==
  /\ phase[p] = "objects"
  /\ todo[p] = {}
  /\ ~Serving
  /\ phase' = [phase EXCEPT ![p] = "serving"]
  /\ alone' = [q \in Processes |-> q = p /\ alone[p]]
  /\ verified' = [n \in Imports |-> Unverified]
  /\ UNCHANGED <<todo, known, importVars, fileVars, rows, reader, failed, taken, ends>>

\* The host lock is taken, a file vanished between is_file and os.replace, or
\* anything else ends a process that does not serve yet.
StartFails(p) ==
  /\ phase[p] \in {"staging", "known", "objects"}
  /\ phase' = [phase EXCEPT ![p] = "down"]
  /\ todo' = [todo EXCEPT ![p] = {}]
  /\ known' = [known EXCEPT ![p] = {}]
  /\ alone' = [alone EXCEPT ![p] = FALSE]
  /\ UNCHANGED <<importVars, fileVars, rows, verified, reader,
                 failed, taken, ends>>

\* The threads and the cache of the serving process are gone.
ThreadsEnd ==
  /\ ends < MaxEnds
  /\ ends' = ends + 1
  /\ pc' = [t \in Threads |-> "idle"]
  /\ import' = [t \in Threads |-> NoImport]
  /\ reader' = [r \in Readers |-> Idle]
  /\ verified' = [n \in Imports |-> Unverified]
  /\ UNCHANGED <<content, stamp, rows, failed, taken>>

\* The serving process stops or dies wherever its threads are.  The lock is taken to
\* go with them: a stopping broker unlocks some moments before its daemon handlers end.
End(p) ==
  /\ phase[p] = "serving"
  /\ phase' = [phase EXCEPT ![p] = "down"]
  /\ alone' = [alone EXCEPT ![p] = FALSE]
  /\ ThreadsEnd
  /\ UNCHANGED <<todo, known, place>>

\* Every process dies, and a file that took its object name without the sync of
\* the directory may be back in .staging.
PowerLoss ==
  /\ phase' = [p \in Processes |-> "down"]
  /\ todo' = [p \in Processes |-> {}]
  /\ known' = [p \in Processes |-> {}]
  /\ alone' = [p \in Processes |-> FALSE]
  /\ ThreadsEnd
  /\ \E undone \in SUBSET {t \in Threads : pc[t] = "replaced"} :
       place' = [n \in Imports |->
                   IF place[n] = "objects" /\ \E t \in undone : import[t] = n
                     THEN "staging" ELSE place[n]]

--------------------------------------------------------------------------------

ThreadNext(t) ==
  \/ \E n \in Imports : Begin(t, n)
  \/ Receive(t)
  \/ Admit(t)
  \/ Replace(t)
  \/ SyncDirectory(t)
  \/ Register(t)
  \/ RegisterFails(t)
  \/ Abort(t)
  \/ Answer(t)
  \/ AnswerFails(t)

ReaderNext(r) ==
  \/ \E n \in Imports : Open(r, n)
  \/ CacheHit(r)
  \/ Hash(r)
  \/ Conclude(r)

ProcessNext(p) ==
  \/ Construct(p)
  \/ \E n \in Imports : QuarantineStaged(p, n) \/ QuarantineObject(p, n)
  \/ ReadKnown(p)
  \/ ListObjects(p)
  \/ Serve(p)
  \/ StartFails(p)
  \/ End(p)

Next ==
  \/ \E t \in Threads : ThreadNext(t)
  \/ \E r \in Readers : ReaderNext(r)
  \/ \E p \in Processes : ProcessNext(p)
  \/ \E n \in Imports : Change(n)
  \/ PowerLoss

Spec == Init /\ [][Next]_vars

--------------------------------------------------------------------------------
(* Properties *)

\* The registered bytes never exceed max_storage_bytes, however many threads
\* import at once: nobody else adds a row between the check and the insertion.
QuotaHeld == Usage(rows) <= MaxStorage

\* A row has its object file, through every failure, crash, loss of power and
\* clean-up of a restart; only a process started beside the serving one may
\* have moved it away, as it cleans up before it finds the host lock taken.
RegisteredHasFile == \A n \in rows : place[n] = "objects" \/ n \in taken

\* What the cache lets resolve() answer without reading the file is right: as
\* long as the file is the one that was verified, its bytes are the registered
\* ones, although objects are changed and repaired while they are hashed.
CacheIsTrue == \A n \in rows : verified[n] = stamp[n] => content[n] = "whole"

\* An import whose caller got an exception registered nothing, unless the
\* object was taken away between the commit of its row and stat().
FailedIsUnregistered == failed \cap rows \subseteq taken

\* A process that cleaned up alone serves a swept data root: a staged file
\* belongs to an import in progress, and an object without a row to one that is
\* in progress or failed at the sync of the directory.
Swept ==
  \A p \in Processes, n \in Imports :
    /\ phase[p] = "serving"
    /\ alone[p]
    /\ \/ place[n] = "staging"
       \/ place[n] = "objects" /\ n \notin rows
    => Working(n) \/ n \in failed
================================================================================
