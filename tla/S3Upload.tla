------------------------------ MODULE S3Upload ------------------------------
(***************************************************************************)
(* s3/cont: uploads addressed by the hash of their content.  A small object *)
(* is put to a temporary key by the client and copied to its hash key on    *)
(* CompleteUpload, a large one is a multipart upload straight to the hash   *)
(* key.  Content is modelled by its hash; a call to the object store or to  *)
(* the cache of its answers is one step.                                    *)
(***************************************************************************)
EXTENDS Naturals, FiniteSets

CONSTANTS Contents, Large,      \* what may be uploaded, and what needs several parts
          Uploads, Calls,       \* upload ids; concurrent calls of CompleteUpload
          Copies,               \* fresh UUIDs
          Faults,               \* deleting and the cache may fail
          MaxDeletes, None

HashPath(h) == <<"hash", h>>
TempPath(u) == <<"temp", u>>
CopyPath(k) == <<"copy", k>>
Keys == {HashPath(h) : h \in Contents} \cup {TempPath(u) : u \in Uploads} \cup {CopyPath(k) : k \in Copies}

VARIABLES store,        \* key -> content
          cache,        \* S3Cache: key -> the content it was found with
          upload,       \* upload id -> its hash, None before InitiateUpload
          parts,        \* multipart upload -> the content of its parts, None once completed
          call,         \* CompleteUpload's locals
          deletes

vars == <<store, cache, upload, parts, call, deletes>>

Idle == [pc |-> "idle", u |-> None, etag |-> None, copy |-> None, ok |-> FALSE]
Init == /\ store = [k \in Keys |-> None] /\ cache = [k \in Keys |-> None]
        /\ upload = [u \in Uploads |-> None] /\ parts = [u \in Uploads |-> None]
        /\ call = [c \in Calls |-> Idle] /\ deletes = 0
-----------------------------------------------------------------------------
(* StatObject: through the cache, which keeps what was found. *)
StatObject(k) == IF cache[k] # None THEN cache[k] ELSE store[k]
Cached(k) == cache' = [cache EXCEPT ![k] = StatObject(k)]
Expire(k) == cache[k] # None /\ cache' = [cache EXCEPT ![k] = None] /\ UNCHANGED <<store, upload, parts, call, deletes>>

(* InitiateUpload: refused when the hash is there. *)
InitiateUpload(u, h) ==
    /\ upload[u] = None /\ Cached(HashPath(h))
    /\ upload' = IF StatObject(HashPath(h)) = None THEN [upload EXCEPT ![u] = h] ELSE upload
    /\ UNCHANGED <<store, parts, call, deletes>>

(* The client puts whatever it likes, as often as it likes. *)
ClientPut(u, c) == /\ upload[u] \in Contents \ Large /\ store[TempPath(u)] # c
                   /\ store' = [store EXCEPT ![TempPath(u)] = c] /\ UNCHANGED <<cache, upload, parts, call, deletes>>
ClientParts(u, c) == /\ upload[u] \in Large /\ parts[u] # c
                     /\ parts' = [parts EXCEPT ![u] = c] /\ UNCHANGED <<store, cache, upload, call, deletes>>

At(c, l) == call[c].pc = l
Set(c, r) == call' = [call EXCEPT ![c] = r]
Goto(c, l) == Set(c, [call[c] EXCEPT !.pc = l])

(* CompleteUpload, past the check of the hash of the part hashes: an object *)
(* that is there is the answer.                                             *)
Complete(c, u) ==
    /\ At(c, "idle") /\ upload[u] # None /\ Cached(HashPath(upload[u]))
    /\ LET found == StatObject(HashPath(upload[u])) # None IN
       Set(c, [Idle EXCEPT !.u = u, !.ok = found,
               !.pc = IF found THEN "return" ELSE IF upload[u] \in Large THEN "multipart" ELSE "stat"])
    /\ UNCHANGED <<store, upload, parts, deletes>>

(* The provider's CompleteMultipartUpload checks the tags of the parts. *)
CompleteMultipart(c) ==
    LET u == call[c].u  fits == parts[u] = upload[u] IN
    /\ At(c, "multipart") /\ Goto(c, IF fits THEN "uncache" ELSE "return")
    /\ store' = IF fits THEN [store EXCEPT ![HashPath(upload[u])] = parts[u]] ELSE store
    /\ parts' = IF fits THEN [parts EXCEPT ![u] = None] ELSE parts
    /\ UNCHANGED <<cache, upload, deletes>>

(* The temporary object by the cache's answer: its size and tag must fit. *)
StatTemp(c) ==
    LET u == call[c].u  etag == StatObject(TempPath(u)) IN
    /\ At(c, "stat") /\ Cached(TempPath(u))
    /\ Set(c, [call[c] EXCEPT !.etag = etag, !.pc = IF etag = None THEN "return" ELSE IF etag = upload[u] THEN "copy" ELSE "clean"])
    /\ UNCHANGED <<store, upload, parts, deletes>>

(* The faulty variant: the tag of the copy is not compared. *)
CopyUnchecked(c) ==
    \E k \in Copies : LET content == store[TempPath(call[c].u)] IN
    /\ At(c, "copy") /\ store[CopyPath(k)] = None /\ \A d \in Calls : call[d].copy # k
    /\ store' = [store EXCEPT ![CopyPath(k)] = content]
    /\ Set(c, [call[c] EXCEPT !.copy = IF content = None THEN None ELSE k, !.pc = IF content = None THEN "clean" ELSE "publish"])
    /\ UNCHANGED <<cache, upload, parts, deletes>>

(* "Prevents concurrent operations at this time that cause files to be      *)
(* overwritten": the object is copied to a key of this call's own first.    *)
Copy(c) ==
    \E k \in Copies : LET content == store[TempPath(call[c].u)] IN
    /\ At(c, "copy") /\ store[CopyPath(k)] = None /\ \A d \in Calls : call[d].copy # k
    /\ store' = [store EXCEPT ![CopyPath(k)] = content]
    /\ Set(c, [call[c] EXCEPT !.copy = IF content = None THEN None ELSE k,
                              !.pc = IF content # None /\ content = call[c].etag THEN "publish" ELSE "clean"])
    /\ UNCHANGED <<cache, upload, parts, deletes>>

(* The copy to the hash key; when the store fails the call cleans up. *)
Publish(c) ==
    /\ At(c, "publish")
    /\ \/ store' = [store EXCEPT ![HashPath(upload[call[c].u])] = store[CopyPath(call[c].copy)]] /\ Goto(c, "uncache")
       \/ Faults /\ Goto(c, "clean") /\ UNCHANGED store
    /\ UNCHANGED <<cache, upload, parts, deletes>>

(* DelS3Key of the hash key; its failure is the call's, whatever was done. *)
Uncache(c) ==
    LET h == HashPath(upload[call[c].u]) IN
    /\ At(c, "uncache")
    /\ \/ cache' = [cache EXCEPT ![h] = None] /\ Set(c, [call[c] EXCEPT !.pc = "clean", !.ok = TRUE])
       \/ Faults /\ Goto(c, "clean") /\ UNCHANGED cache
    /\ UNCHANGED <<store, upload, parts, deletes>>

(* The deferred DeleteObject of every key in cleanObject; failures ignored. *)
Clean(c) ==
    LET keys == (IF call[c].etag = None THEN {} ELSE {TempPath(call[c].u)}) \cup {CopyPath(k) : k \in {call[c].copy} \ {None}} IN
    /\ At(c, "clean") /\ Goto(c, "return")
    /\ \E gone \in (IF Faults THEN SUBSET keys ELSE {keys}) : store' = [k \in Keys |-> IF k \in gone THEN None ELSE store[k]]
    /\ UNCHANGED <<cache, upload, parts, deletes>>

Return(c) == At(c, "return") /\ Set(c, Idle) /\ UNCHANGED <<store, cache, upload, parts, deletes>>

(* Controller.DeleteObject passes on to the store; the cache stays. *)
DeleteObject(h) == /\ deletes < MaxDeletes /\ deletes' = deletes + 1
                   /\ store' = [store EXCEPT ![HashPath(h)] = None] /\ UNCHANGED <<cache, upload, parts, call>>

Client(u) == \E h \in Contents : InitiateUpload(u, h) \/ ClientPut(u, h) \/ ClientParts(u, h)
Step(c) == \/ CompleteMultipart(c) \/ StatTemp(c) \/ Copy(c) \/ Publish(c) \/ Uncache(c) \/ Clean(c) \/ Return(c)
Next == \/ \E u \in Uploads : Client(u) \/ (\E c \in Calls : Complete(c, u))
        \/ \E c \in Calls : Step(c)
        \/ \E k \in Keys : Expire(k)
        \/ \E h \in Contents : DeleteObject(h)
Spec == Init /\ [][Next]_vars
-----------------------------------------------------------------------------
(* What is stored under a hash has that hash, although clients overwrite    *)
(* the temporary object at any time and the cache answers for an older one. *)
HashIntegrity == \A h \in Contents : store[HashPath(h)] \in {None, h}

(* A call that returns success leaves the object in the store, unless it    *)
(* was deleted since: neither the cache nor a second call makes it a lie.   *)
SuccessIsStored == \A c \in Calls : call[c].ok /\ deletes = 0 => store[HashPath(upload[call[c].u])] = upload[call[c].u]

(* The copies go with the calls that made them.                             *)
NoLeftovers == ~Faults => \A k \in Copies : store[CopyPath(k)] # None => \E c \in Calls : call[c].copy = k
=============================================================================
