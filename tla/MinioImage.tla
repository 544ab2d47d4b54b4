----------------------------- MODULE MinioImage -----------------------------
(***************************************************************************)
(* s3/minio: thumbnails.  The image info of an object is cached under its   *)
(* name, the key of a thumbnail under name and size, and the thumbnail      *)
(* itself is an object named by the tag (here: the content) of its image.   *)
(***************************************************************************)
EXTENDS Naturals, FiniteSets

CONSTANTS Names, Contents, Sizes, Callers,
          Addressed,        \* the name determines the content, as under openim/data/hash
          None

VARIABLES objects,          \* name -> content
          info,             \* GetImageObjectKeyInfo: name -> tag
          thumbKey,         \* GetThumbnailKey: name, size -> tag of the key
          thumbs,           \* key of a thumbnail -> the content it was made from
          proc              \* a caller's locals

vars == <<objects, info, thumbKey, thumbs, proc>>
MayHold(n) == IF Addressed THEN {n} ELSE Contents

Idle == [pc |-> "idle", n |-> None, s |-> None, tag |-> None, img |-> None, left |-> {}]
Init == /\ objects = [n \in Names |-> None] /\ info = [n \in Names |-> None]
        /\ thumbKey = [k \in Names \X Sizes |-> None] /\ thumbs = [k \in Contents \X Sizes |-> None]
        /\ proc = [p \in Callers |-> Idle]
At(p, l) == proc[p].pc = l
Set(p, r) == proc' = [proc EXCEPT ![p] = r]
-----------------------------------------------------------------------------
(* CompleteMultipartUpload, and delObjectImageInfoKey after it. *)
CompleteMultipartUpload(p, n, c) ==
    /\ At(p, "idle") /\ c \in MayHold(n) /\ objects' = [objects EXCEPT ![n] = c]
    /\ info' = [info EXCEPT ![n] = None] /\ UNCHANGED <<thumbKey, thumbs, proc>>

(* CopyObject leaves the caches alone. *)
CopyObject(p, n) == /\ Addressed /\ At(p, "idle") /\ objects' = [objects EXCEPT ![n] = n]
                    /\ UNCHANGED <<info, thumbKey, thumbs, proc>>

(* getObjectImageInfo: the tag of the image, cached or read with it. *)
getObjectImageInfo(n) == IF info[n] # None THEN info[n] ELSE objects[n]

(* getImageThumbnailURL: the info from the cache, or with the image. *)
AccessURL(p, n, s) ==
    LET hit == info[n] # None  tag == getObjectImageInfo(n) IN
    /\ At(p, "idle") /\ tag # None
    /\ info' = [info EXCEPT ![n] = tag]
    /\ Set(p, [Idle EXCEPT !.pc = "key", !.n = n, !.s = s, !.tag = tag, !.img = IF hit THEN None ELSE tag])
    /\ UNCHANGED <<objects, thumbKey, thumbs>>

(* A cached key is the answer; else the image is read, if it is not there   *)
(* yet, and its thumbnail stored under the tag of the info.                 *)
MakeThumbnail(p) ==
    LET r == proc[p]
        img == IF r.img # None THEN r.img ELSE objects[r.n]
        hit == thumbKey[<<r.n, r.s>>] # None IN
    /\ At(p, "key")
    /\ thumbs' = IF hit \/ img = None THEN thumbs ELSE [thumbs EXCEPT ![<<r.tag, r.s>>] = img]
    /\ Set(p, IF hit \/ img = None THEN Idle ELSE [r EXCEPT !.pc = "made"])
    /\ UNCHANGED <<objects, info, thumbKey>>
CacheKey(p) == /\ At(p, "made") /\ thumbKey' = [thumbKey EXCEPT ![<<proc[p].n, proc[p].s>>] = proc[p].tag]
               /\ Set(p, Idle) /\ UNCHANGED <<objects, info, thumbs>>

(* DeleteObject: the object's tag, and the listing of its thumbnails. *)
DeleteObject(p, n) ==
    LET left == {s \in Sizes : thumbs[<<objects[n], s>>] # None} IN
    /\ At(p, "idle") /\ objects[n] # None
    /\ Set(p, [Idle EXCEPT !.pc = "clear", !.n = n, !.tag = objects[n], !.left = left])
    /\ UNCHANGED <<objects, info, thumbKey, thumbs>>

(* clearObjectImageInfoKey: for the first thumbnail the info cached under   *)
(* the tag, which is none; for each its cached key, then the thumbnail.     *)
Clear(p, s) ==
    /\ At(p, "clear") /\ s \in proc[p].left
    /\ thumbKey' = [thumbKey EXCEPT ![<<proc[p].n, s>>] = None]
    /\ thumbs' = [thumbs EXCEPT ![<<proc[p].tag, s>>] = None]
    /\ Set(p, [proc[p] EXCEPT !.left = @ \ {s}]) /\ UNCHANGED <<objects, info>>
RemoveObject(p) == /\ At(p, "clear") /\ proc[p].left = {} /\ objects' = [objects EXCEPT ![proc[p].n] = None]
                   /\ Set(p, Idle) /\ UNCHANGED <<info, thumbKey, thumbs>>

Next == \E p \in Callers :
          \/ \E n \in Names : \/ \E c \in Contents : CompleteMultipartUpload(p, n, c)
                              \/ CopyObject(p, n) \/ DeleteObject(p, n) \/ \E s \in Sizes : AccessURL(p, n, s)
          \/ MakeThumbnail(p) \/ CacheKey(p) \/ RemoveObject(p) \/ \E s \in Sizes : Clear(p, s)
Spec == Init /\ [][Next]_vars
-----------------------------------------------------------------------------
(* A cached key names a thumbnail that exists, after any sequence of        *)
(* uploads, accesses and deletions of content-addressed objects.            *)
NoDangling == \A n \in Names, s \in Sizes : thumbKey[<<n, s>>] # None => thumbs[<<thumbKey[<<n, s>>], s>>] # None

(* A thumbnail is of the image whose tag it is stored under, although info  *)
(* and image are read at different times and names are uploaded anew.  It   *)
(* holds of calls one after another; an upload between the two reads of an  *)
(* access breaks it, where names do not stand for contents.                 *)
ThumbOfTag == \A c \in Contents, s \in Sizes : thumbs[<<c, s>>] \in {None, c}
=============================================================================
