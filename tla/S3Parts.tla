------------------------------- MODULE S3Parts -------------------------------
(***************************************************************************)
(* The sizes of parts: PartSize of the five providers, which share one      *)
(* algorithm but for Kodo's, and what InitiateUpload makes of it.           *)
(***************************************************************************)
EXTENDS Integers

CONSTANTS MinPart, MaxPart, MaxNum,    \* minPartSize, maxPartSize, maxNumSize
          MaxSize, MaxParts                       \* bounds of the requests

Providers == {"minio", "cos", "oss", "aws", "kodo"}

VARIABLES request, answer
vars == <<request, answer>>

Error(why) == [err |-> why, partSize |-> 0, parts |-> 0, signed |-> 0]

(* The size spread over the largest number of parts. *)
Spread(size) == size \div MaxNum + (IF size % MaxNum # 0 THEN 1 ELSE 0)

minioPartSize(size) == IF size <= MinPart * MaxNum THEN MinPart ELSE Spread(size)
cosPartSize(size) == IF size <= MinPart * MaxNum THEN MinPart ELSE Spread(size)
ossPartSize(size) == IF size <= MinPart * MaxNum THEN MinPart ELSE Spread(size)
awsPartSize(size) == IF size <= MinPart * MaxNum THEN MinPart ELSE Spread(size)
kodoPartSize(size) == IF size <= MaxPart * MaxNum THEN MinPart ELSE Spread(size)
PartSize(p, size) == CASE p = "minio" -> minioPartSize(size) [] p = "cos" -> cosPartSize(size) [] p = "oss" -> ossPartSize(size)
                       [] p = "aws" -> awsPartSize(size) [] p = "kodo" -> kodoPartSize(size)
Sized(size) == size > 0 /\ size <= MaxPart * MaxNum

(* InitiateUpload up to the signatures: maxParts > 0 asks for that many,    *)
(* < 0 for all, 0 for none; a single part is signed with the URL.           *)
Initiate(p, size, maxParts) ==
    IF ~Sized(size) THEN Error("size")
    ELSE LET ps == PartSize(p, size)
             n == size \div ps + (IF size % ps > 0 THEN 1 ELSE 0) IN
         IF maxParts > 0 /\ n > 0 /\ n < maxParts THEN Error("too many parts")
         ELSE [err |-> "", partSize |-> ps, parts |-> n,
               signed |-> IF size <= ps THEN 1 ELSE IF maxParts < 0 THEN n ELSE maxParts]

Init == /\ request \in [p : Providers, size : 0..MaxSize, maxParts : -1..MaxParts]
        /\ answer = Error("none")
Next == answer = Error("none") /\ answer' = Initiate(request.p, request.size, request.maxParts) /\ UNCHANGED request
Spec == Init /\ [][Next]_vars
-----------------------------------------------------------------------------
Accepted == answer.err = ""

(* An upload that is accepted fits PartLimit: no part larger than MaxPart,  *)
(* no more than MaxNum of them, together the size, the last not empty. Kodo *)
(* compares with MaxPart * MaxNum and so may need more than MaxNum.         *)
PartsFit == Accepted => /\ answer.partSize \in MinPart..MaxPart
                        /\ request.p # "kodo" => answer.parts <= MaxNum
                        /\ answer.parts * answer.partSize >= request.size
                        /\ (answer.parts - 1) * answer.partSize < request.size

(* Only parts that exist are signed.                                        *)
SignedExist == Accepted => answer.signed <= answer.parts
=============================================================================
