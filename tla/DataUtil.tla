------------------------------- MODULE DataUtil -------------------------------
(***************************************************************************)
(* utils/datautil: the functions on slices and maps, as operators.  A slice *)
(* is a sequence (Go index i is position i + 1), a map a function; what     *)
(* ranges over a map yields a set, for its order is arbitrary.  The state   *)
(* is a pair of slices that grow: every pair up to MaxLen is visited and    *)
(* the operators are compared with what they stand for.                     *)
(***************************************************************************)
EXTENDS Integers, Sequences, FiniteSets, Bags

CONSTANTS Elems,    \* integers
          MaxLen    \* of a slice, at most

VARIABLES a, b

vars == <<a, b>>

X == INSTANCE SequencesExt
B == INSTANCE BagsExt

Id == [e \in Elems |-> e]
(* A key that tells some elements apart and some not. *)
Key == [e \in Elems |-> e % 2]
(* How often every element occurs. *)
Bag(s) == X!FoldLeft(LAMBDA g, e : B!BagAdd(g, e), EmptyBag, s)
In(e, s) == \E n \in DOMAIN s : s[n] = e

IndexAny(e, es, fn) ==
    IF \E n \in DOMAIN es : fn[es[n]] = fn[e]
    THEN (CHOOSE n \in DOMAIN es : fn[es[n]] = fn[e] /\ \A m \in 1..(n - 1) : fn[es[m]] # fn[e]) - 1
    ELSE -1
IndexOf(e, es) == IndexAny(e, es, Id)
Contain(e, es) == IndexOf(e, es) >= 0
Slice(es, fn) == [n \in DOMAIN es |-> fn[es[n]]]
Flatten(ss) == X!FoldLeft(LAMBDA r, s : r \o s, <<>>, ss)

(* The faulty variant: the elements are compared, not their keys. *)
DistinctAnyByValue(es, fn) ==
    X!FoldLeft(LAMBDA v, e : IF \E n \in DOMAIN v : v[n] = e THEN v ELSE Append(v, e), <<>>, es)

DistinctAny(es, fn) ==
    X!FoldLeft(LAMBDA v, e : IF \E n \in DOMAIN v : fn[v[n]] = fn[e] THEN v ELSE Append(v, e),
               <<>>, es)

DistinctAnyGetComparable(es, fn) ==
    X!FoldLeft(LAMBDA v, e : IF \E n \in DOMAIN v : v[n] = fn[e] THEN v ELSE Append(v, fn[e]),
               <<>>, es)

Distinct(ts) ==
    CASE Len(ts) < 2 -> ts
      [] Len(ts) = 2 -> IF ts[1] = ts[2] THEN SubSeq(ts, 1, 1) ELSE ts
      [] OTHER -> DistinctAny(ts, Id)

DuplicateAny(es, fn) == \E n \in DOMAIN es, m \in DOMAIN es : m < n /\ fn[es[m]] = fn[es[n]]
Duplicate(es) == DuplicateAny(es, Id)

(* Nothing to subtract returns the slice as it is. *)
SliceSubFuncs(s, t, fna, fnb) ==
    IF t = <<>> THEN s
    ELSE DistinctAny(SelectSeq(s, LAMBDA e : ~\E n \in DOMAIN t : fnb[t[n]] = fna[e]), fna)
SliceSubFunc(s, t, fn) == SliceSubFuncs(s, t, fn, fn)
SliceSub(s, t) == SliceSubFunc(s, t, Id)
SliceSubAny(s, t, fn) == SliceSub(s, Slice(t, fn))
SliceSubConvertPre(s, t, fn) == SliceSubFuncs(s, t, fn, Id)
SliceAnySub(s, t, fn) == SelectSeq(s, LAMBDA e : ~\E n \in DOMAIN t : fn[t[n]] = fn[e])

(* The test on the elements taken compares the only value of struct{} with  *)
(* itself: it is true of every element.                                     *)
SliceIntersectFuncs(s, t, fna, fnb) ==
    SelectSeq(s, LAMBDA e : \E n \in DOMAIN t : fnb[t[n]] = fna[e])
-----------------------------------------------------------------------------
(* The places to delete: a negative index counts from the end. *)
DeletePositions(es, index) ==
    {IF index[n] < 0 THEN Len(es) + index[n] ELSE index[n] : n \in DOMAIN index}

(* One index below -len(es) panics: it is not an input. *)
Delete(es, index) ==
    LET at == DeletePositions(es, index) IN
    CASE index = <<>> -> es
      [] Len(index) = 1 -> LET i == CHOOSE i \in at : TRUE IN
            IF Len(es) <= i THEN es ELSE SubSeq(es, 1, i) \o SubSeq(es, i + 2, Len(es))
      [] OTHER -> LET Keep == {n \in DOMAIN es : n - 1 \notin at} IN
            [n \in 1..Cardinality(Keep) |->
                es[CHOOSE m \in Keep : Cardinality({l \in Keep : l <= m}) = n]]

(* One value deletes its first occurrence, several as many as they are. *)
DeleteElems(es, del) ==
    LET Step(r, e) == IF In(e, r.del) THEN [r EXCEPT !.del = Delete(@, <<IndexOf(e, @)>>)]
                                      ELSE [r EXCEPT !.res = Append(@, e)]
    IN CASE del = <<>> -> es
         [] Len(del) = 1 -> IF In(del[1], es) THEN Delete(es, <<IndexOf(del[1], es)>>) ELSE es
         [] OTHER -> X!FoldLeft(Step, [res |-> <<>>, del |-> del], es).res

SliceToMapOkAny(es, fn) ==
    LET Ok == {n \in DOMAIN es : fn[es[n]][3]}
    IN [k \in {fn[es[n]][1] : n \in Ok} |->
          LET last == CHOOSE n \in Ok : /\ fn[es[n]][1] = k
                                        /\ \A m \in Ok : fn[es[m]][1] = k => m <= n
          IN fn[es[last]][2]]
SliceToMap(es, fn) == SliceToMapOkAny(es, [e \in DOMAIN fn |-> <<fn[e], e, TRUE>>])
SliceSet(es) == DOMAIN SliceToMap(es, Id)
Contains(s, t) == \E n \in DOMAIN t : t[n] \in DOMAIN SliceToMap(s, Id)
-----------------------------------------------------------------------------
Paginate(es, pageNumber, showNumber) ==
    LET start == (pageNumber - 1) * showNumber
        end == start + showNumber
    IN IF pageNumber <= 0 \/ showNumber <= 0 \/ start >= Len(es) THEN <<>>
       ELSE SubSeq(es, start + 1, IF end > Len(es) THEN Len(es) ELSE end)

(* The keys of the smallest slice that every other has. *)
BothExistAny(ss, fn) ==
    IF ss = <<>> \/ \E n \in DOMAIN ss : ss[n] = <<>> THEN {}
    ELSE LET ei == [n \in DOMAIN ss |-> SliceSet(Slice(ss[n], fn))]
             idx == CHOOSE n \in DOMAIN ss : \A m \in DOMAIN ss :
                        Cardinality(ei[n]) < Cardinality(ei[m])
                        \/ (Cardinality(ei[n]) = Cardinality(ei[m]) /\ n <= m)
         IN {k \in ei[idx] : \A n \in DOMAIN ss \ {idx} : k \in ei[n]}

Single(s, t) ==
    LET kn == Bag(Distinct(s)) (+) Bag(Distinct(t)) IN {k \in DOMAIN kn : kn[k] = 1}
Complete(s, t) == Single(s, t) = {}

(* Order: the groups of es first, the others in any order of their keys.    *)
Order(es, ts, fn) ==
    IF es = <<>> \/ ts = <<>> THEN {ts}
    ELSE LET kv == [k \in Elems |-> SelectSeq(ts, LAMBDA t : fn[t] = k)]
             left == {fn[ts[n]] : n \in DOMAIN ts} \ X!ToSet(es)
         IN {Flatten(Slice(DistinctAny(es, Id), kv)) \o Flatten(Slice(p, kv)) : p \in X!SetToSeqs(left)}

(* Min and Max of at least one element. *)
MinOf(es) == X!FoldLeft(LAMBDA v, t : IF v > t THEN t ELSE v, es[1], Tail(es))
MaxOf(es) == X!FoldLeft(LAMBDA v, t : IF v < t THEN t ELSE v, es[1], Tail(es))
Between(x, l, r) == l < x /\ x < r
BetweenEq(x, l, r) == l <= x /\ x <= r
BetweenLEq(x, l, r) == l <= x /\ x < r
BetweenREq(x, l, r) == l < x /\ x <= r
Equal(s, t) == Len(s) = Len(t) /\ \A n \in DOMAIN s : s[n] = t[n]
-----------------------------------------------------------------------------
(* StructFieldNotNilReplace, for a slice of struct pointers with two fields:*)
(* the elements of src, their zero fields filled from dest.  Reading past   *)
(* the end of dest panics.                                                  *)
Panic == << <<-1, -1>> >>   \* no field is negative
ReplaceElem(d, s) == [f \in {1, 2} |-> IF s[f] # 0 THEN s[f] ELSE d[f]]

StructFieldNotNilReplace(dest, src) ==
    IF \E j \in DOMAIN src : j \notin DOMAIN dest /\ \E f \in {1, 2} : src[j][f] = 0
    THEN Panic
    ELSE [j \in DOMAIN src |-> IF j \in DOMAIN dest THEN ReplaceElem(dest[j], src[j]) ELSE src[j]]
-----------------------------------------------------------------------------
Init == a = <<>> /\ b = <<>>

Grow ==
    \/ \E e \in Elems : Len(a) < MaxLen /\ a' = Append(a, e) /\ b' = b
    \/ \E e \in Elems : Len(b) < MaxLen /\ b' = Append(b, e) /\ a' = a

Spec == Init /\ [][Grow]_vars
-----------------------------------------------------------------------------
(* r holds the elements of s in Pass,  each key once, at its first place.  *)
FirstOf(r, s, fn, Pass) ==
    r = X!FoldLeft(LAMBDA v, n : IF s[n] \in Pass /\ \A m \in 1..(n - 1) : fn[s[m]] # fn[s[n]]
                                 THEN Append(v, s[n]) ELSE v, <<>>, [n \in 1..Len(s) |-> n])

(* Distinct, with its shortcuts for short slices, keeps the first element   *)
(* of every key, in order, and agrees with Duplicate.                       *)
DistinctKeepsFirst ==
    /\ FirstOf(Distinct(a), a, Id, Elems) /\ FirstOf(DistinctAny(a, Key), a, Key, Elems)
    /\ Slice(DistinctAny(a, Key), Key) = DistinctAnyGetComparable(a, Key)
    /\ Duplicate(a) <=> Len(Distinct(a)) < Len(a)

(* Subtracting a slice that is not empty keeps the first of every key that  *)
(* is not in it, whichever side is converted.                               *)
SubtractKeepsFirst ==
    b # <<>> =>
        /\ FirstOf(SliceSub(a, b), a, Id, Elems \ X!ToSet(b))
        /\ FirstOf(SliceSubFunc(a, b, Key), a, Key, {e \in Elems : ~In(Key[e], Slice(b, Key))})
        /\ SliceSubConvertPre(a, Slice(b, Key), Key) = SliceSubFunc(a, b, Key)
        /\ SliceSubAny(Slice(a, Key), b, Key) = Slice(SliceSubFunc(a, b, Key), Key)
        /\ Distinct(SliceAnySub(a, b, Id)) = SliceSub(a, b)

(* Delete by indexes and by positions agree: -1 is the last element, an     *)
(* index beyond the end is passed over, and one index or several, or one    *)
(* twice, make no difference.                                               *)
DeleteByPosition ==
    \A i \in (-Len(a))..(Len(a) + 1), j \in (-Len(a))..(Len(a) + 1) :
        /\ Delete(a, <<i, i>>) = Delete(a, <<i>>)
        /\ Delete(a, <<i, j>>) = Delete(a, <<j, i>>)
        /\ i < 0 => Delete(a, <<i>>) = Delete(a, <<Len(a) + i>>)
        /\ i < 0 /\ Len(a) + i < j /\ j < Len(a) =>
              Delete(a, <<i, j>>) = Delete(Delete(a, <<j>>), <<Len(a) + i>>)

(* DeleteElems takes away as many of every value as it is given, the one    *)
(* value of the short case included, and keeps the others in order.         *)
DeleteElemsIsBagDifference ==
    /\ Bag(DeleteElems(a, b)) = Bag(a) (-) Bag(b)
    /\ \A e \in Elems : ~In(e, b) => SelectSeq(DeleteElems(a, b), LAMBDA x : x = e) = SelectSeq(a, LAMBDA x : x = e)
    /\ b # <<>> => DeleteElems(a, b) = DeleteElems(DeleteElems(a, <<b[1]>>), Tail(b))

(* The pages of any size, put together, are the slice; the page after the   *)
(* last and the pages before the first are empty.                           *)
PagesPartition ==
    \A n \in 1..(MaxLen + 1) :
        LET pages == (Len(a) + n - 1) \div n IN
        /\ Flatten([p \in 1..pages |-> Paginate(a, p, n)]) = a
        /\ \A p \in 1..pages : Paginate(a, p, n) # <<>>
        /\ Paginate(a, pages + 1, n) = <<>> /\ Paginate(a, 0, n) = <<>> /\ Paginate(a, 1, -n) = <<>>

(* Intersection, symmetric difference and membership are those of the sets  *)
(* of elements, whichever slice is the smaller.                             *)
SetOperations ==
    /\ BothExistAny(<<a, b>>, Id) = X!ToSet(a) \cap X!ToSet(b)
    /\ BothExistAny(<<a, b, a>>, Key) = X!ToSet(Slice(a, Key)) \cap X!ToSet(Slice(b, Key))
    /\ X!ToSet(SliceIntersectFuncs(a, b, Id, Id)) = X!ToSet(a) \cap X!ToSet(b)
    /\ Contains(a, b) <=> BothExistAny(<<a, b>>, Id) # {}
    /\ \A e \in Elems : Contain(e, a) <=> e \in SliceSet(a)

(* Single is the symmetric difference however often an element is repeated, *)
(* and Complete holds exactly for equal sets.                               *)
SingleIsDifference ==
    /\ Single(a, b) = (X!ToSet(a) \ X!ToSet(b)) \cup (X!ToSet(b) \ X!ToSet(a))
    /\ Complete(a, b) <=> X!ToSet(a) = X!ToSet(b)
    /\ Equal(a, b) => Complete(a, b)

(* Order keeps every element, puts them in the order of their keys in es    *)
(* and keeps the order within a key.                                        *)
OrderGroups ==
    LET es == Slice(b, Key) IN
    \A r \in Order(es, a, Key) :
        /\ Bag(r) = Bag(a)
        /\ \A k \in Elems : SelectSeq(r, LAMBDA x : Key[x] = k) = SelectSeq(a, LAMBDA x : Key[x] = k)
        /\ b # <<>> => \A m, n \in DOMAIN r : m < n /\ In(Key[r[n]], es) =>
              In(Key[r[m]], es) /\ IndexOf(Key[r[m]], es) <= IndexOf(Key[r[n]], es)

(* Every element lies between Min and Max, which are elements. *)
Extremes ==
    a # <<>> => /\ In(MinOf(a), a) /\ In(MaxOf(a), a)
                /\ \A n \in DOMAIN a : /\ BetweenEq(a[n], MinOf(a), MaxOf(a))
                                       /\ Between(a[n], MinOf(a), MaxOf(a)) <=>
                                            BetweenLEq(a[n], MinOf(a), MaxOf(a)) /\ BetweenREq(a[n], MinOf(a), MaxOf(a))

(* Applying the same update twice changes nothing more, and no zero field   *)
(* of the update reaches an element that had a value.                       *)
ReplaceIdempotent ==
    LET Pairs(s) == [j \in 1..(Len(s) \div 2) |-> <<s[2 * j - 1], s[2 * j]>>]
        r == StructFieldNotNilReplace(Pairs(a), Pairs(b))
    IN r # Panic => /\ StructFieldNotNilReplace(r, Pairs(b)) = r
                    /\ \A j \in DOMAIN r, f \in {1, 2} :
                          j \in DOMAIN Pairs(a) /\ r[j][f] = 0 => Pairs(a)[j][f] = 0
=============================================================================
