-------------------------- MODULE JsonBuilderProofs --------------------------
(***************************************************************************)
(* JsonBuilder::set has the effect of a single assignment, for keys and    *)
(* documents of any depth.                                                 *)
(*                                                                         *)
(* The invariant compares the document with what it was before the call:   *)
(* as long as every part of the key has been found nothing has changed;    *)
(* from the first part that was missing on, the level reached is new and   *)
(* nothing is below it.                                                    *)
(***************************************************************************)
EXTENDS JsonBuilder, SequenceTheorems, TLAPS

Path == Seq(Part)

(* Paths.                                                                  *)

LEMMA InitialPart ==
  ASSUME NEW q \in Path, NEW n \in 0 .. Len(q)
  PROVE  /\ SubSeq(q, 1, n) \in Path
         /\ Len(SubSeq(q, 1, n)) = n
         /\ \A m \in 1 .. n : SubSeq(q, 1, n)[m] = q[m]
<1>1. Len(q) \in Nat /\ n \in Int /\ 1 \in Int /\ n <= Len(q)
  BY LenProperties DEF Path
<1>2. \A m \in 1 .. n : q[m] \in Part
  BY <1>1, ElementOfSeq DEF Path
<1>3. /\ SubSeq(q, 1, n) \in Path
      /\ Len(SubSeq(q, 1, n)) = (IF 1 <= n THEN n - 1 + 1 ELSE 0)
      /\ \A m \in 1 .. n - 1 + 1 : SubSeq(q, 1, n)[m] = q[1 + m - 1]
  BY <1>1, <1>2, SubSeqProperties DEF Path
<1>4. QED BY <1>1, <1>3

LEMMA PrefixElements ==
  ASSUME NEW p \in Path, NEW q \in Path
  PROVE  IsPrefix(p, q) <=>
           (Len(p) <= Len(q) /\ \A m \in 1 .. Len(p) : p[m] = q[m])
<1>1. Len(p) \in Nat /\ Len(q) \in Nat
  BY LenProperties DEF Path
<1>2. SubSeq(p, 1, Len(p)) = p
  BY SubSeqFull DEF Path
<1>3. CASE Len(p) <= Len(q)
  <2>1. /\ SubSeq(q, 1, Len(p)) \in Path
        /\ Len(SubSeq(q, 1, Len(p))) = Len(p)
        /\ \A m \in 1 .. Len(p) : SubSeq(q, 1, Len(p))[m] = q[m]
    BY <1>1, <1>3, InitialPart
  <2>2. ASSUME \A m \in 1 .. Len(p) : p[m] = q[m]
        PROVE  p = SubSeq(q, 1, Len(p))
    BY <2>1, <2>2, SeqEqual DEF Path
  <2>3. QED BY <1>2, <1>3, <2>1, <2>2 DEF IsPrefix
<1>4. CASE ~(Len(p) <= Len(q))
  BY <1>4 DEF IsPrefix
<1>5. QED BY <1>3, <1>4

LEMMA SamePath ==
  ASSUME NEW p \in Path, NEW q \in Path, IsPrefix(p, q), Len(p) = Len(q)
  PROVE  p = q
BY PrefixElements, SeqEqual DEF Path

LEMMA PrefixOrder ==
  /\ \A q \in Path : IsPrefix(q, q)
  /\ \A p, q \in Path : IsPrefix(p, q) /\ IsPrefix(q, p) => p = q
  /\ \A p, q, r \in Path : IsPrefix(p, q) /\ IsPrefix(q, r) => IsPrefix(p, r)
  /\ \A p, q, r \in Path :
       IsPrefix(p, r) /\ IsPrefix(q, r) => IsPrefix(p, q) \/ IsPrefix(q, p)
<1>0. \A q \in Path : Len(q) \in Nat
  BY LenProperties DEF Path
<1>1. \A q \in Path : IsPrefix(q, q)
  BY <1>0, PrefixElements
<1>2. \A p, q \in Path : IsPrefix(p, q) /\ IsPrefix(q, p) => p = q
  BY <1>0, PrefixElements, SamePath
<1>3. ASSUME NEW p \in Path, NEW q \in Path, NEW r \in Path,
             IsPrefix(p, q), IsPrefix(q, r)
      PROVE  IsPrefix(p, r)
  <2>1. Len(p) <= Len(q) /\ \A m \in 1 .. Len(p) : p[m] = q[m]
    BY <1>3, PrefixElements
  <2>2. Len(q) <= Len(r) /\ \A m \in 1 .. Len(q) : q[m] = r[m]
    BY <1>3, PrefixElements
  <2>3. Len(p) <= Len(r) /\ \A m \in 1 .. Len(p) : p[m] = r[m]
    BY <1>0, <2>1, <2>2
  <2>4. QED BY <2>3, PrefixElements
<1>4. ASSUME NEW p \in Path, NEW q \in Path, NEW r \in Path,
             IsPrefix(p, r), IsPrefix(q, r)
      PROVE  IsPrefix(p, q) \/ IsPrefix(q, p)
  <2>1. \A m \in 1 .. Len(p) : p[m] = r[m]
    BY <1>4, PrefixElements
  <2>2. \A m \in 1 .. Len(q) : q[m] = r[m]
    BY <1>4, PrefixElements
  <2>3. CASE Len(p) <= Len(q)
    <3>1. \A m \in 1 .. Len(p) : p[m] = q[m]
      BY <1>0, <2>1, <2>2, <2>3
    <3>2. QED BY <2>3, <3>1, PrefixElements
  <2>4. CASE Len(q) <= Len(p)
    <3>1. \A m \in 1 .. Len(q) : q[m] = p[m]
      BY <1>0, <2>1, <2>2, <2>4
    <3>2. QED BY <2>4, <3>1, PrefixElements
  <2>5. QED BY <1>0, <2>3, <2>4
<1>5. QED BY <1>1, <1>2, <1>3, <1>4

LEMMA RootPrefix ==
  /\ <<>> \in Path
  /\ \A q \in Path : IsPrefix(<<>>, q) /\ (IsPrefix(q, <<>>) => q = <<>>)
<1>1. <<>> \in Path /\ Len(<<>>) = 0 /\ \A q \in Path : Len(q) \in Nat
  BY EmptySeq, LenProperties DEF Path
<1>2. \A q \in Path : IsPrefix(<<>>, q)
  BY <1>1, PrefixElements
<1>3. QED BY <1>1, <1>2, PrefixOrder

LEMMA AbovePrefix ==
  ASSUME NEW p \in Path, NEW q \in Path
  PROVE  p \in Above(q) <=> (IsPrefix(p, q) /\ p # q)
<1>0. Len(p) \in Nat /\ Len(q) \in Nat
  BY LenProperties DEF Path
<1>1. ASSUME p \in Above(q) PROVE IsPrefix(p, q) /\ p # q
  <2>1. PICK n \in 0 .. Len(q) - 1 : p = SubSeq(q, 1, n)
    BY <1>1 DEF Above
  <2>2. Len(p) = n /\ \A m \in 1 .. n : p[m] = q[m]
    BY <1>0, <2>1, InitialPart
  <2>3. QED BY <1>0, <2>2, PrefixElements
<1>2. ASSUME IsPrefix(p, q), p # q PROVE p \in Above(q)
  <2>1. Len(p) <= Len(q) /\ Len(p) # Len(q)
    BY <1>2, SamePath, PrefixElements
  <2>2. p = SubSeq(q, 1, Len(p))
    <3>1. SubSeq(p, 1, Len(p)) = p
      BY SubSeqFull DEF Path
    <3>2. QED BY <1>2, <3>1 DEF IsPrefix
  <2>3. Len(p) \in 0 .. Len(q) - 1
    BY <1>0, <2>1
  <2>4. QED BY <2>2, <2>3 DEF Above
<1>3. QED BY <1>1, <1>2

LEMMA AboveArePaths == \A q \in Path : Above(q) \subseteq Path
<1> SUFFICES ASSUME NEW q \in Path, NEW n \in 0 .. Len(q) - 1
             PROVE  SubSeq(q, 1, n) \in Path
  BY DEF Above
<1>1. n \in 0 .. Len(q)
  BY LenProperties DEF Path
<1>2. QED BY <1>1, InitialPart

LEMMA RestOfPath ==
  ASSUME NEW p \in Path, NEW q \in Path, IsPrefix(p, q)
  PROVE  /\ Rest(p, q) \in Path
         /\ Len(Rest(p, q)) = Len(q) - Len(p)
         /\ \A m \in 1 .. Len(q) - Len(p) : Rest(p, q)[m] = q[Len(p) + m]
         /\ q = p \o Rest(p, q)
<1>0. Len(p) \in Nat /\ Len(q) \in Nat /\ Len(p) <= Len(q)
  BY LenProperties, PrefixElements DEF Path
<1>1. \A m \in Len(p) + 1 .. Len(q) : q[m] \in Part
  BY <1>0, ElementOfSeq DEF Path
<1>2. /\ Rest(p, q) \in Path
      /\ Len(Rest(p, q)) =
           (IF Len(p) + 1 <= Len(q) THEN Len(q) - (Len(p) + 1) + 1 ELSE 0)
      /\ \A m \in 1 .. Len(q) - (Len(p) + 1) + 1 :
           Rest(p, q)[m] = q[Len(p) + 1 + m - 1]
  BY <1>0, <1>1, SubSeqProperties DEF Rest, Path
<1>3. /\ Len(Rest(p, q)) = Len(q) - Len(p)
      /\ \A m \in 1 .. Len(q) - Len(p) : Rest(p, q)[m] = q[Len(p) + m]
  BY <1>0, <1>2
<1>4. /\ p \o Rest(p, q) \in Path
      /\ Len(p \o Rest(p, q)) = Len(p) + Len(Rest(p, q))
      /\ \A m \in 1 .. Len(p) + Len(Rest(p, q)) :
           (p \o Rest(p, q))[m] = IF m <= Len(p) THEN p[m] ELSE Rest(p, q)[m - Len(p)]
  BY <1>2, ConcatProperties DEF Path
<1>5. \A m \in 1 .. Len(q) : q[m] = (p \o Rest(p, q))[m]
  <2> SUFFICES ASSUME NEW m \in 1 .. Len(q) PROVE q[m] = (p \o Rest(p, q))[m]
    OBVIOUS
  <2>1. CASE m <= Len(p)
    BY <1>0, <1>3, <1>4, <2>1, PrefixElements
  <2>2. CASE ~(m <= Len(p))
    <3>1. m - Len(p) \in 1 .. Len(q) - Len(p) /\ Len(p) + (m - Len(p)) = m
      BY <1>0, <2>2
    <3>2. QED BY <1>0, <1>3, <1>4, <2>2, <3>1
  <2>3. QED BY <2>1, <2>2
<1>6. q = p \o Rest(p, q)
  <2>1. Len(q) = Len(p \o Rest(p, q))
    BY <1>0, <1>3, <1>4
  <2>2. QED BY <1>4, <1>5, <2>1, SeqEqual DEF Path
<1>7. QED BY <1>2, <1>3, <1>6

LEMMA PathBelow ==
  ASSUME NEW p \in Path, NEW r \in Path
  PROVE  p \o r \in Path /\ IsPrefix(p, p \o r) /\ Rest(p, p \o r) = r
<1>0. Len(p) \in Nat /\ Len(r) \in Nat
  BY LenProperties DEF Path
<1>1. /\ p \o r \in Path
      /\ Len(p \o r) = Len(p) + Len(r)
      /\ \A m \in 1 .. Len(p) + Len(r) :
           (p \o r)[m] = IF m <= Len(p) THEN p[m] ELSE r[m - Len(p)]
  BY ConcatProperties DEF Path
<1>2. IsPrefix(p, p \o r)
  <2>1. Len(p) <= Len(p \o r) /\ \A m \in 1 .. Len(p) : p[m] = (p \o r)[m]
    BY <1>0, <1>1
  <2>2. QED BY <1>1, <2>1, PrefixElements
<1>3. /\ Rest(p, p \o r) \in Path
      /\ Len(Rest(p, p \o r)) = Len(r)
      /\ \A m \in 1 .. Len(r) : Rest(p, p \o r)[m] = (p \o r)[Len(p) + m]
  <2>1. Len(p \o r) - Len(p) = Len(r)
    BY <1>0, <1>1
  <2>2. /\ Rest(p, p \o r) \in Path
        /\ Len(Rest(p, p \o r)) = Len(p \o r) - Len(p)
        /\ \A m \in 1 .. Len(p \o r) - Len(p) :
             Rest(p, p \o r)[m] = (p \o r)[Len(p) + m]
    BY <1>1, <1>2, RestOfPath
  <2>3. QED BY <2>1, <2>2
<1>4. \A m \in 1 .. Len(r) : Rest(p, p \o r)[m] = r[m]
  <2> SUFFICES ASSUME NEW m \in 1 .. Len(r) PROVE Rest(p, p \o r)[m] = r[m]
    OBVIOUS
  <2>1. /\ Len(p) + m \in 1 .. Len(p) + Len(r)
        /\ ~(Len(p) + m <= Len(p)) /\ Len(p) + m - Len(p) = m
    BY <1>0
  <2>2. QED BY <1>1, <1>3, <2>1
<1>5. QED BY <1>1, <1>2, <1>3, <1>4, SeqEqual DEF Path

LEMMA RestAbove ==
  ASSUME NEW p \in Path, NEW q \in Path, NEW x \in Path,
         IsPrefix(p, x), IsPrefix(x, q), x # q
  PROVE  Rest(p, x) \in Above(Rest(p, q))
<1>0. Len(p) \in Nat /\ Len(q) \in Nat /\ Len(x) \in Nat
  BY LenProperties DEF Path
<1>1. /\ IsPrefix(p, q)
      /\ Len(p) <= Len(x) /\ Len(x) <= Len(q) /\ Len(x) # Len(q)
      /\ \A m \in 1 .. Len(x) : x[m] = q[m]
  BY PrefixOrder, PrefixElements, SamePath
<1>2. /\ Rest(p, x) \in Path
      /\ Len(Rest(p, x)) = Len(x) - Len(p)
      /\ \A m \in 1 .. Len(x) - Len(p) : Rest(p, x)[m] = x[Len(p) + m]
  BY RestOfPath
<1>3. /\ Rest(p, q) \in Path
      /\ Len(Rest(p, q)) = Len(q) - Len(p)
      /\ \A m \in 1 .. Len(q) - Len(p) : Rest(p, q)[m] = q[Len(p) + m]
  BY <1>1, RestOfPath
<1>4. \A m \in 1 .. Len(Rest(p, x)) : Rest(p, x)[m] = Rest(p, q)[m]
  <2> SUFFICES ASSUME NEW m \in 1 .. Len(x) - Len(p)
               PROVE  Rest(p, x)[m] = Rest(p, q)[m]
    BY <1>2
  <2>1. m \in 1 .. Len(q) - Len(p) /\ Len(p) + m \in 1 .. Len(x)
    BY <1>0, <1>1
  <2>2. QED BY <1>1, <1>2, <1>3, <2>1
<1>5. IsPrefix(Rest(p, x), Rest(p, q)) /\ Rest(p, x) # Rest(p, q)
  <2>1. Len(Rest(p, x)) <= Len(Rest(p, q)) /\ Len(Rest(p, x)) # Len(Rest(p, q))
    BY <1>0, <1>1, <1>2, <1>3
  <2>2. QED BY <1>2, <1>3, <1>4, <2>1, PrefixElements
<1>6. QED BY <1>2, <1>3, <1>5, AbovePrefix

(* Documents.                                                              *)

LEMMA NullIsDocument == IsDocument(Null) /\ IsDocument(EmptyObject)
<1>1. Above(<<>>) = {}
  <2>1. 0 .. Len(<<>>) - 1 = {}
    BY EmptySeq
  <2>2. QED BY <2>1 DEF Above
<1>2. IsDocument(Null)
  BY <1>1, RootPrefix DEF IsDocument, Null, Path
<1>3. IsDocument(EmptyObject)
  BY <1>1, RootPrefix DEF IsDocument, EmptyObject, Path
<1>4. QED BY <1>2, <1>3

LEMMA IndexedIsDocument ==
  ASSUME NEW d, IsDocument(d), NEW p \in DOMAIN d, d[p] \notin Scalar,
         NEW c \in Path, Above(c) = Above(p) \cup {p}
  PROVE  IsDocument(Indexed(d, p, c))
<1> DEFINE e == Indexed(d, p, c)
<1>1. /\ DOMAIN e = DOMAIN d \cup {c}
      /\ \A q \in DOMAIN e :
           e[q] = IF q = p THEN "object" ELSE IF q \in DOMAIN d THEN d[q] ELSE "null"
      /\ e = [q \in DOMAIN e |-> e[q]]
  BY DEF Indexed
<1> HIDE DEF e
<1>2. DOMAIN e \subseteq Path /\ <<>> \in DOMAIN e
  BY <1>1 DEF IsDocument, Path
<1>3. e \in [DOMAIN e -> Scalar \cup {"object", "null"}]
  BY <1>1 DEF IsDocument
<1>4. ASSUME NEW q \in DOMAIN e, NEW x \in Above(q)
      PROVE  x \in DOMAIN e /\ e[x] = "object"
  <2>1. x \in DOMAIN d /\ (x = p \/ d[x] = "object")
    BY <1>1, <1>4 DEF IsDocument
  <2>2. QED BY <1>1, <2>1
<1>5. IsDocument(e)
  BY <1>2, <1>3, <1>4 DEF IsDocument, Path
<1>6. QED BY <1>5 DEF e

LEMMA GraftIsDocument ==
  ASSUME NEW d, IsDocument(d), NEW v, IsDocument(v),
         NEW p \in DOMAIN d, p # <<>>
  PROVE  IsDocument(Graft(d, p, v))
<1> DEFINE e == Graft(d, p, v)
<1>0. p \in Path /\ DOMAIN d \subseteq Path /\ DOMAIN v \subseteq Path
  BY DEF IsDocument, Path
<1>1. /\ DOMAIN e = {q \in DOMAIN d : ~IsPrefix(p, q)} \cup {p \o r : r \in DOMAIN v}
      /\ \A q \in DOMAIN e : e[q] = IF IsPrefix(p, q) THEN v[Rest(p, q)] ELSE d[q]
      /\ e = [q \in DOMAIN e |-> e[q]]
  BY DEF Graft
<1> HIDE DEF e
<1>2. \A r \in DOMAIN v :
        p \o r \in Path /\ IsPrefix(p, p \o r) /\ Rest(p, p \o r) = r
  BY <1>0, PathBelow
<1>3. DOMAIN e \subseteq Path
  BY <1>0, <1>1, <1>2
<1>4. <<>> \in DOMAIN e
  BY <1>0, <1>1, RootPrefix DEF IsDocument
<1>5. \A q \in DOMAIN e : IF IsPrefix(p, q) THEN Rest(p, q) \in DOMAIN v
                                            ELSE q \in DOMAIN d
  BY <1>1, <1>2
<1>6. e \in [DOMAIN e -> Scalar \cup {"object", "null"}]
  BY <1>1, <1>5 DEF IsDocument
<1>7. ASSUME NEW q \in DOMAIN e, NEW x \in Above(q)
      PROVE  x \in DOMAIN e /\ e[x] = "object"
  <2>1. x \in Path /\ q \in Path
    BY <1>3, AboveArePaths
  <2>2. IsPrefix(x, q) /\ x # q
    BY <2>1, AbovePrefix
  <2>3. CASE ~IsPrefix(p, q)
    <3>1. q \in DOMAIN d /\ ~IsPrefix(p, x)
      BY <1>0, <1>5, <2>1, <2>2, <2>3, PrefixOrder
    <3>2. x \in DOMAIN d /\ d[x] = "object"
      BY <3>1 DEF IsDocument
    <3>3. QED BY <1>1, <3>1, <3>2
  <2>4. CASE IsPrefix(p, q) /\ IsPrefix(p, x)
    <3>1. Rest(p, x) \in Above(Rest(p, q)) /\ Rest(p, q) \in DOMAIN v
      BY <1>0, <1>5, <2>1, <2>2, <2>4, RestAbove
    <3>2. Rest(p, x) \in DOMAIN v /\ v[Rest(p, x)] = "object"
      BY <3>1 DEF IsDocument
    <3>3. x = p \o Rest(p, x)
      BY <1>0, <2>1, <2>4, RestOfPath
    <3>4. QED BY <1>1, <2>4, <3>2, <3>3
  <2>5. CASE IsPrefix(p, q) /\ ~IsPrefix(p, x)
    <3>1. IsPrefix(x, p) /\ x # p
      BY <1>0, <2>1, <2>2, <2>5, PrefixOrder
    <3>2. x \in Above(p)
      BY <1>0, <2>1, <3>1, AbovePrefix
    <3>3. x \in DOMAIN d /\ d[x] = "object"
      BY <3>2 DEF IsDocument
    <3>4. QED BY <1>1, <2>5, <3>3
  <2>6. QED BY <2>3, <2>4, <2>5
<1>8. IsDocument(e)
  BY <1>3, <1>4, <1>6, <1>7 DEF IsDocument, Path
<1>9. QED BY <1>8 DEF e

(* The key.                                                                *)

LEMMA KeyParts ==
  ASSUME key \in Path, i \in Nat, i < Len(key)
  PROVE  /\ At \in Path /\ Child \in Path /\ Child # <<>>
         /\ Above(Child) = Above(At) \cup {At}
         /\ At \in Above(key) /\ IsPrefix(Child, key)
         /\ LastPart <=> Child = key
         /\ ~LastPart => Child \in Above(key)
<1>0. Len(key) \in Nat /\ i \in 0 .. Len(key) /\ i + 1 \in 0 .. Len(key)
  BY LenProperties DEF Path
<1>1. /\ At \in Path /\ Len(At) = i /\ \A m \in 1 .. i : At[m] = key[m]
      /\ Child \in Path /\ Len(Child) = i + 1
      /\ \A m \in 1 .. i + 1 : Child[m] = key[m]
  BY <1>0, InitialPart DEF At, Child
<1>2. IsPrefix(At, Child) /\ At # Child /\ IsPrefix(Child, key) /\ Child # <<>>
  <2>1. \A m \in 1 .. i : At[m] = Child[m]
    BY <1>0, <1>1
  <2>2. IsPrefix(At, Child)
    BY <1>0, <1>1, <2>1, PrefixElements
  <2>3. IsPrefix(Child, key)
    BY <1>0, <1>1, PrefixElements
  <2>4. Len(Child) # Len(At) /\ Len(Child) # Len(<<>>)
    BY <1>0, <1>1, EmptySeq
  <2>5. QED BY <2>2, <2>3, <2>4
<1>3. IsPrefix(At, key) /\ At # key
  <2>1. IsPrefix(At, key)
    BY <1>1, <1>2, PrefixOrder
  <2>2. Len(At) # Len(key)
    BY <1>0, <1>1
  <2>3. QED BY <2>1, <2>2
<1>4. LastPart <=> Child = key
  <2>1. LastPart => Child = key
    BY <1>1, <1>2, SamePath DEF LastPart
  <2>2. Child = key => LastPart
    BY <1>1 DEF LastPart
  <2>3. QED BY <2>1, <2>2
<1>5. \A x \in Path : x \in Above(Child) <=> (x \in Above(At) \/ x = At)
  <2> SUFFICES ASSUME NEW x \in Path
               PROVE  x \in Above(Child) <=> (x \in Above(At) \/ x = At)
    OBVIOUS
  <2>1. ASSUME IsPrefix(x, Child), x # Child PROVE IsPrefix(x, At)
    <3>1. /\ Len(x) \in Nat /\ Len(x) <= i + 1 /\ Len(x) # i + 1
          /\ \A m \in 1 .. Len(x) : x[m] = Child[m]
      BY <1>1, <2>1, PrefixElements, SamePath, LenProperties DEF Path
    <3>2. Len(x) <= i /\ \A m \in 1 .. Len(x) : x[m] = At[m]
      BY <1>0, <1>1, <3>1
    <3>3. QED BY <1>1, <3>2, PrefixElements
  <2>2. ASSUME IsPrefix(x, At) PROVE IsPrefix(x, Child) /\ x # Child
    BY <1>1, <1>2, <2>2, PrefixOrder
  <2>3. IsPrefix(At, At)
    BY <1>1, PrefixOrder
  <2>4. QED BY <1>1, <2>1, <2>2, <2>3, AbovePrefix
<1>6. Above(Child) \subseteq Path /\ Above(At) \subseteq Path
  BY <1>1, AboveArePaths
<1>7. Above(Child) = Above(At) \cup {At}
  BY <1>1, <1>5, <1>6
<1>8. QED BY <1>1, <1>2, <1>3, <1>4, <1>7, AbovePrefix

(* The next level, once the loop has gone on to it.                        *)
LEMMA NextLevel ==
  ASSUME key \in Path, i \in Nat, i < Len(key), ~LastPart,
         key' = key, i' = i + 1
  PROVE  /\ i' \in Nat /\ i' < Len(key')
         /\ At' = Child
         /\ Child' \in Path /\ IsPrefix(Child, Child') /\ Child' # Child
<1>0. Len(key) \in Nat /\ i + 1 < Len(key) /\ i + 1 \in Nat
  BY LenProperties DEF Path, LastPart
<1>1. /\ At' = SubSeq(key, 1, i + 1)
      /\ Child' = SubSeq(key, 1, (i + 1) + 1)
  BY DEF At, Child
<1>2. At' = Child
  BY <1>1 DEF Child
<1>3. /\ Child \in Path /\ Len(Child) = i + 1
      /\ \A m \in 1 .. i + 1 : Child[m] = key[m]
  BY <1>0, InitialPart DEF Child
<1>4. /\ Child' \in Path /\ Len(Child') = (i + 1) + 1
      /\ \A m \in 1 .. (i + 1) + 1 : (Child')[m] = key[m]
  <2>1. (i + 1) + 1 \in 0 .. Len(key)
    BY <1>0
  <2>2. QED BY <1>1, <2>1, InitialPart
<1>5. \A m \in 1 .. i + 1 : Child[m] = (Child')[m]
  BY <1>0, <1>3, <1>4
<1>6. IsPrefix(Child, Child')
  BY <1>0, <1>3, <1>4, <1>5, PrefixElements
<1>7. QED BY <1>0, <1>2, <1>3, <1>4, <1>6

(* The invariant.                                                          *)

(* At the start of a level: either every part so far has been found, or    *)
(* the level is new and nothing is below it.                               *)
Fresh ==
  pc = "index" => doc = before \/ (doc[At] = "object" /\ Child \notin DOMAIN doc)

(* A level that is to be made was not there.                               *)
Missing == (pc = "assign" /\ ~LastPart) => Child \notin DOMAIN before

Inv == TypeOK /\ KeepsOthers /\ Fresh /\ Missing

LEMMA SplitIsPath == \A input \in Input : Split(input) \in Path
<1> SUFFICES ASSUME NEW input \in Input PROVE Split(input) \in Path
  OBVIOUS
<1>1. input \in Path /\ input # <<>>
  BY InputAssumption DEF Path
<1>2. Len(input) \in Nat /\ Len(input) # 0
  BY <1>1, EmptySeq DEF Path
<1>3. Len(input) - 1 \in 0 .. Len(input)
  BY <1>2
<1>4. Front(input) \in Path
  BY <1>1, <1>3, InitialPart DEF Front
<1>5. QED BY <1>1, <1>4 DEF Split

LEMMA Initially == Init => Inv
<1> SUFFICES ASSUME Init PROVE Inv
  OBVIOUS
<1>1. TypeOK
  BY NullIsDocument, RootPrefix DEF Init, TypeOK, Path
<1>2. QED BY <1>1 DEF Init, Inv, KeepsOthers, Fresh, Missing

LEMMA InvCall == ASSUME Inv, NEW input \in Input, NEW v \in Value, Call(input, v)
                 PROVE  Inv'
<1> DEFINE k == Split(input)
<1>1. /\ k \in Path /\ key' = k /\ value' = v /\ IsDocument(v)
      /\ i' = 0 /\ doc' = doc /\ before' = doc
      /\ IsDocument(doc)
      /\ pc' \in {"idle", "index"} /\ (pc' # "idle" => k # <<>>)
  BY SplitIsPath, ValueAssumption DEF Call, Inv, TypeOK
<1>2. pc' # "idle" => i' < Len(key') /\ At' \in DOMAIN doc'
  <2> SUFFICES ASSUME pc' # "idle" PROVE i' < Len(key') /\ At' \in DOMAIN doc'
    OBVIOUS
  <2>1. Len(k) \in Nat /\ Len(k) # 0
    BY <1>1, EmptySeq DEF Path
  <2>2. At' = <<>>
    <3>1. At' = SubSeq(k, 1, 0)
      BY <1>1 DEF At
    <3>2. QED BY <3>1, SubSeqEmpty
  <2>3. QED BY <1>1, <2>1, <2>2 DEF IsDocument
<1>3. alive' \in BOOLEAN
  BY DEF Call, Inv, TypeOK
<1>4. TypeOK'
  BY <1>1, <1>2, <1>3 DEF TypeOK, Path
<1>5. KeepsOthers' /\ Fresh' /\ Missing'
  BY <1>1 DEF KeepsOthers, Fresh, Missing
<1>6. QED BY <1>4, <1>5 DEF Inv

(* What Inv says of a call under way.                                      *)
LEMMA UnderWay ==
  ASSUME Inv, pc # "idle"
  PROVE  /\ key \in Path /\ i \in Nat /\ i < Len(key)
         /\ IsDocument(doc) /\ IsDocument(before) /\ IsDocument(value)
         /\ At \in DOMAIN doc
         /\ DOMAIN doc \subseteq Path /\ DOMAIN before \subseteq DOMAIN doc
         /\ \A q \in DOMAIN before :
              doc[q] # before[q] => before[q] = "null" /\ q \in Above(key)
         /\ \A q \in DOMAIN doc \ DOMAIN before : IsPrefix(q, key)
<1>1. /\ key \in Path /\ i \in Nat /\ i < Len(key)
      /\ IsDocument(doc) /\ IsDocument(before) /\ IsDocument(value)
      /\ At \in DOMAIN doc
  BY DEF Inv, TypeOK, Path
<1>2. DOMAIN doc \subseteq Path
  BY <1>1 DEF IsDocument, Path
<1>3. QED BY <1>1, <1>2 DEF Inv, KeepsOthers

LEMMA InvIndex == Inv /\ Index => Inv'
<1> SUFFICES ASSUME Inv, Index PROVE Inv'
  OBVIOUS
<1>0. /\ pc = "index" /\ doc[At] \notin Scalar
      /\ doc' = Indexed(doc, At, Child)
      /\ alive' = alive /\ key' = key /\ value' = value /\ before' = before
      /\ IF ToAssign THEN pc' = "assign" /\ i' = i ELSE pc' = "index" /\ i' = i + 1
  BY DEF Index
<1>1. /\ key \in Path /\ i \in Nat /\ i < Len(key)
      /\ IsDocument(doc) /\ IsDocument(before) /\ IsDocument(value)
      /\ At \in DOMAIN doc
      /\ DOMAIN doc \subseteq Path /\ DOMAIN before \subseteq DOMAIN doc
      /\ \A q \in DOMAIN before :
           doc[q] # before[q] => before[q] = "null" /\ q \in Above(key)
      /\ \A q \in DOMAIN doc \ DOMAIN before : IsPrefix(q, key)
  BY <1>0, UnderWay
<1>2. /\ At \in Path /\ Child \in Path
      /\ Above(Child) = Above(At) \cup {At}
      /\ At \in Above(key) /\ IsPrefix(Child, key)
  BY <1>1, KeyParts
<1>3. IsDocument(doc')
  BY <1>0, <1>1, <1>2, IndexedIsDocument
<1>4. /\ DOMAIN doc' = DOMAIN doc \cup {Child}
      /\ \A q \in DOMAIN doc' :
           doc'[q] = IF q = At THEN "object"
                     ELSE IF q \in DOMAIN doc THEN doc[q] ELSE "null"
  BY <1>0 DEF Indexed
<1>5. alive' \in BOOLEAN
  BY <1>0 DEF Inv, TypeOK
<1>6. KeepsOthers'
  <2>1. ASSUME NEW q \in DOMAIN before
        PROVE  /\ q \in DOMAIN doc'
               /\ doc'[q] # before[q] => before[q] = "null" /\ q \in Above(key)
    <3>1. CASE q = At
      <4>1. doc[q] # before[q] => before[q] = "null"
        BY <1>1
      <4>2. doc[q] = "object" \/ doc[q] = "null"
        BY <1>0, <1>1, <3>1 DEF IsDocument
      <4>3. doc'[q] = "object" /\ q \in DOMAIN doc'
        BY <1>1, <1>4, <3>1
      <4>4. QED BY <1>2, <3>1, <4>1, <4>2, <4>3
    <3>2. CASE q # At
      BY <1>1, <1>4, <3>2
    <3>3. QED BY <3>1, <3>2
  <2>2. \A q \in DOMAIN doc' \ DOMAIN before : IsPrefix(q, key)
    BY <1>1, <1>2, <1>4
  <2>3. QED BY <1>0, <2>1, <2>2 DEF KeepsOthers
<1>7. CASE ToAssign
  <2>1. At' = At /\ Child' = Child /\ (LastPart' <=> LastPart)
    BY <1>0, <1>7 DEF At, Child, LastPart
  <2>2. TypeOK'
    BY <1>0, <1>1, <1>3, <1>4, <1>5, <1>7, <2>1 DEF TypeOK, Path
  <2>3. Missing'
    BY <1>0, <1>1, <1>7, <2>1 DEF Missing, ToAssign
  <2>4. QED BY <1>0, <1>6, <1>7, <2>2, <2>3 DEF Inv, Fresh
<1>8. CASE ~ToAssign
  <2>1. ~LastPart /\ Child \in DOMAIN doc
    BY <1>8 DEF ToAssign
  <2>2. /\ i' \in Nat /\ i' < Len(key') /\ At' = Child
    BY <1>0, <1>1, <1>8, <2>1, NextLevel
  <2>3. TypeOK'
    BY <1>0, <1>1, <1>3, <1>4, <1>5, <1>8, <2>1, <2>2 DEF TypeOK, Path
  <2>4. doc[At] = "object"
    BY <1>1, <1>2, <2>1 DEF IsDocument
  <2>5. doc = before
    BY <1>0, <2>1 DEF Inv, Fresh
  <2>6. doc' = doc
    <3>1. doc = [q \in DOMAIN doc |-> doc[q]]
      BY <1>1 DEF IsDocument
    <3>2. DOMAIN doc \cup {Child} = DOMAIN doc
      BY <2>1
    <3>3. [q \in DOMAIN doc |-> IF q = At THEN "object"
             ELSE IF q \in DOMAIN doc THEN doc[q] ELSE "null"] = doc
      BY <2>4, <3>1
    <3>4. QED BY <1>0, <3>2, <3>3 DEF Indexed
  <2>7. Fresh' /\ Missing'
    BY <1>0, <1>8, <2>5, <2>6 DEF Fresh, Missing
  <2>8. QED BY <1>6, <2>3, <2>7 DEF Inv
<1>9. QED BY <1>7, <1>8

LEMMA InvThrow == Inv /\ Throw => Inv'
<1> SUFFICES ASSUME Inv, Throw PROVE Inv'
  OBVIOUS
<1>1. /\ pc' = "idle"
      /\ UNCHANGED <<alive, doc, key, value, i, before>>
  BY DEF Throw
<1>2. TypeOK'
  BY <1>1 DEF Inv, TypeOK
<1>3. QED BY <1>1, <1>2 DEF Inv, KeepsOthers, Fresh, Missing

LEMMA InvAssign == Inv /\ Assign => Inv'
<1> SUFFICES ASSUME Inv, Assign PROVE Inv'
  OBVIOUS
<1> DEFINE v == IF LastPart THEN value ELSE EmptyObject
<1>0. /\ pc = "assign" /\ doc' = Graft(doc, Child, v)
      /\ alive' = alive /\ key' = key /\ value' = value /\ before' = before
      /\ IF LastPart THEN pc' = "idle" /\ i' = i ELSE pc' = "index" /\ i' = i + 1
  BY DEF Assign, NewLevel
<1>1. /\ key \in Path /\ i \in Nat /\ i < Len(key)
      /\ IsDocument(doc) /\ IsDocument(before) /\ IsDocument(value)
      /\ At \in DOMAIN doc
      /\ DOMAIN doc \subseteq Path /\ DOMAIN before \subseteq DOMAIN doc
      /\ \A q \in DOMAIN before :
           doc[q] # before[q] => before[q] = "null" /\ q \in Above(key)
      /\ \A q \in DOMAIN doc \ DOMAIN before : IsPrefix(q, key)
  BY <1>0, UnderWay
<1>2. /\ Child \in Path /\ Child # <<>> /\ IsPrefix(Child, key)
      /\ Child \in DOMAIN doc
  BY <1>0, <1>1, KeyParts DEF Inv, TypeOK
<1>3. IsDocument(v)
  BY <1>1, NullIsDocument
<1>4. IsDocument(doc')
  BY <1>0, <1>1, <1>2, <1>3, GraftIsDocument
<1>5. alive' \in BOOLEAN
  BY <1>0 DEF Inv, TypeOK
<1>6. CASE LastPart
  <2>1. pc' = "idle" /\ i' = i
    BY <1>0, <1>6
  <2>2. TypeOK'
    BY <1>0, <1>1, <1>4, <1>5, <2>1 DEF TypeOK, Path
  <2>3. QED BY <2>1, <2>2 DEF Inv, KeepsOthers, Fresh, Missing
<1>7. CASE ~LastPart
  <2>1. /\ pc' = "index" /\ i' = i + 1 /\ doc' = Graft(doc, Child, EmptyObject)
        /\ Child \notin DOMAIN before
    BY <1>0, <1>7 DEF Inv, Missing
  <2>2. /\ i' \in Nat /\ i' < Len(key') /\ At' = Child
        /\ Child' \in Path /\ IsPrefix(Child, Child') /\ Child' # Child
    BY <1>0, <1>1, <1>7, <2>1, NextLevel
  <2>3. {Child \o r : r \in DOMAIN EmptyObject} = {Child}
    <3>1. DOMAIN EmptyObject = {<<>>} /\ Child \o <<>> = Child
      BY <1>2, ConcatEmptySeq DEF EmptyObject, Path
    <3>2. QED BY <3>1
  <2>4. /\ DOMAIN doc' = {q \in DOMAIN doc : ~IsPrefix(Child, q)} \cup {Child}
        /\ \A q \in DOMAIN doc' :
             doc'[q] = IF IsPrefix(Child, q) THEN EmptyObject[Rest(Child, q)] ELSE doc[q]
    BY <2>1, <2>3 DEF Graft
  <2>5. Child \in DOMAIN doc' /\ doc'[Child] = "object" /\ Child' \notin DOMAIN doc'
    <3>1. IsPrefix(Child, Child) /\ Rest(Child, Child) = <<>>
      <4>1. Child \o <<>> = Child
        BY <1>2, ConcatEmptySeq DEF Path
      <4>2. QED BY <1>2, <4>1, PathBelow, RootPrefix
    <3>2. EmptyObject[<<>>] = "object"
      BY DEF EmptyObject
    <3>3. QED BY <2>2, <2>4, <3>1, <3>2
  <2>6. TypeOK'
    BY <1>0, <1>1, <1>4, <1>5, <2>1, <2>2, <2>5 DEF TypeOK, Path
  <2>7. Fresh' /\ Missing'
    BY <2>1, <2>2, <2>5 DEF Fresh, Missing
  <2>8. \A q \in DOMAIN before : ~IsPrefix(Child, q)
    <3> SUFFICES ASSUME NEW q \in DOMAIN before, IsPrefix(Child, q) PROVE FALSE
      OBVIOUS
    <3>1. Child # q /\ q \in Path
      BY <1>1, <2>1
    <3>2. Child \in Above(q)
      BY <1>2, <3>1, AbovePrefix
    <3>3. QED BY <1>1, <2>1, <3>2 DEF IsDocument
  <2>9. KeepsOthers'
    <3>1. \A q \in DOMAIN before :
            /\ q \in DOMAIN doc'
            /\ doc'[q] # before[q] => before[q] = "null" /\ q \in Above(key)
      BY <1>1, <2>4, <2>8
    <3>2. \A q \in DOMAIN doc' \ DOMAIN before : IsPrefix(q, key)
      BY <1>1, <1>2, <2>4
    <3>3. QED BY <1>0, <3>1, <3>2 DEF KeepsOthers
  <2>10. QED BY <2>6, <2>7, <2>9 DEF Inv
<1>8. QED BY <1>6, <1>7

LEMMA InvRest == Inv /\ (RaceCrash \/ UNCHANGED vars) => Inv'
<1> SUFFICES ASSUME Inv, RaceCrash \/ UNCHANGED vars PROVE Inv'
  OBVIOUS
<1>1. /\ UNCHANGED <<doc, pc, key, value, i, before>>
      /\ alive' \in BOOLEAN
  BY DEF RaceCrash, vars, Inv, TypeOK
<1>2. TypeOK'
  BY <1>1 DEF Inv, TypeOK, At, Child
<1>3. KeepsOthers' /\ Fresh' /\ Missing'
  BY <1>1 DEF Inv, KeepsOthers, Fresh, Missing, At, Child, LastPart
<1>4. QED BY <1>2, <1>3 DEF Inv

LEMMA Invariance == Spec => []Inv
<1>1. Inv /\ [Next]_vars => Inv'
  BY InvCall, InvIndex, InvThrow, InvAssign, InvRest DEF Next
<1>2. QED BY Initially, <1>1, PTL DEF Spec

(* The document is a tree at every step of every call, and the descent     *)
(* stays inside it (TypeOK).                                               *)
THEOREM TypeCorrect == Spec => []TypeOK
<1>1. Inv => TypeOK
  BY DEF Inv
<1>2. QED BY <1>1, Invariance, PTL

(* A call under way shows nothing but the way to its key (KeepsOthers):    *)
(* the value before stands until the value of the key replaces it.         *)
THEOREM OthersAreKept == Spec => []KeepsOthers
<1>1. Inv => KeepsOthers
  BY DEF Inv
<1>2. QED BY <1>1, Invariance, PTL

(* A call that throws has changed nothing (ThrowsUnchanged): the first     *)
(* level it made was new, and nothing scalar can be below a new level.     *)
THEOREM ThrowsLeavesUnchanged == Spec => ThrowsUnchanged
<1> DEFINE Step ==
      (pc = "index" /\ pc' = "idle") =>
        /\ doc' = before
        /\ \E p \in Above(key) \cap DOMAIN before : before[p] \in Scalar
<1>1. ASSUME Inv, [Next]_vars PROVE Step
  <2> SUFFICES ASSUME pc = "index", pc' = "idle"
               PROVE  /\ doc' = before
                      /\ \E p \in Above(key) \cap DOMAIN before : before[p] \in Scalar
    OBVIOUS
  <2>1. Throw
    BY <1>1 DEF Next, Call, Index, Assign, RaceCrash, vars
  <2>2. /\ key \in Path /\ i \in Nat /\ i < Len(key)
        /\ At \in DOMAIN doc
    BY <1>1, UnderWay
  <2>3. At \in Above(key)
    BY <2>2, KeyParts
  <2>4. doc = before
    <3>1. doc[At] # "object"
      BY <2>1, ScalarAssumption DEF Throw
    <3>2. QED BY <1>1, <3>1 DEF Inv, Fresh
  <2>5. doc' = doc /\ doc[At] \in Scalar
    BY <2>1 DEF Throw
  <2>6. QED BY <2>2, <2>3, <2>4, <2>5
<1>2. QED BY <1>1, Invariance, PTL DEF Spec, ThrowsUnchanged

(* A call that returns has set its value and nothing else (SetsExactly).   *)
THEOREM SetIsExact == Spec => SetsExactly
<1> DEFINE Step ==
      (pc = "assign" /\ pc' = "idle") => doc' = WithValue(before, key, value)
<1>1. ASSUME Inv, [Next]_vars PROVE Step
  <2> SUFFICES ASSUME pc = "assign", pc' = "idle"
               PROVE  doc' = WithValue(before, key, value)
    OBVIOUS
  <2>1. LastPart /\ doc' = Graft(doc, Child, value)
    BY <1>1 DEF Next, Call, Index, Assign, Throw, RaceCrash, vars
  <2>2. /\ key \in Path /\ i \in Nat /\ i < Len(key)
        /\ IsDocument(doc) /\ IsDocument(before)
        /\ DOMAIN doc \subseteq Path /\ DOMAIN before \subseteq DOMAIN doc
        /\ \A q \in DOMAIN before :
             doc[q] # before[q] => before[q] = "null" /\ q \in Above(key)
        /\ \A q \in DOMAIN doc \ DOMAIN before : IsPrefix(q, key)
    BY <1>1, UnderWay
  <2>3. Child = key /\ key \in DOMAIN doc
    BY <1>1, <2>1, <2>2, KeyParts DEF Inv, TypeOK
  <2>4. \A q \in Above(key) : q \in DOMAIN doc /\ doc[q] = "object"
    BY <2>2, <2>3 DEF IsDocument
  <2>5. \A q \in Above(key) : q \in Path /\ ~IsPrefix(key, q)
    BY <2>2, AboveArePaths, AbovePrefix, PrefixOrder
  <2>6. \A q \in DOMAIN doc : ~IsPrefix(key, q) =>
          IF q \in Above(key) THEN doc[q] = "object"
                              ELSE q \in DOMAIN before /\ doc[q] = before[q]
    <3> SUFFICES ASSUME NEW q \in DOMAIN doc, ~IsPrefix(key, q), q \notin Above(key)
                 PROVE  q \in DOMAIN before /\ doc[q] = before[q]
      BY <2>4
    <3>1. ~IsPrefix(q, key)
      <4>1. q # key
        BY <2>2, PrefixOrder
      <4>2. QED BY <2>2, <4>1, AbovePrefix
    <3>2. QED BY <2>2, <3>1
  <2> DEFINE values == {key \o r : r \in DOMAIN value}
  <2> DEFINE before1 == {q \in DOMAIN before : ~IsPrefix(key, q)}
  <2> DEFINE doc1 == {q \in DOMAIN doc : ~IsPrefix(key, q)}
  <2>7. doc1 = before1 \cup Above(key)
    BY <2>2, <2>4, <2>5, <2>6
  <2>8. doc' = [q \in doc1 \cup values |->
                  IF IsPrefix(key, q) THEN value[Rest(key, q)] ELSE doc[q]]
    BY <2>1, <2>3 DEF Graft
  <2>9. WithValue(before, key, value) =
          [q \in before1 \cup Above(key) \cup values |->
             IF IsPrefix(key, q) THEN value[Rest(key, q)]
             ELSE IF q \in Above(key) THEN "object" ELSE before[q]]
    BY DEF WithValue
  <2>10. \A q \in doc1 \cup values :
           ~IsPrefix(key, q) =>
             doc[q] = IF q \in Above(key) THEN "object" ELSE before[q]
    <3>1. \A q \in values : IsPrefix(key, q)
      <4>1. DOMAIN value \subseteq Path
        BY <1>1 DEF Inv, TypeOK, IsDocument, Path
      <4>2. QED BY <2>2, <4>1, PathBelow
    <3>2. QED BY <2>6, <3>1
  <2> HIDE DEF values, before1, doc1
  <2>11. QED BY <2>7, <2>8, <2>9, <2>10
<1>2. QED BY <1>1, Invariance, PTL DEF Spec, SetsExactly

-----------------------------------------------------------------------------
(* What set_multilevel_key has still to do: an operator[] for each part of *)
(* the key it has not come past, and an assignment after it at most.       *)
PartsLeft ==
  CASE pc = "idle"   -> 0
    [] pc = "index"  -> 2 * (Len(key) - i)
    [] pc = "assign" -> 2 * (Len(key) - i) - 1

(* A call of set is over after at most two steps for each part of its key, *)
(* however deep the document is and whatever has to be created: each step  *)
(* leaves less to do.                                                      *)
THEOREM SetIsBounded ==
  Spec => /\ [](PartsLeft \in 0 .. 2 * Len(key))
          /\ [][/\ Index \/ Assign \/ Throw => PartsLeft' < PartsLeft
                /\ RaceCrash => PartsLeft' = PartsLeft]_vars
<1>1. ASSUME Inv
      PROVE  /\ Len(key) \in Nat /\ i \in Nat
             /\ pc # "idle" => i < Len(key)
             /\ pc \in {"idle", "index", "assign"}
  BY <1>1 DEF Inv, TypeOK
<1>2. Inv => PartsLeft \in 0 .. 2 * Len(key)
  BY <1>1 DEF PartsLeft
<1>3. Inv /\ [Next]_vars =>
        [/\ Index \/ Assign \/ Throw => PartsLeft' < PartsLeft
         /\ RaceCrash => PartsLeft' = PartsLeft]_vars
  <2> SUFFICES ASSUME Inv
               PROVE  /\ Index \/ Assign \/ Throw => PartsLeft' < PartsLeft
                      /\ RaceCrash => PartsLeft' = PartsLeft
    OBVIOUS
  <2>1. ASSUME Index PROVE PartsLeft' < PartsLeft
    <3>1. /\ PartsLeft = 2 * (Len(key) - i) /\ i < Len(key)
          /\ \/ PartsLeft' = 2 * (Len(key) - i) - 1
             \/ PartsLeft' = 2 * (Len(key) - (i + 1))
      BY <1>1, <2>1 DEF Index, PartsLeft
    <3>2. QED BY <1>1, <3>1
  <2>2. ASSUME Assign PROVE PartsLeft' < PartsLeft
    <3>1. /\ PartsLeft = 2 * (Len(key) - i) - 1 /\ i < Len(key)
          /\ PartsLeft' = 0 \/ PartsLeft' = 2 * (Len(key) - (i + 1))
      BY <1>1, <2>2 DEF Assign, PartsLeft
    <3>2. QED BY <1>1, <3>1
  <2>3. ASSUME Throw PROVE PartsLeft' < PartsLeft
    <3>1. PartsLeft = 2 * (Len(key) - i) /\ i < Len(key) /\ PartsLeft' = 0
      BY <1>1, <2>3 DEF Throw, PartsLeft
    <3>2. QED BY <1>1, <3>1
  <2>4. ASSUME RaceCrash PROVE PartsLeft' = PartsLeft
    BY <2>4 DEF RaceCrash, PartsLeft
  <2>5. QED BY <2>1, <2>2, <2>3, <2>4
<1>4. QED BY <1>2, <1>3, Invariance, PTL DEF Spec
=============================================================================
