--------------------------- MODULE EmissionProofs --------------------------
(***************************************************************************)
(* What value emission promises, whatever the plans and the messages.      *)
(* Entries in different branches of one oneof are never both written; a    *)
(* key is written when its field holds something, and under emit_empty     *)
(* when its branches are active; each entry offers as many pairs as the    *)
(* analysis was told; a merge writes the source its rules choose, in the   *)
(* JSON shape the check of its sources was promised; a pick into a Struct  *)
(* writes what the Struct has there; two encodes of one message are alike  *)
(* however Go orders its maps; an encode that fails has a cause.  With the *)
(* real constants the times plainjsonpb writes read back: all that         *)
(* protobuf allows, not only the boundary cases a run enumerates.          *)
(***************************************************************************)
EXTENDS Emission, LeastElements, FiniteSetTheorems, SequenceTheorems, FunctionTheorems

(* The message an encoder is run on is one of its case's, and consistent.  *)
CaseOf(p, m) == \E c \in Cases : p = c.plan /\ m \in c.messages

(* Only entries whose branches are active have offered something, a        *)
(* oneof's own null aside.                                                 *)
ActiveInv ==
    /\ CaseOf(plan, held) /\ Consistent(held) /\ order \in MapOrders
    /\ \E n \in Nat : out = [a \in 1..n |-> out[a]]
    /\ err = NoError => at = Len(out) + 1
    /\ \A a \in DOMAIN out :
          out[a] # <<>> => /\ a \in DOMAIN plan
                           /\ WritesUnset(plan[a]) \/ BranchesActive(plan[a].path)

-----------------------------------------------------------------------------
LEMMA PrefixOf ==
    ASSUME NEW path \in Seq(DOMAIN Info), NEW n \in DOMAIN path
    PROVE  /\ Prefix(path, n) \in Seq(DOMAIN Info)
           /\ Len(Prefix(path, n)) = n
           /\ Prefix(path, n)[n] = path[n]
           /\ LeafOf(Prefix(path, n)) = Info[path[n]]
<1>1. n \in 1..Len(path)
  OBVIOUS
<1>2. Len(SubSeq(path, 1, n)) = n /\ SubSeq(path, 1, n)[n] = path[n]
  BY <1>1
<1>3. SubSeq(path, 1, n) \in Seq(DOMAIN Info)
  BY <1>1
<1> QED
  BY <1>2, <1>3 DEF Prefix, LeafOf

LEMMA WholePrefix ==
    ASSUME NEW path \in Seq(DOMAIN Info)
    PROVE  Prefix(path, Len(path)) = path
BY DEF Prefix

(* Prefixes of a prefix are prefixes.                                      *)
LEMMA PrefixOfPrefix ==
    ASSUME NEW path \in Seq(DOMAIN Info), NEW n \in DOMAIN path, NEW k \in 0..n
    PROVE  Prefix(Prefix(path, n), k) = Prefix(path, k)
<1>1. n \in 1..Len(path)
  OBVIOUS
<1>2. \A x \in 1..k : SubSeq(SubSeq(path, 1, n), 1, k)[x] = SubSeq(path, 1, k)[x]
  BY <1>1
<1>3. /\ SubSeq(path, 1, n) \in Seq(DOMAIN Info) /\ Len(SubSeq(path, 1, n)) = n
  BY <1>1
<1>4. /\ SubSeq(SubSeq(path, 1, n), 1, k) \in Seq(DOMAIN Info)
      /\ SubSeq(path, 1, k) \in Seq(DOMAIN Info)
      /\ Len(SubSeq(SubSeq(path, 1, n), 1, k)) = k /\ Len(SubSeq(path, 1, k)) = k
  BY <1>1, <1>3
<1> QED
  BY <1>2, <1>4 DEF Prefix

(* What is held inside something shows that it is there.                   *)
LEMMA HeldAbove ==
    ASSUME NEW m, Consistent(m), NEW path \in Seq(DOMAIN Info), path # <<>>,
           LegalPath(m, path), m[path] # Unset
    PROVE  \A n \in 1..Len(path) - 1 : m[Prefix(path, n)] # Unset /\ m[Prefix(path, n)][2] # Nil
<1>1. path \in DOMAIN m
  BY WholePrefix DEF LegalPath
<1> QED
  BY <1>1 DEF Consistent

(* A zero value shows that nothing is held.                                *)
LEMMA ZeroUnlessHeld ==
    ASSUME NEW m, NEW path
    PROVE  /\ m[path] # Unset => Get(m, path) = m[path][2]
           /\ m[path] = Unset => Get(m, path) = ZeroOfField(LeafOf(path))
BY DEF Get

LEMMA NilIsZero ==
    ASSUME NEW f, IsMessage(f), ~IsCollection(f)
    PROVE  ZeroOfField(f) = Nil /\ ZeroOf(f.type) = Nil
BY DEF IsMessage, ZeroOfField, ZeroOf, Scalars

-----------------------------------------------------------------------------
(* A path whose end is held has active branches, if its end is no nil      *)
(* branch itself.                                                          *)
LEMMA HeldIsActive ==
    ASSUME Consistent(held), NEW path, LegalPath(held, path), path # <<>>,
           held[path] # Unset,
           InOneof(LeafOf(path)) /\ IsMessage(LeafOf(path)) => held[path][2] # Nil
    PROVE  BranchesActive(path)
<1>1. path \in Seq(DOMAIN Info)
  BY DEF LegalPath
<1>2. SUFFICES ASSUME NEW n \in DOMAIN path
      PROVE  Holds(Prefix(path, n)) /\ (IsMessage(Info[path[n]]) /\ InOneof(Info[path[n]])
                                           => held[Prefix(path, n)][2] # Nil)
  BY DEF BranchesActive
<1>3. CASE n = Len(path)
  BY <1>1, <1>3, WholePrefix DEF Holds, LeafOf
<1>4. CASE n # Len(path)
  <2>1. n \in 1..Len(path) - 1
    BY <1>1, <1>4
  <2> QED
    BY <1>1, <2>1, HeldAbove DEF Holds
<1> QED
  BY <1>3, <1>4

(* The end of a path above something held is no nil.                       *)
LEMMA OwnerIsActive ==
    ASSUME Consistent(held), NEW path, NEW f, LegalPath(held, path), path # <<>>,
           LegalPath(held, Append(path, f)), held[Append(path, f)] # Unset
    PROVE  BranchesActive(path)
<1> DEFINE whole == Append(path, f)
<1>1. path \in Seq(DOMAIN Info) /\ whole \in Seq(DOMAIN Info)
  BY DEF LegalPath
<1>2. Len(path) \in DOMAIN whole /\ Len(path) \in 1..Len(whole) - 1
  <2>1. f \in DOMAIN Info
    <3>1. Len(path) + 1 \in DOMAIN Append(path, f) /\ Append(path, f)[Len(path) + 1] = f
      BY <1>1
    <3> QED
      BY <1>1, <3>1
  <2> QED
    BY <1>1, <2>1
<1>3. Prefix(whole, Len(path)) = path
  BY <1>1, <1>2 DEF Prefix
<1>4. whole # <<>>
  BY <1>1
<1>5. held[path] # Unset /\ held[path][2] # Nil
  BY <1>1, <1>2, <1>3, <1>4, HeldAbove
<1> QED
  BY <1>5, HeldIsActive

(* With emit_empty the guards look at every branch but a scalar end.       *)
LEMMA GuardedIsActive ==
    ASSUME Consistent(held), NEW e, LegalPath(held, e.path), e.sc.emitEmpty, Reached(e, held),
           e.path # <<>> /\ IsScalarBranch(LeafOf(e.path)) => held[e.path] # Unset
    PROVE  BranchesActive(e.path)
<1>1. e.path \in Seq(DOMAIN Info)
  BY DEF LegalPath
<1>2. SUFFICES ASSUME NEW n \in DOMAIN e.path, InOneof(Info[e.path[n]])
      PROVE  Holds(Prefix(e.path, n)) /\ (IsMessage(Info[e.path[n]])
                                             => held[Prefix(e.path, n)][2] # Nil)
  BY DEF BranchesActive
<1>3. CASE n = Len(e.path) /\ ~IsMessage(Info[e.path[n]])
  BY <1>1, <1>2, <1>3, WholePrefix DEF Holds, LeafOf, IsScalarBranch
<1>4. CASE ~(n = Len(e.path) /\ ~IsMessage(Info[e.path[n]]))
  <2>1. Get(held, Prefix(e.path, n)) # Nil
    BY <1>2, <1>4 DEF Reached
  <2>2. LeafOf(Prefix(e.path, n)) = Info[e.path[n]]
    BY <1>1, PrefixOf
  <2>3. IsMessage(Info[e.path[n]])
    <3>1. CASE n = Len(e.path)
      BY <1>4, <3>1
    <3>2. CASE n # Len(e.path)
      <4>1. n < Len(e.path)
        BY <1>1, <3>2
      <4> QED
        BY <4>1 DEF LegalPath, IsMessage, Scalars
    <3> QED
      BY <3>1, <3>2
  <2>4. ~IsCollection(Info[e.path[n]])
    BY <1>2 DEF LegalPath
  <2>5. ZeroOfField(Info[e.path[n]]) = Nil
    BY <2>3, <2>4, NilIsZero
  <2> QED
    BY <2>1, <2>2, <2>5, ZeroUnlessHeld DEF Holds
<1> QED
  BY <1>3, <1>4
-----------------------------------------------------------------------------
(* An entry that offers anything has active branches, kind by kind.        *)
LEMMA ScalarIsActive ==
    ASSUME Consistent(held), NEW e, LegalPath(held, e.path), e.path # <<>>,
           ~IsCollection(LeafOf(e.path)), Reached(e, held), Worth(e, held)
    PROVE  BranchesActive(e.path)
<1> DEFINE f == LeafOf(e.path)
<1>1. CASE IsScalarBranch(f)
  <2>1. held[e.path] # Unset
    BY <1>1 DEF Worth
  <2>2. ~IsMessage(f)
    BY <1>1 DEF IsScalarBranch
  <2> QED
    BY <2>1, <2>2, HeldIsActive
<1>2. CASE ~IsScalarBranch(f) /\ e.sc.emitEmpty
  BY <1>2, GuardedIsActive
<1>3. CASE ~IsScalarBranch(f) /\ ~e.sc.emitEmpty
  <2>1. IF f.optional /\ f.omits = {} THEN held[e.path] # Unset
                                      ELSE Get(held, e.path) # ZeroOf(f.type)
    BY <1>3 DEF Worth
  <2>2. ZeroOfField(f) = ZeroOf(f.type)
    BY DEF ZeroOfField
  <2>3. held[e.path] # Unset
    BY <2>1, <2>2, ZeroUnlessHeld
  <2>4. ASSUME InOneof(f), IsMessage(f) PROVE held[e.path][2] # Nil
    <3>1. ~f.optional
      <4>1. Len(e.path) \in DOMAIN e.path /\ f = Info[e.path[Len(e.path)]]
        BY DEF LegalPath, LeafOf
      <4> QED
        BY <2>4, <4>1 DEF LegalPath
    <3>2. ZeroOf(f.type) = Nil
      BY <2>4, NilIsZero
    <3> QED
      BY <2>1, <2>3, <3>1, <3>2, ZeroUnlessHeld
  <2> QED
    BY <2>3, <2>4, HeldIsActive
<1> QED
  BY <1>1, <1>2, <1>3

LEMMA NonZeroIsActive ==
    ASSUME Consistent(held), NEW e, LegalPath(held, e.path), e.path # <<>>,
           ~IsCollection(LeafOf(e.path)), IsMessage(LeafOf(e.path)), Get(held, e.path) # Nil
    PROVE  BranchesActive(e.path)
<1>1. ZeroOfField(LeafOf(e.path)) = Nil
  BY NilIsZero
<1>2. held[e.path] # Unset /\ held[e.path][2] # Nil
  BY <1>1, ZeroUnlessHeld
<1> QED
  BY <1>2, HeldIsActive

(* An empty collection has no elements to offer anything for.              *)
LEMMA EmptyHasNone ==
    ASSUME NEW f, NEW ord \in MapOrders, NEW values, values = <<>>
    PROVE  /\ DOMAIN values = {}
           /\ SortedKeys(values, ord) = <<>>
           /\ Elements(f, values, ord) = <<>>
<1>1. DOMAIN values = {}
  OBVIOUS
<1>2. SortedKeys(values, ord) = <<>>
  <2>1. ord[{}] \in Seq({}) /\ {} \in KeySets
    BY KeySetsAssumption, MapOrdersAssumption
  <2>2. ord[{}] = <<>> /\ DOMAIN ord[{}] = {}
    BY <2>1
  <2> DEFINE keys == ord[DOMAIN values]
             places == CHOOSE p \in Bijection(DOMAIN keys, DOMAIN keys) : InOrder(Rearranged(keys, p))
  <2>3. SortedKeys(values, ord) = Rearranged(keys, places)
    BY DEF SortedKeys
  <2>4. DOMAIN keys = {}
    BY <1>1, <2>2
  <2> HIDE DEF keys, places
  <2> QED
    BY <2>3, <2>4 DEF Rearranged
<1>3. CASE f.card = "list"
  BY <1>1, <1>2, <1>3 DEF Elements
<1>4. CASE f.card # "list"
  <2>1. Elements(f, values, ord) = [n \in DOMAIN SortedKeys(values, ord) |-> values[SortedKeys(values, ord)[n]]]
    BY <1>4 DEF Elements
  <2>2. Elements(f, values, ord) = [n \in {} |-> values[SortedKeys(values, ord)[n]]]
    BY <1>2, <2>1
  <2> QED
    BY <1>1, <1>2, <2>2
<1> QED
  BY <1>1, <1>2, <1>3, <1>4

LEMMA EmptyOffers ==
    ASSUME NEW e, NEW f, NEW ord \in MapOrders, NEW values, values = <<>>
    PROVE  /\ PickOffers(e, f, values, ord) = <<>>
           /\ InlineOffers(e, f, values, ord) = <<>>
           /\ IndexedOffers(e, f, values, ord) = <<>>
           /\ ExplodeOffers(e, f, values, ord) = <<>>
<1>1. /\ DOMAIN values = {}
      /\ SortedKeys(values, ord) = <<>>
      /\ Elements(f, values, ord) = <<>>
  BY EmptyHasNone
<1>3. PickOffers(e, f, values, ord) = <<>>
  BY <1>1 DEF PickOffers
<1>4. InlineOffers(e, f, values, ord) = <<>>
  <2> DEFINE keys == SortedKeys(values, ord)
  <2>1. InlineOffers(e, f, values, ord)
           = [n \in DOMAIN keys |-> << <<"inline", e.key, KeyString(keys[n])>>,
                                       ElementJSON(e, f, values[keys[n]], ord)>>]
    BY DEF InlineOffers
  <2>2. DOMAIN keys = {}
    BY <1>1
  <2> HIDE DEF keys
  <2> QED
    BY <2>1, <2>2
<1>5. IndexedOffers(e, f, values, ord) = <<>>
  <2>1. CASE NumbersObjects(f)
    <3>1. [n \in DOMAIN values |-> SpreadOffers(values[n], <<"nested", e.key, n - 1>>)] = <<>>
      BY <1>1
    <3> QED
      BY <2>1, <3>1 DEF IndexedOffers, FlattenSeq
  <2>2. CASE ~NumbersObjects(f)
    <3> DEFINE jsons == ElementJSONs(e, f, values, ord)
    <3>1. IndexedOffers(e, f, values, ord)
             = [n \in DOMAIN jsons |-> << <<"indexed", e.key, n - 1>>, jsons[n]>>]
      BY <2>2 DEF IndexedOffers
    <3>2. DOMAIN jsons = {}
      BY <1>1 DEF ElementJSONs
    <3> HIDE DEF jsons
    <3> QED
      BY <3>1, <3>2
  <2> QED
    BY <2>1, <2>2
<1>6. ExplodeOffers(e, f, values, ord) = <<>>
  <2>1. [n \in DOMAIN values |-> SpreadOffers(values[n], <<"own">>)] = <<>>
    BY <1>1
  <2> QED
    BY <1>3, <2>1 DEF ExplodeOffers, FlattenSeq
<1> QED
  BY <1>3, <1>4, <1>5, <1>6

LEMMA CollectionIsActive ==
    ASSUME Consistent(held), NEW e, NEW ord \in MapOrders,
           LegalPath(held, e.path), e.path # <<>>, IsCollection(LeafOf(e.path)), Reached(e, held),
           CollectionOffers(e, held, ord) # <<>>
    PROVE  BranchesActive(e.path)
<1> DEFINE f == LeafOf(e.path)
           values == Get(held, e.path)
<1>1. ~InOneof(f)
  <2>1. Len(e.path) \in DOMAIN e.path /\ f = Info[e.path[Len(e.path)]]
    BY DEF LegalPath, LeafOf
  <2> QED
    BY <2>1 DEF LegalPath
<1>2. CASE e.sc.emitEmpty
  BY <1>1, <1>2, GuardedIsActive DEF IsScalarBranch
<1>3. CASE ~e.sc.emitEmpty
  <2>1. SUFFICES ASSUME held[e.path] = Unset PROVE FALSE
    BY <1>1, HeldIsActive
  <2>2. values = <<>>
    BY <2>1, ZeroUnlessHeld DEF ZeroOfField
  <2> HIDE DEF f, values
  <2>3. /\ PickOffers(e, f, values, ord) = <<>>
        /\ InlineOffers(e, f, values, ord) = <<>>
        /\ IndexedOffers(e, f, values, ord) = <<>>
        /\ ExplodeOffers(e, f, values, ord) = <<>>
    BY <2>2, EmptyOffers
  <2>4. \A json : Guarded(e, values, json) = <<>>
    <3>1. DOMAIN values = {}
      BY <2>2
    <3> QED
      BY <1>3, <3>1 DEF Guarded
  <2>5. CollectionOffers(e, held, ord) = <<>>
    BY <2>3, <2>4 DEF CollectionOffers, f, values
  <2> QED
    BY <2>5
<1> QED
  BY <1>2, <1>3

LEMMA OneofKeyIsActive ==
    ASSUME Consistent(held), NEW e, LegalEntry(held, e), Reached(e, held),
           e.kind \in {"discriminator", "oneofValue"},
           ActiveBranches(e, held) = {} => UnsetOffers(e) # <<>>
    PROVE  WritesUnset(e) \/ BranchesActive(e.path)
<1>1. /\ LegalPath(held, e.path)
      /\ e.path # <<>> => LeafOf(e.path).type = "message"
      /\ \A f \in Range(e.branches) : LegalPath(held, Append(e.path, f))
  BY DEF LegalEntry
<1>2. CASE e.path = <<>>
  BY <1>2 DEF BranchesActive
<1>3. CASE e.path # <<>> /\ ActiveBranches(e, held) # {}
  <2>1. PICK f \in Range(e.branches) : held[Append(e.path, f)] # Unset
    BY <1>3 DEF ActiveBranches
  <2> QED
    BY <1>1, <1>3, <2>1, OwnerIsActive
<1>4. CASE e.path # <<>> /\ ActiveBranches(e, held) = {}
  <2>1. ~e.omitIfUnset
    BY <1>4 DEF UnsetOffers
  <2>2. IsMessage(LeafOf(e.path))
    BY <1>1, <1>4 DEF IsMessage, Scalars
  <2>3. e.sc.emitEmpty => BranchesActive(e.path)
    BY <1>1, <2>2, GuardedIsActive DEF IsScalarBranch
  <2> QED
    BY <2>1, <2>3 DEF WritesUnset
<1> QED
  BY <1>2, <1>3, <1>4

LEMMA OffersActive ==
    ASSUME Consistent(held), NEW e, NEW ord \in MapOrders, LegalEntry(held, e), Reached(e, held),
           Offers(e, held, ord) # <<>>
    PROVE  WritesUnset(e) \/ BranchesActive(e.path)
<1>1. LegalPath(held, e.path)
  BY DEF LegalEntry
<1>2. CASE e.kind \in {"constant", "merge"}
  <2>1. e.path = <<>>
    BY <1>2 DEF LegalEntry
  <2> QED
    BY <2>1 DEF BranchesActive
<1>3. CASE e.kind \in {"discriminator", "oneofValue"}
  <2>1. ActiveBranches(e, held) = {} => Offers(e, held, ord) = UnsetOffers(e)
    BY <1>3 DEF Offers, DiscriminatorOffers, OneofValueOffers
  <2> QED
    BY <1>3, <2>1, OneofKeyIsActive
<1>4. CASE e.kind = "collection"
  <2>1. Offers(e, held, ord) = CollectionOffers(e, held, ord)
    BY <1>4 DEF Offers
  <2>2. e.path # <<>> /\ IsCollection(LeafOf(e.path))
    BY <1>4 DEF LegalEntry
  <2> QED
    BY <1>1, <2>1, <2>2, CollectionIsActive
<1>5. CASE e.kind \in {"scalar", "object", "structPick"}
  <2>1. /\ e.path # <<>> /\ ~IsCollection(LeafOf(e.path))
        /\ e.kind = "object" => LeafOf(e.path).type = "message"
        /\ e.kind = "structPick" => LeafOf(e.path).type = "Struct"
    BY <1>5 DEF LegalEntry
  <2>2. CASE e.kind = "scalar"
    <3>1. Worth(e, held)
      BY <2>2 DEF Offers, ScalarOffers
    <3> QED
      BY <1>1, <2>1, <3>1, ScalarIsActive
  <2>3. CASE e.kind = "object"
    <3>1. IsMessage(LeafOf(e.path))
      BY <2>1, <2>3 DEF IsMessage, Scalars
    <3>2. e.sc.emitEmpty \/ Get(held, e.path) # Nil
      BY <2>3 DEF Offers, ObjectOffers
    <3> QED
      BY <1>1, <2>1, <3>1, <3>2, NonZeroIsActive, GuardedIsActive DEF IsScalarBranch
  <2>4. CASE e.kind = "structPick"
    <3>1. IsMessage(LeafOf(e.path))
      BY <2>1, <2>4 DEF IsMessage, Scalars
    <3>2. PickStruct(Get(held, e.path), e.structPath) # Nil
      BY <2>4 DEF Offers, StructPickOffers
    <3>3. Get(held, e.path) # Nil
      BY <3>2 DEF PickStruct
    <3> QED
      BY <1>1, <2>1, <3>1, <3>3, NonZeroIsActive
  <2> QED
    BY <1>5, <2>2, <2>3, <2>4
<1> QED
  BY <1>2, <1>3, <1>4, <1>5 DEF LegalEntry

(* Two branches of one oneof are never both active.                        *)
LEMMA ApartNotActive ==
    ASSUME Consistent(held), NEW p, NEW q, LegalPath(held, p), LegalPath(held, q),
           Apart(p, q), BranchesActive(p), BranchesActive(q)
    PROVE  FALSE
<1>1. p \in Seq(DOMAIN Info) /\ q \in Seq(DOMAIN Info)
  BY DEF LegalPath
<1>2. PICK n \in DOMAIN p \cap DOMAIN q :
         /\ Prefix(p, n - 1) = Prefix(q, n - 1)
         /\ p[n] # q[n]
         /\ InOneof(Info[p[n]]) /\ Info[p[n]].oneof = Info[q[n]].oneof
  BY DEF Apart
<1>3. InOneof(Info[q[n]])
  BY <1>2 DEF InOneof
<1>4. Holds(Prefix(p, n)) /\ Holds(Prefix(q, n))
  BY <1>2, <1>3 DEF BranchesActive
<1>5. n \in 1..Len(p) /\ n \in 1..Len(q) /\ n - 1 \in 0..n
  BY <1>1, <1>2
<1>6. /\ Len(Prefix(p, n)) = n /\ LeafOf(Prefix(p, n)) = Info[p[n]]
      /\ Prefix(p, n)[n] = p[n]
  BY <1>1, <1>2, PrefixOf
<1>7. /\ Len(Prefix(q, n)) = n /\ LeafOf(Prefix(q, n)) = Info[q[n]]
      /\ Prefix(q, n)[n] = q[n]
  BY <1>1, <1>2, PrefixOf
<1>8. Prefix(Prefix(p, n), n - 1) = Prefix(Prefix(q, n), n - 1)
  BY <1>1, <1>2, <1>5, PrefixOfPrefix
<1>9. Prefix(p, n) \in DOMAIN held /\ Prefix(q, n) \in DOMAIN held
  BY <1>2 DEF LegalPath
<1>10. Prefix(p, n) # Prefix(q, n)
  BY <1>2, <1>6, <1>7
<1>11. held[Prefix(p, n)] = Unset \/ held[Prefix(q, n)] = Unset
  BY <1>2, <1>3, <1>6, <1>7, <1>8, <1>9, <1>10 DEF Consistent
<1> QED
  BY <1>4, <1>11 DEF Holds

-----------------------------------------------------------------------------
(* The invariant                                                           *)

LEMMA LegalEntries ==
    ASSUME CaseOf(plan, held), NEW a \in DOMAIN plan
    PROVE  LegalEntry(held, plan[a])
BY CasesAssumption DEF CaseOf

(* An entry's offers are added to those of the entries before it.          *)
LEMMA InvAppend ==
    ASSUME ActiveInv, UNCHANGED <<plan, held, order>>,
           NEW offers, out' = Append(out, offers),
           err' = NoError => at' = Len(out) + 2,
           offers # <<>> => /\ Len(out) + 1 \in DOMAIN plan
                            /\ WritesUnset(plan[Len(out) + 1])
                                  \/ BranchesActive(plan[Len(out) + 1].path)
    PROVE  ActiveInv'
<1>1. PICK n \in Nat : out = [a \in 1..n |-> out[a]]
  BY DEF ActiveInv
<1>2. Len(out) = n /\ DOMAIN out = 1..n
  BY <1>1
<1>3. out' = [a \in 1..(n + 1) |-> IF a = n + 1 THEN offers ELSE out[a]]
  BY <1>1, <1>2
<1>4. n + 1 \in Nat /\ out' = [a \in 1..(n + 1) |-> out'[a]]
  BY <1>3
<1>5. DOMAIN out' = 1..(n + 1)
  BY <1>3
<1>6. ASSUME NEW a \in DOMAIN out', out'[a] # <<>>
      PROVE  a \in DOMAIN plan /\ (WritesUnset(plan[a]) \/ BranchesActive(plan[a].path))
  <2>1. CASE a = n + 1
    BY <1>2, <1>3, <1>5, <1>6, <2>1
  <2>2. CASE a # n + 1
    <3>1. a \in DOMAIN out /\ out'[a] = out[a]
      BY <1>2, <1>3, <1>5, <2>2
    <3> QED
      BY <1>6, <3>1 DEF ActiveInv
  <2> QED
    BY <2>1, <2>2
<1>7. \A path : BranchesActive(path)' <=> BranchesActive(path)
  BY DEF BranchesActive, Holds
<1>8. CaseOf(plan, held)' /\ Consistent(held)' /\ order' \in MapOrders
  BY DEF ActiveInv, CaseOf, Consistent
<1>9. err' = NoError => at' = Len(out') + 1
  <2>1. Len(out') = n + 1
    BY <1>4, <1>5
  <2> QED
    BY <1>2, <2>1
<1>10. (\E k \in Nat : out = [a \in 1..k |-> out[a]])'
  BY <1>4
<1> QED
  BY <1>6, <1>7, <1>8, <1>9, <1>10 DEF ActiveInv, WritesUnset

(* The first offer that fails does fail: there is one.                     *)
LEMMA FailingFails ==
    ASSUME NEW offers, Failing(offers) # 0
    PROVE  /\ offers # <<>> /\ Failing(offers) \in 1..Len(offers)
           /\ IsFailed(offers[Failing(offers)][2])
<1> DEFINE I == {i \in 1..Len(offers) : IsFailed(offers[i][2])}
<1>1. Failing(offers) = IF I # {} THEN Min(I) ELSE 0
  BY DEF Failing, SelectInSeq
<1>2. I # {} /\ Failing(offers) = Min(I)
  BY <1>1
<1>3. I \in SUBSET Nat
  OBVIOUS
<1>4. Min(I) \in I
  BY <1>2, <1>3, MinMember
<1>5. offers # <<>>
  BY <1>2
<1> QED
  BY <1>2, <1>4, <1>5

LEMMA InitActive == Init => ActiveInv
<1> SUFFICES ASSUME Init PROVE ActiveInv
  OBVIOUS
<1>1. CaseOf(plan, held) /\ Consistent(held) /\ order \in MapOrders
  BY DEF Init, CaseOf
<1>2. out = <<>> /\ at = 1 /\ DOMAIN out = {} /\ Len(out) = 0
  BY DEF Init
<1>3. 0 \in Nat /\ out = [a \in 1..0 |-> out[a]]
  BY <1>2
<1> QED
  BY <1>1, <1>2, <1>3 DEF ActiveInv

(* What was offered does not change, nor does what is held.                *)
LEMMA SameActive ==
    ASSUME ActiveInv, UNCHANGED <<plan, held, order, at, out>>, err' = NoError => err = NoError
    PROVE  ActiveInv'
<1>1. \A path : BranchesActive(path)' <=> BranchesActive(path)
  BY DEF BranchesActive, Holds
<1> QED
  BY <1>1 DEF ActiveInv, CaseOf, Consistent, WritesUnset

LEMMA StepActive == ActiveInv /\ [Next]_vars => ActiveInv'
<1> SUFFICES ASSUME ActiveInv, [Next]_vars PROVE ActiveInv'
  OBVIOUS
<1>1. ASSUME Running
      PROVE  at = Len(out) + 1 /\ at \in DOMAIN plan /\ LegalEntry(held, plan[at])
  BY <1>1, LegalEntries DEF ActiveInv, Running
<1>2. ASSUME Running PROVE at + 1 = Len(out) + 2
  <2>1. Len(out) \in Nat
    <3>1. PICK n \in Nat : out = [a \in 1..n |-> out[a]]
      BY DEF ActiveInv
    <3> QED
      BY <3>1
  <2> QED
    BY <1>1, <1>2, <2>1
<1>3. ASSUME Running, Reached(plan[at], held), Offers(plan[at], held, order) # <<>>
      PROVE  WritesUnset(plan[at]) \/ BranchesActive(plan[at].path)
  BY <1>1, <1>3, OffersActive DEF ActiveInv
<1>4. CASE SkipInactive
  BY <1>1, <1>2, <1>4, InvAppend DEF SkipInactive
<1>5. CASE MergeFails
  <2>1. err' # NoError
    BY <1>5 DEF MergeFails, NoError
  <2> QED
    BY <1>5, <2>1, SameActive DEF MergeFails
<1>6. CASE Emit
  <2> DEFINE offers == Offers(plan[at], held, order)
  <2>1. /\ Running /\ Reached(plan[at], held) /\ out' = Append(out, offers)
        /\ at' = at + 1 /\ UNCHANGED <<plan, held, order, err>>
    BY <1>6 DEF Emit, Emitting
  <2> HIDE DEF offers
  <2>2. offers # <<>> => WritesUnset(plan[at]) \/ BranchesActive(plan[at].path)
    BY <1>3, <2>1 DEF offers
  <2> QED
    BY <1>1, <1>2, <2>1, <2>2, InvAppend
<1>7. CASE EmitFails
  <2> DEFINE offers == Offers(plan[at], held, order)
             before == SubSeq(offers, 1, Failing(offers) - 1)
  <2>1. /\ Running /\ Reached(plan[at], held) /\ out' = Append(out, before)
        /\ Failing(offers) # 0 /\ err' = offers[Failing(offers)][2]
        /\ UNCHANGED <<plan, held, order, at>>
    BY <1>7 DEF EmitFails, Emitting
  <2> HIDE DEF offers
  <2>2. offers # <<>> /\ IsFailed(offers[Failing(offers)][2])
    BY <2>1, FailingFails
  <2>3. err' # NoError
    BY <2>1, <2>2 DEF IsFailed, NoError
  <2>4. WritesUnset(plan[at]) \/ BranchesActive(plan[at].path)
    BY <1>3, <2>1, <2>2 DEF offers
  <2> HIDE DEF before
  <2> QED
    BY <1>1, <2>1, <2>3, <2>4, InvAppend
<1>8. CASE UNCHANGED vars
  BY <1>8, SameActive DEF vars
<1> QED
  BY <1>4, <1>5, <1>6, <1>7, <1>8 DEF Next

LEMMA ActiveExclusive == ActiveInv => BranchesExclusive
<1> SUFFICES ASSUME ActiveInv, NEW a \in DOMAIN out, NEW b \in DOMAIN out,
                    out[a] # <<>> /\ ~WritesUnset(plan[a]),
                    out[b] # <<>> /\ ~WritesUnset(plan[b]),
                    Apart(plan[a].path, plan[b].path)
             PROVE  FALSE
  BY DEF BranchesExclusive
<1>1. /\ a \in DOMAIN plan /\ BranchesActive(plan[a].path)
      /\ b \in DOMAIN plan /\ BranchesActive(plan[b].path)
  BY DEF ActiveInv
<1>2. LegalPath(held, plan[a].path) /\ LegalPath(held, plan[b].path)
  BY <1>1, LegalEntries DEF ActiveInv, LegalEntry
<1> QED
  BY <1>1, <1>2, ApartNotActive DEF ActiveInv

(* No message makes entries in different branches of one oneof write: the  *)
(* presence test of every kind of entry, and under emit_empty the guards,  *)
(* look far enough (writer.entry, openBranchGuards), nulls of unset oneofs *)
(* aside.                                                                  *)
THEOREM BranchesApart == Spec => []BranchesExclusive
<1>1. Spec => []ActiveInv
  BY InitActive, StepActive, PTL DEF Spec
<1> QED
  BY <1>1, ActiveExclusive, PTL

-----------------------------------------------------------------------------
(* Presence                                                                *)

(* What active branches show: the guards let the entry through.            *)
LEMMA ActiveIsReached ==
    ASSUME NEW e, LegalPath(held, e.path), BranchesActive(e.path)
    PROVE  Reached(e, held)
<1>1. e.path \in Seq(DOMAIN Info)
  BY DEF LegalPath
<1>2. ASSUME NEW n \in DOMAIN e.path, InOneof(Info[e.path[n]]),
             ~(n = Len(e.path) /\ ~IsMessage(Info[e.path[n]]))
      PROVE  Get(held, Prefix(e.path, n)) # Nil
  <2>1. IsMessage(Info[e.path[n]])
    <3>1. CASE n = Len(e.path)
      BY <1>2, <3>1
    <3>2. CASE n # Len(e.path)
      <4>1. n < Len(e.path)
        BY <1>1, <3>2
      <4> QED
        BY <4>1 DEF LegalPath, IsMessage, Scalars
    <3> QED
      BY <3>1, <3>2
  <2> QED
    BY <1>2, <2>1, ZeroUnlessHeld DEF BranchesActive, Holds
<1> QED
  BY <1>2 DEF Reached

(* The field a path ends in is there to be held.                           *)
LEMMA LeafFacts ==
    ASSUME NEW path, LegalPath(held, path), path # <<>>
    PROVE  /\ path \in DOMAIN held
           /\ Len(path) \in DOMAIN path /\ LeafOf(path) = Info[path[Len(path)]]
           /\ Prefix(path, Len(path)) = path
           /\ InOneof(LeafOf(path)) => ~IsCollection(LeafOf(path)) /\ ~LeafOf(path).optional
<1>1. path \in Seq(DOMAIN Info)
  BY DEF LegalPath
<1>2. Len(path) \in DOMAIN path /\ LeafOf(path) = Info[path[Len(path)]]
  BY <1>1 DEF LeafOf
<1>3. Prefix(path, Len(path)) = path
  BY <1>1, WholePrefix
<1> QED
  BY <1>2, <1>3 DEF LegalPath

(* A field that holds a value is in active branches, and reached.          *)
LEMMA ValueIsReached ==
    ASSUME Consistent(held), NEW e, LegalPath(held, e.path), e.path # <<>>, HoldsValue(e.path)
    PROVE  BranchesActive(e.path) /\ Reached(e, held)
<1>1. held[e.path] # Unset
  BY DEF HoldsValue, Holds
<1>2. InOneof(LeafOf(e.path)) /\ IsMessage(LeafOf(e.path)) => held[e.path][2] # Nil
  BY LeafFacts DEF HoldsValue
<1>3. BranchesActive(e.path)
  BY <1>1, <1>2, HeldIsActive
<1> QED
  BY <1>3, ActiveIsReached

LEMMA ScalarPresence ==
    ASSUME Consistent(held), NEW e, NEW ord, LegalEntry(held, e), e.kind = "scalar",
           LeafOf(e.path).omits = {}
    PROVE  Reached(e, held) /\ Offers(e, held, ord) # <<>>
               <=> IF e.sc.emitEmpty THEN BranchesActive(e.path) ELSE HoldsValue(e.path)
<1> DEFINE f == LeafOf(e.path)
<1>1. LegalPath(held, e.path) /\ e.path # <<>> /\ ~IsCollection(f)
  BY DEF LegalEntry
<1>2. Offers(e, held, ord) # <<>> <=> Worth(e, held)
  <2>1. \A json : Pair(e, json) # <<>>
    BY DEF Pair
  <2> QED
    BY <2>1 DEF Offers, ScalarOffers
<1>3. e.path \in DOMAIN held
  BY <1>1, LeafFacts
<1>4. CASE e.sc.emitEmpty
  <2>1. Worth(e, held) <=> (IsScalarBranch(f) => held[e.path] # Unset)
    BY <1>4 DEF Worth
  <2>2. ASSUME Reached(e, held), Worth(e, held)
        PROVE  BranchesActive(e.path)
    BY <1>1, <1>4, <2>1, <2>2, GuardedIsActive
  <2>3. ASSUME BranchesActive(e.path)
        PROVE  Reached(e, held) /\ Worth(e, held)
    <3>1. IsScalarBranch(f) => held[e.path] # Unset
      BY <1>1, <2>3, LeafFacts DEF BranchesActive, Holds, IsScalarBranch
    <3> QED
      BY <1>1, <2>1, <2>3, <3>1, ActiveIsReached
  <2> QED
    BY <1>2, <1>4, <2>2, <2>3
<1>5. CASE ~e.sc.emitEmpty
  <2>1. Reached(e, held)
    BY <1>5 DEF Reached
  <2>2. Worth(e, held) <=>
            IF IsScalarBranch(f) \/ f.optional THEN held[e.path] # Unset
                                               ELSE Get(held, e.path) # ZeroOf(f.type)
    BY <1>1, <1>5, LeafFacts DEF Worth, IsScalarBranch
  <2>3. /\ held[e.path] # Unset => Get(held, e.path) = held[e.path][2]
        /\ held[e.path] = Unset => Get(held, e.path) = ZeroOf(f.type)
    BY <1>1, ZeroUnlessHeld DEF ZeroOfField
  <2>4. CASE IsMessage(f)
    <3>1. ZeroOf(f.type) = Nil
      BY <1>1, <2>4, NilIsZero
    <3>2. HoldsValue(e.path) <=> held[e.path] # Unset /\ held[e.path][2] # Nil
      BY <1>1, <2>4 DEF HoldsValue, Holds
    <3>3. ~InOneof(f) /\ held[e.path] # Unset => held[e.path][2] # Nil
      BY <1>1, <1>3, <2>4 DEF Consistent
    <3>4. InOneof(f) => ~f.optional
      BY <1>1, LeafFacts
    <3> QED
      BY <1>2, <1>5, <2>1, <2>2, <2>3, <2>4, <3>1, <3>2, <3>3, <3>4 DEF IsScalarBranch
  <2>5. CASE ~IsMessage(f)
    <3>1. HoldsValue(e.path) <=>
              /\ held[e.path] # Unset
              /\ f.optional \/ InOneof(f) \/ held[e.path][2] # ZeroOf(f.type)
      BY <1>1, <2>5 DEF HoldsValue, Holds
    <3> QED
      BY <1>2, <1>5, <2>1, <2>2, <2>3, <2>5, <3>1 DEF IsScalarBranch
  <2> QED
    BY <2>4, <2>5
<1> QED
  BY <1>4, <1>5

LEMMA ObjectPresence ==
    ASSUME Consistent(held), NEW e, NEW ord, LegalEntry(held, e), e.kind = "object"
    PROVE  Reached(e, held) /\ Offers(e, held, ord) # <<>>
               <=> IF e.sc.emitEmpty THEN BranchesActive(e.path) ELSE HoldsValue(e.path)
<1> DEFINE f == LeafOf(e.path)
<1>1. LegalPath(held, e.path) /\ e.path # <<>> /\ ~IsCollection(f) /\ IsMessage(f)
  BY DEF LegalEntry, IsMessage, Scalars
<1>2. Offers(e, held, ord) # <<>> <=> e.sc.emitEmpty \/ Get(held, e.path) # Nil
  <2>1. \A json : Pair(e, json) # <<>>
    BY DEF Pair
  <2> QED
    BY <2>1 DEF Offers, ObjectOffers
<1>3. CASE e.sc.emitEmpty
  <2>1. Reached(e, held) => BranchesActive(e.path)
    BY <1>1, <1>3, GuardedIsActive DEF IsScalarBranch
  <2>2. BranchesActive(e.path) => Reached(e, held)
    BY <1>1, ActiveIsReached
  <2> QED
    BY <1>2, <1>3, <2>1, <2>2
<1>4. CASE ~e.sc.emitEmpty
  <2>1. Reached(e, held)
    BY <1>4 DEF Reached
  <2>2. Get(held, e.path) # Nil <=> held[e.path] # Unset /\ held[e.path][2] # Nil
    BY <1>1, ZeroUnlessHeld, NilIsZero
  <2>3. HoldsValue(e.path) <=> held[e.path] # Unset /\ held[e.path][2] # Nil
    BY <1>1 DEF HoldsValue, Holds
  <2> QED
    BY <1>2, <1>4, <2>1, <2>2, <2>3
<1> QED
  BY <1>3, <1>4

LEMMA CollectionPresence ==
    ASSUME Consistent(held), NEW e, NEW ord, LegalEntry(held, e), e.kind = "collection",
           ~Spreads(e)
    PROVE  Reached(e, held) /\ Offers(e, held, ord) # <<>>
               <=> IF e.sc.emitEmpty /\ ~OneElement(e) THEN BranchesActive(e.path)
                                                       ELSE HoldsValue(e.path)
<1> DEFINE f      == LeafOf(e.path)
           values == Get(held, e.path)
<1>1. LegalPath(held, e.path) /\ e.path # <<>> /\ IsCollection(f) /\ ~InOneof(f)
  BY LeafFacts DEF LegalEntry
<1>2. HoldsValue(e.path) <=> DOMAIN values # {}
  <2>1. HoldsValue(e.path) <=> held[e.path] # Unset /\ DOMAIN held[e.path][2] # {}
    BY <1>1 DEF HoldsValue, Holds
  <2>2. DOMAIN ZeroOfField(f) = {}
    <3>1. ZeroOfField(f) = <<>>
      BY <1>1 DEF ZeroOfField
    <3>2. DOMAIN <<>> = {}
      OBVIOUS
    <3> QED
      BY <3>1, <3>2
  <2> QED
    BY <2>1, <2>2, ZeroUnlessHeld
<1>3. \A json : Pair(e, json) # <<>>
  BY DEF Pair
<1>4. CASE OneElement(e)
  <2>1. Offers(e, held, ord) = PickOffers(e, f, values, ord)
    <3>1. e.sc.cardinality = "EXPLODE" => f.type # "message"
      BY DEF Spreads
    <3>2. e.sc.cardinality = "EXPLODE" =>
              ExplodeOffers(e, f, values, ord) = PickOffers(e, f, values, ord)
      BY <3>1 DEF ExplodeOffers
    <3>3. Offers(e, held, ord) = CollectionOffers(e, held, ord)
      BY DEF Offers
    <3> QED
      BY <1>4, <3>2, <3>3 DEF CollectionOffers, OneElement
  <2>2. Offers(e, held, ord) # <<>> <=> DOMAIN values # {}
    <3> HIDE DEF f, values
    <3> QED
      BY <1>3, <2>1 DEF PickOffers
  <2>3. HoldsValue(e.path) => Reached(e, held)
    BY <1>1, ValueIsReached
  <2> QED
    BY <1>2, <1>4, <2>2, <2>3
<1>5. CASE ~OneElement(e)
  <2>1. \E json : Offers(e, held, ord) = Guarded(e, values, json)
    <3>1. e.sc.cardinality \notin {"FIRST", "LAST", "EXPLODE", "INLINE_KEYS", "INDEXED"}
      BY <1>5 DEF OneElement, Spreads
    <3>2. Offers(e, held, ord) = CollectionOffers(e, held, ord)
      BY DEF Offers
    <3> QED
      BY <3>1, <3>2 DEF CollectionOffers
  <2>2. Offers(e, held, ord) # <<>> <=> e.sc.emitEmpty \/ DOMAIN values # {}
    <3> HIDE DEF f, values
    <3> QED
      BY <1>3, <2>1 DEF Guarded
  <2>3. CASE e.sc.emitEmpty
    <3>1. Reached(e, held) => BranchesActive(e.path)
      BY <1>1, <2>3, GuardedIsActive DEF IsScalarBranch
    <3>2. BranchesActive(e.path) => Reached(e, held)
      BY <1>1, ActiveIsReached
    <3> QED
      BY <1>5, <2>2, <2>3, <3>1, <3>2
  <2>4. CASE ~e.sc.emitEmpty
    <3>1. Reached(e, held)
      BY <2>4 DEF Reached
    <3> QED
      BY <1>2, <2>2, <2>4, <3>1
  <2> QED
    BY <2>3, <2>4
<1> QED
  BY <1>4, <1>5

(* What has been passed without an error has offered all its entry offers. *)
Offered(a) == out[a] = IF Reached(plan[a], held) THEN Offers(plan[a], held, order) ELSE <<>>

OfferedInv == IF err = NoError THEN \A a \in DOMAIN out : Offered(a) ELSE at \in DOMAIN plan

LEMMA OfferedStep == ActiveInv /\ OfferedInv /\ [Next]_vars => OfferedInv'
<1> SUFFICES ASSUME ActiveInv, OfferedInv, [Next]_vars PROVE OfferedInv'
  OBVIOUS
<1>1. UNCHANGED <<plan, held, order>>
  BY DEF Next, SkipInactive, MergeFails, Emit, EmitFails, vars
<1>2. CASE UNCHANGED vars
  BY <1>2 DEF vars, OfferedInv, Offered
<1>3. CASE MergeFails
  BY <1>3 DEF MergeFails, Running, OfferedInv, NoError
<1>4. CASE EmitFails
  <2> DEFINE offers == Offers(plan[at], held, order)
  <2>1. Running /\ Failing(offers) # 0 /\ err' = offers[Failing(offers)][2] /\ UNCHANGED at
    BY <1>4 DEF EmitFails, Emitting
  <2> HIDE DEF offers
  <2>2. err' # NoError
    BY <2>1, FailingFails DEF IsFailed, NoError
  <2> QED
    BY <1>1, <2>1, <2>2 DEF Running, OfferedInv
<1>5. CASE SkipInactive \/ Emit
  <2> DEFINE new == IF Reached(plan[at], held) THEN Offers(plan[at], held, order) ELSE <<>>
  <2>1. Running /\ out' = Append(out, new) /\ UNCHANGED err
    BY <1>5 DEF SkipInactive, Emit, Emitting
  <2> HIDE DEF new
  <2>2. err = NoError /\ at = Len(out) + 1
    BY <2>1 DEF Running, ActiveInv
  <2>3. PICK n \in Nat : out = [a \in 1..n |-> out[a]]
    BY DEF ActiveInv
  <2>4. Len(out) = n /\ DOMAIN out = 1..n
    BY <2>3
  <2>5. out' = [a \in 1..(n + 1) |-> IF a = n + 1 THEN new ELSE out[a]]
    BY <2>1, <2>3, <2>4
  <2>6. ASSUME NEW a \in DOMAIN out'
        PROVE  out'[a] = IF Reached(plan[a], held) THEN Offers(plan[a], held, order) ELSE <<>>
    <3>1. CASE a = n + 1
      BY <2>2, <2>4, <2>5, <3>1 DEF new
    <3>2. CASE a # n + 1
      <4>1. a \in DOMAIN out /\ out'[a] = out[a]
        BY <2>4, <2>5, <3>2
      <4> QED
        BY <2>2, <4>1 DEF OfferedInv, Offered
    <3> QED
      BY <3>1, <3>2
  <2> QED
    BY <1>1, <2>1, <2>2, <2>6 DEF OfferedInv, Offered
<1> QED
  BY <1>2, <1>3, <1>4, <1>5 DEF Next

(* When an encode has ended, each entry has made all its offers.           *)
LEMMA EndedOffers ==
    ASSUME ActiveInv, OfferedInv, Ended, NEW a \in DOMAIN plan
    PROVE  a \in DOMAIN out /\ Offered(a)
<1>1. PICK S : plan \in Seq(S)
  BY CasesAssumption DEF ActiveInv, CaseOf
<1>2. DOMAIN plan = 1..Len(plan) /\ Len(plan) \in Nat
  BY <1>1
<1>3. err = NoError
  BY <1>2 DEF OfferedInv, Ended
<1>4. PICK n \in Nat : out = [b \in 1..n |-> out[b]]
  BY DEF ActiveInv
<1>5. DOMAIN out = 1..n /\ at = n + 1
  BY <1>3, <1>4 DEF ActiveInv
<1>6. a \in DOMAIN out
  BY <1>2, <1>5 DEF Ended
<1> QED
  BY <1>3, <1>6 DEF OfferedInv

LEMMA OfferedInit == Init => OfferedInv
<1> SUFFICES ASSUME Init PROVE OfferedInv
  OBVIOUS
<1>1. err = NoError /\ DOMAIN out = {}
  BY DEF Init
<1> QED
  BY <1>1 DEF OfferedInv

(* A field's key is there when the field holds something, or under         *)
(* emit_empty when the branches it is in are active: for all plans, field  *)
(* types and messages (scalar, object, guardNonEmpty, openBranchGuards).   *)
THEOREM PresenceAsHeld == Spec => []PresenceDecides
<1>1. ActiveInv /\ OfferedInv => PresenceDecides
  <2> SUFFICES ASSUME ActiveInv, OfferedInv, Ended, NEW a \in DOMAIN plan,
                      NEW e, e = plan[a],
                      e.kind \in {"scalar", "object", "collection"},
                      ~Spreads(e), LeafOf(e.path).omits = {}
               PROVE  Writes(a) # <<>>
                          <=> IF e.sc.emitEmpty /\ ~OneElement(e) THEN BranchesActive(e.path)
                                                                  ELSE HoldsValue(e.path)
    BY DEF PresenceDecides
  <2>1. Writes(a) = IF Reached(e, held) THEN Offers(e, held, order) ELSE <<>>
    BY EndedOffers DEF Offered, Writes
  <2>2. Writes(a) # <<>> <=> Reached(e, held) /\ Offers(e, held, order) # <<>>
    BY <2>1
  <2>3. Consistent(held) /\ LegalEntry(held, e)
    BY LegalEntries DEF ActiveInv
  <2>4. e.kind # "collection" => ~OneElement(e)
    BY DEF OneElement
  <2> QED
    BY <2>2, <2>3, <2>4, ScalarPresence, ObjectPresence, CollectionPresence
<1> QED
  BY <1>1, InitActive, StepActive, OfferedInit, OfferedStep, PTL DEF Spec

-----------------------------------------------------------------------------
(* Times                                                                   *)

(* The seconds protobuf allows: years 1 to 9999, and 10000 years.          *)
InTimestampRange(seconds) == seconds >= -62135596800 /\ seconds <= 253402300799
InDurationRange(seconds) == seconds >= -315576000000 /\ seconds <= 315576000000

(* int64 has room for 63 bits.                                             *)
RealConstants == Kilo = 1000 /\ Word > 4000000000000000000

LEMMA WrapFits == ASSUME NEW n \in Int, FitsInt64(n) PROVE Wrap(n) = n
<1>1. /\ n + Word \in 0..(2 * Word) - 1
      /\ 2 * Word > 0
  BY WordAssumption DEF FitsInt64
<1>2. ASSUME NEW a \in Nat, NEW b \in Nat, a < b PROVE a % b = a
  BY <1>2
<1>3. (n + Word) % (2 * Word) = n + Word
  BY <1>1, <1>2, WordAssumption
<1> QED
  BY <1>3, WordAssumption DEF Wrap

LEMMA ModOf ==
    ASSUME NEW M \in Nat, M > 0, NEW x \in 0..M - 1
    PROVE  x % M = x /\ (x + M) % M = x /\ (x - M) % M = x
<1>1. ASSUME NEW y \in Int, NEW q \in {-1, 0, 1}, y = x + q * M PROVE y % M = x
  <2> DEFINE k == y \div M
  <2>1. /\ k \in Int /\ y % M \in 0..M - 1 /\ y = M * k + (y % M)
    BY SMT, <1>1
  <2>2. M * (k - q) > -M /\ M * (k - q) < M
    BY SMT, <1>1, <2>1
  <2> HIDE DEF k
  <2>3. k - q = 0
    BY SMT, <1>1, <2>1, <2>2
  <2> QED
    BY SMT, <1>1, <2>1, <2>3
<1> QED
  BY SMT, <1>1

(* Wrapping a sum's first part changes nothing when the sum fits.          *)
LEMMA WrapSum ==
    ASSUME NEW a \in Int, NEW b \in Int, b < Word, b > -Word, FitsInt64(a + b)
    PROVE  Wrap(Wrap(a) + b) = a + b
<1> DEFINE M == 2 * Word
           x == a + b + Word
           low == a + Word + M
           high == a + Word - M
<1>1. /\ M \in Nat /\ M > 0 /\ x \in 0..M - 1
      /\ a < -Word => low \in 0..M - 1
      /\ a >= Word => high \in 0..M - 1
      /\ a + Word = low - M /\ a + Word = high + M
  BY SMT, WordAssumption DEF FitsInt64
<1>2. /\ Wrap(a) = ((a + Word) % M) - Word
      /\ Wrap(low - Word + b) = ((x + M) % M) - Word
      /\ Wrap(high - Word + b) = ((x - M) % M) - Word
  BY SMT, WordAssumption DEF Wrap
<1> HIDE DEF M, low, high
<1>3. (x + M) % M = x /\ (x - M) % M = x
  <2> HIDE DEF x
  <2> QED
    BY SMT, <1>1, ModOf
<1>4. CASE FitsInt64(a)
  BY SMT, <1>4, WrapFits
<1>5. CASE a < -Word
  <2>1. (low - M) % M = low
    BY SMT, <1>1, <1>5, ModOf
  <2>2. Wrap(a) = low - Word
    BY SMT, <1>1, <1>2, <2>1
  <2> QED
    BY SMT, <1>2, <1>3, <2>2, WordAssumption
<1>6. CASE a >= Word
  <2>1. (high + M) % M = high
    BY SMT, <1>1, <1>6, ModOf
  <2>2. Wrap(a) = high - Word
    BY SMT, <1>1, <1>2, <2>1
  <2> QED
    BY SMT, <1>2, <1>3, <2>2, WordAssumption
<1> QED
  BY SMT, <1>4, <1>5, <1>6, WordAssumption DEF FitsInt64

LEMMA RealUnits == ASSUME RealConstants PROVE Mega = 1000000 /\ Giga = 1000000000
BY SMT DEF RealConstants, Mega, Giga

LEMMA FitsReal ==
    ASSUME RealConstants, NEW n \in Int, n > -1000000000000000000, n < 1000000000000000000
    PROVE  FitsInt64(n)
<1>1. Word \in Int /\ -Word <= n /\ n <= Word - 1
  BY SMT, WordAssumption DEF RealConstants
<1> QED
  BY SMT, <1>1 DEF FitsInt64

(* A time in an integer unit is exact when it fits int64.                  *)
LEMMA EpochExact ==
    ASSUME RealConstants,
           NEW t \in [seconds : Int, nanos : Int],
           NEW unit \in {1000, 1000000, 1000000000},
           FitsInt64(t.seconds * unit),
           FitsInt64(t.seconds * unit + Quot(t.nanos, Giga \div unit))
    PROVE  SinceEpoch(t, unit) = t.seconds * unit + Quot(t.nanos, Giga \div unit)
<1>1. t.seconds * unit \in Int /\ Quot(t.nanos, Giga \div unit) \in Int
  BY SMT, RealUnits DEF Quot
<1>2. Wrap(t.seconds * unit) = t.seconds * unit
  BY SMT, <1>1, WrapFits
<1> QED
  BY SMT, <1>1, <1>2, WrapFits DEF SinceEpoch

(* The fraction of a second is written to its last digit.                  *)
LEMMA FractionExact ==
    ASSUME RealConstants, NEW nanos \in Nat, nanos < Giga
    PROVE  ReadFraction(Fraction(nanos)) = nanos
BY SMT, RealUnits DEF ReadFraction, Fraction, Groups, Weight, RealConstants

(* In nanoseconds the product alone may wrap although the sum fits: the    *)
(* sum then wraps back.                                                    *)
LEMMA NanosExact ==
    ASSUME RealConstants,
           NEW t \in [seconds : Int, nanos : Int],
           t.nanos < Giga, t.nanos > -Giga,
           FitsInt64(Instant(t))
    PROVE  SinceEpoch(t, Giga) = Instant(t)
<1>1. Quot(t.nanos, Giga \div Giga) = t.nanos
  BY SMT, RealUnits DEF Quot
<1>2. /\ t.seconds * Giga \in Int /\ t.nanos \in Int
      /\ t.nanos < Word /\ t.nanos > -Word
  BY SMT, RealUnits, WordAssumption DEF RealConstants
<1>3. Wrap(Wrap(t.seconds * Giga) + t.nanos) = t.seconds * Giga + t.nanos
  BY SMT, <1>2, WrapSum DEF Instant
<1> QED
  BY SMT, <1>1, <1>3 DEF SinceEpoch, Instant

(* Every valid timestamp is written so that it reads back, in every        *)
(* format; in nanoseconds only when int64 holds it (encode.go Timestamp).  *)
THEOREM TimestampsReadBack ==
    ASSUME RealConstants,
           NEW t \in [seconds : Int, nanos : Int],
           ValidTimestamp(t), InTimestampRange(t.seconds),
           NEW format \in TimeFormats
    PROVE  TimestampExact(TimestampJSON(t, format), t, format)
<1> SUFFICES ASSUME format = "UNIX_NANO" => FitsInt64(Instant(t))
             PROVE  ReadTimestamp(TimestampJSON(t, format), format)
                        = Instant(t) - (Instant(t) % Resolution(format))
  BY SMT DEF TimestampExact
<1> DEFINE s == t.seconds
           n == t.nanos
<1>1. /\ s \in Int /\ s >= -62135596800 /\ s <= 253402300799
      /\ n \in Int /\ n >= 0 /\ n < 1000000000
  BY SMT, RealUnits DEF ValidTimestamp, InTimestampRange
<1>2. Kilo = 1000 /\ Mega = 1000000 /\ Giga = 1000000000 /\ Word > 4000000000000000000
  BY SMT, RealUnits DEF RealConstants
<1>3. Instant(t) = s * 1000000000 + n
  BY SMT, <1>1, <1>2 DEF Instant
<1> HIDE DEF s, n
<1>4. CASE format = "RFC3339"
  <2>1. n \in Nat /\ n \div Giga = 0 /\ n % Giga = n
    BY SMT, <1>1, <1>2
  <2>2. TimestampJSON(t, format) = Str(<<"time", s, Fraction(n)>>)
    BY SMT, <1>1, <1>4, <2>1 DEF TimestampJSON, RFC3339, s, n
  <2>3. ReadFraction(Fraction(n)) = n
    BY SMT, <1>1, <1>2, FractionExact
  <2>4. ReadTimestamp(TimestampJSON(t, format), format) = s * Giga + n
    BY SMT, <1>4, <2>2, <2>3 DEF ReadTimestamp, Str
  <2> QED
    BY SMT, <1>1, <1>2, <1>3, <1>4, <2>4 DEF Resolution
<1>5. CASE format = "UNIX_SECONDS"
  <2>1. ReadTimestamp(TimestampJSON(t, format), format) = s * Giga
    BY SMT, <1>5 DEF ReadTimestamp, TimestampJSON, Num, Resolution, s
  <2> QED
    BY SMT, <1>1, <1>2, <1>3, <1>5, <2>1 DEF Resolution
<1>6. CASE format = "UNIX_MILLI"
  <2>1. SinceEpoch(t, Kilo) = s * 1000 + (n \div 1000000)
    <3>1. Giga \div 1000 = 1000000
      BY SMT, <1>2
    <3>2. Quot(n, 1000000) = (n \div 1000000)
      BY SMT, <1>1 DEF Quot
    <3>3. FitsInt64(s * 1000) /\ FitsInt64(s * 1000 + Quot(n, 1000000))
      <4>1. /\ Quot(n, 1000000) \in Int
            /\ Quot(n, 1000000) > -1000000000 /\ Quot(n, 1000000) < 1000000000
        BY SMT, <1>1 DEF Quot
      <4>2. s * 1000 \in Int /\ s * 1000 + Quot(n, 1000000) \in Int
        BY SMT, <1>1, <4>1
      <4> QED
        BY SMT, <1>1, <4>1, <4>2, FitsReal
    <3>4. SinceEpoch(t, 1000) = s * 1000 + Quot(n, 1000000)
      BY SMT, <3>1, <3>3, EpochExact DEF s, n
    <3> QED
      BY SMT, <1>2, <3>2, <3>4
  <2>2. ReadTimestamp(TimestampJSON(t, format), format) = (s * 1000 + (n \div 1000000)) * Mega
    BY SMT, <1>6, <2>1 DEF ReadTimestamp, TimestampJSON, Num, Resolution
  <2> QED
    BY SMT, <1>1, <1>2, <1>3, <1>6, <2>2 DEF Resolution
<1>7. CASE format = "UNIX_MICRO"
  <2>1. SinceEpoch(t, Mega) = s * 1000000 + (n \div 1000)
    <3>1. Giga \div 1000000 = 1000
      BY SMT, <1>2
    <3>2. Quot(n, 1000) = (n \div 1000)
      BY SMT, <1>1 DEF Quot
    <3>3. FitsInt64(s * 1000000) /\ FitsInt64(s * 1000000 + Quot(n, 1000))
      <4>1. /\ Quot(n, 1000) \in Int
            /\ Quot(n, 1000) > -1000000000 /\ Quot(n, 1000) < 1000000000
        BY SMT, <1>1 DEF Quot
      <4>2. s * 1000000 \in Int /\ s * 1000000 + Quot(n, 1000) \in Int
        BY SMT, <1>1, <4>1
      <4> QED
        BY SMT, <1>1, <4>1, <4>2, FitsReal
    <3>4. SinceEpoch(t, 1000000) = s * 1000000 + Quot(n, 1000)
      BY SMT, <3>1, <3>3, EpochExact DEF s, n
    <3> QED
      BY SMT, <1>2, <3>2, <3>4
  <2>2. ReadTimestamp(TimestampJSON(t, format), format) = (s * 1000000 + (n \div 1000)) * Kilo
    BY SMT, <1>7, <2>1 DEF ReadTimestamp, TimestampJSON, Num, Resolution
  <2> QED
    BY SMT, <1>1, <1>2, <1>3, <1>7, <2>2 DEF Resolution
<1>8. CASE format = "UNIX_NANO"
  <2>1. SinceEpoch(t, Giga) = s * 1000000000 + n
    BY SMT, <1>1, <1>2, <1>3, <1>8, NanosExact DEF s, n
  <2>2. ReadTimestamp(TimestampJSON(t, format), format) = s * 1000000000 + n
    BY SMT, <1>1, <1>8, <2>1 DEF ReadTimestamp, TimestampJSON, Num, Resolution
  <2> QED
    BY SMT, <1>1, <1>2, <1>3, <1>8, <2>2 DEF Resolution
<1> QED
  BY SMT, <1>4, <1>5, <1>6, <1>7, <1>8 DEF TimeFormats

(* A valid duration's nanoseconds have its seconds' sign, so that the sign *)
(* and the magnitudes protojsonDuration writes read back too.              *)
THEOREM DurationsReadBack ==
    ASSUME RealConstants,
           NEW d \in [seconds : Int, nanos : Int],
           ValidDuration(d), InDurationRange(d.seconds),
           NEW format \in DurationFormats
    PROVE  DurationExact(DurationJSON(d, format), d, format)
<1> SUFFICES ASSUME format = "NANOS" => FitsInt64(Instant(d))
             PROVE  ReadDuration(DurationJSON(d, format), format)
                        = Quot(Instant(d), Resolution(format)) * Resolution(format)
  BY SMT DEF DurationExact
<1> DEFINE s == d.seconds
           n == d.nanos
<1>1. /\ s \in Int /\ s >= -315576000000 /\ s <= 315576000000
      /\ n \in Int /\ n > -1000000000 /\ n < 1000000000
      /\ s > 0 => n >= 0
      /\ s < 0 => n <= 0
  BY SMT, RealUnits DEF ValidDuration, InDurationRange
<1>2. Kilo = 1000 /\ Mega = 1000000 /\ Giga = 1000000000 /\ Word > 4000000000000000000
  BY SMT, RealUnits DEF RealConstants
<1>3. Instant(d) = s * 1000000000 + n
  BY SMT, <1>1, <1>2 DEF Instant
<1>4. ASSUME NEW i \in Int PROVE Quot(i, 1) * 1 = i
  BY SMT DEF Quot
<1> HIDE DEF s, n
<1>5. CASE format = "PROTOJSON"
  <2>1. CASE Negative(d)
    <3>1. s <= 0 /\ n <= 0
      BY SMT, <1>1, <2>1 DEF Negative, s, n
    <3>2. Wrap(-s) = -s
      <4>1. -s \in Int /\ FitsInt64(-s)
        BY SMT, <1>1, FitsReal
      <4> QED
        BY SMT, <4>1, WrapFits
    <3>3. ReadFraction(Fraction(-n)) = -n
      BY SMT, <1>1, <1>2, <3>1, FractionExact
    <3>4. DurationJSON(d, format) = Str(<<"duration", -1, -s, Fraction(-n)>>)
      BY SMT, <1>5, <2>1, <3>2 DEF DurationJSON, DurationText, s, n
    <3> DEFINE fraction == Fraction(-n)
    <3> HIDE DEF fraction
    <3>5. ReadDuration(DurationJSON(d, format), format)
              = (-1) * ((-s) * Giga + ReadFraction(fraction))
      <4> DEFINE text == <<"duration", -1, -s, fraction>>
      <4>1. text[2] = -1 /\ text[3] = -s /\ text[4] = fraction
        OBVIOUS
      <4> HIDE DEF text
      <4>2. DurationJSON(d, format)[2] = text
        BY SMT, <3>4 DEF Str, fraction, text
      <4> DEFINE json == DurationJSON(d, format)
      <4> HIDE DEF json
      <4>3. ReadDuration(json, "PROTOJSON")
                = json[2][2] * (json[2][3] * Giga + ReadFraction(json[2][4]))
        BY SMT DEF ReadDuration
      <4>4. json[2][2] = -1 /\ json[2][3] = -s /\ json[2][4] = fraction
        BY SMT, <4>1, <4>2 DEF json
      <4> QED
        BY SMT, <1>5, <4>3, <4>4 DEF json
    <3>6. ReadDuration(DurationJSON(d, format), format) = Instant(d)
      BY SMT, <1>1, <1>2, <1>3, <3>3, <3>5 DEF fraction
    <3> QED
      BY SMT, <1>1, <1>3, <1>4, <1>5, <3>6 DEF Resolution
  <2>2. CASE ~Negative(d)
    <3>1. s >= 0 /\ n >= 0
      BY SMT, <1>1, <2>2 DEF Negative, s, n
    <3>2. ReadFraction(Fraction(n)) = n
      BY SMT, <1>1, <1>2, <3>1, FractionExact
    <3>3. DurationJSON(d, format) = Str(<<"duration", 1, s, Fraction(n)>>)
      BY SMT, <1>5, <2>2 DEF DurationJSON, DurationText, s, n
    <3>4. ReadDuration(DurationJSON(d, format), format) = 1 * (s * Giga + n)
      BY SMT, <1>5, <3>2, <3>3 DEF ReadDuration, Str
    <3>5. ReadDuration(DurationJSON(d, format), format) = Instant(d)
      BY SMT, <1>1, <1>2, <1>3, <3>4
    <3> QED
      BY SMT, <1>1, <1>3, <1>4, <1>5, <3>5 DEF Resolution
  <2> QED
    BY SMT, <2>1, <2>2
<1>6. CASE format = "SECONDS"
  <2>1. ReadDuration(DurationJSON(d, format), format) = Instant(d)
    BY SMT, <1>6 DEF ReadDuration, DurationJSON, Num, Instant
  <2> QED
    BY SMT, <1>1, <1>3, <1>4, <1>6, <2>1 DEF Resolution
<1>7. CASE format = "MILLIS"
  <2>1. SinceEpoch(d, Kilo) = s * 1000 + Quot(n, 1000000)
    <3>1. Giga \div 1000 = 1000000
      BY SMT, <1>2
    <3>2. Quot(n, 1000000) = Quot(n, 1000000)
      BY SMT, <1>1 DEF Quot
    <3>3. FitsInt64(s * 1000) /\ FitsInt64(s * 1000 + Quot(n, 1000000))
      <4>1. /\ Quot(n, 1000000) \in Int
            /\ Quot(n, 1000000) > -1000000000 /\ Quot(n, 1000000) < 1000000000
        BY SMT, <1>1 DEF Quot
      <4>2. s * 1000 \in Int /\ s * 1000 + Quot(n, 1000000) \in Int
        BY SMT, <1>1, <4>1
      <4> QED
        BY SMT, <1>1, <4>1, <4>2, FitsReal
    <3>4. SinceEpoch(d, 1000) = s * 1000 + Quot(n, 1000000)
      BY SMT, <3>1, <3>3, EpochExact DEF s, n
    <3> QED
      BY SMT, <1>2, <3>2, <3>4
  <2>2. ReadDuration(DurationJSON(d, format), format) = (s * 1000 + Quot(n, 1000000)) * 1000000
    BY SMT, <1>2, <1>7, <2>1 DEF ReadDuration, DurationJSON, Num, Resolution
  <2>3. Quot(Instant(d), 1000000) = s * 1000 + Quot(n, 1000000)
    BY SMT, <1>1, <1>3 DEF Quot
  <2> QED
    BY SMT, <1>2, <1>7, <2>2, <2>3 DEF Resolution
<1>8. CASE format = "NANOS"
  <2>1. SinceEpoch(d, Giga) = Instant(d)
    BY SMT, <1>1, <1>2, <1>8, NanosExact DEF s, n
  <2>2. ReadDuration(DurationJSON(d, format), format) = Instant(d)
    BY SMT, <1>1, <1>3, <1>8, <2>1 DEF ReadDuration, DurationJSON, Num, Resolution
  <2> QED
    BY SMT, <1>1, <1>3, <1>4, <1>8, <2>2 DEF Resolution
<1> QED
  BY SMT, <1>5, <1>6, <1>7, <1>8 DEF DurationFormats

(* What the messages hold is what protobuf allows, and the scopes ask for  *)
(* formats there are.                                                      *)
TimesAllowed ==
    \A c \in Cases : \A a \in DOMAIN c.plan : \A m \in c.messages :
        LET path == c.plan[a].path
            sc   == c.plan[a].sc
            t    == m[path][2][2]
        IN  /\ c.plan[a].kind = "scalar" /\ LeafOf(path).type \in {"Timestamp", "Duration"}
            /\ m[path] # Unset /\ m[path][2] # Nil
            =>
                /\ LeafOf(path).type = "Timestamp" =>
                      /\ t \in [seconds : Int, nanos : Int]
                      /\ ValidTimestamp(t) /\ InTimestampRange(t.seconds)
                      /\ sc.time \in TimeFormats
                /\ LeafOf(path).type = "Duration" =>
                      /\ t \in [seconds : Int, nanos : Int]
                      /\ ValidDuration(t) /\ InDurationRange(t.seconds)
                      /\ sc.duration \in DurationFormats

(* An entry has offered all it has to offer, nothing, or in an encode that *)
(* failed what came before the failure.                                    *)
Part(offers, some) ==
    \/ some \in {<<>>, offers}
    \/ \E n \in 1..Len(offers) : some = SubSeq(offers, 1, n - 1)

PartsInv == \A a \in DOMAIN out : Part(Offers(plan[a], held, order), out[a])

LEMMA PartsAppend ==
    ASSUME ActiveInv, PartsInv, Running, NEW some,
           Part(Offers(plan[at], held, order), some),
           out' = Append(out, some), UNCHANGED <<plan, held, order>>
    PROVE  PartsInv'
<1>1. at = Len(out) + 1
  BY DEF Running, ActiveInv
<1>2. PICK n \in Nat : out = [a \in 1..n |-> out[a]]
  BY DEF ActiveInv
<1>3. Len(out) = n /\ DOMAIN out = 1..n
  BY <1>2
<1>4. out' = [a \in 1..(n + 1) |-> IF a = n + 1 THEN some ELSE out[a]]
  BY <1>2, <1>3
<1>5. ASSUME NEW a \in DOMAIN out' PROVE Part(Offers(plan[a], held, order), out'[a])
  <2>1. CASE a = n + 1
    BY <1>1, <1>3, <1>4, <2>1
  <2>2. CASE a # n + 1
    <3>1. a \in DOMAIN out /\ out'[a] = out[a]
      BY <1>3, <1>4, <2>2
    <3> QED
      BY <3>1 DEF PartsInv
  <2> QED
    BY <2>1, <2>2
<1> QED
  BY <1>5 DEF PartsInv

LEMMA PartsStep == ActiveInv /\ PartsInv /\ [Next]_vars => PartsInv'
<1> SUFFICES ASSUME ActiveInv, PartsInv, [Next]_vars PROVE PartsInv'
  OBVIOUS
<1>1. CASE UNCHANGED vars \/ MergeFails
  <2>1. UNCHANGED <<plan, held, order, out>>
    BY <1>1 DEF vars, MergeFails
  <2> QED
    BY <2>1 DEF PartsInv
<1>2. CASE SkipInactive
  BY <1>2, PartsAppend DEF SkipInactive, Part
<1>3. CASE Emit
  <2> DEFINE offers == Offers(plan[at], held, order)
  <2>1. Running /\ out' = Append(out, offers) /\ UNCHANGED <<plan, held, order>>
    BY <1>3 DEF Emit, Emitting
  <2>2. Part(offers, offers)
    BY DEF Part
  <2> HIDE DEF offers
  <2> QED
    BY <2>1, <2>2, PartsAppend DEF offers
<1>4. CASE EmitFails
  <2> DEFINE offers == Offers(plan[at], held, order)
             some   == SubSeq(offers, 1, Failing(offers) - 1)
  <2>1. /\ Running /\ Failing(offers) # 0 /\ out' = Append(out, some)
        /\ UNCHANGED <<plan, held, order>>
    BY <1>4 DEF EmitFails, Emitting
  <2> HIDE DEF offers
  <2>2. Part(offers, some)
    BY <2>1, FailingFails DEF Part
  <2> HIDE DEF some
  <2> QED
    BY <2>1, <2>2, PartsAppend DEF offers
<1> QED
  BY <1>1, <1>2, <1>3, <1>4 DEF Next

(* A scalar entry writes its one value or nothing.                         *)
LEMMA ScalarWrites ==
    ASSUME PartsInv, NEW a \in DOMAIN out, plan[a].kind = "scalar", NEW json \in Written(a)
    PROVE  json = ValueJSON(LeafOf(plan[a].path).type, Get(held, plan[a].path), plan[a].sc, order)
<1> DEFINE e      == plan[a]
           v      == ValueJSON(LeafOf(e.path).type, Get(held, e.path), e.sc, order)
           offers == Offers(e, held, order)
<1>1. offers = ScalarOffers(e, held, order)
  BY DEF Offers
<1>2. offers = <<>> \/ offers = << <<e.key, v>> >>
  BY <1>1 DEF ScalarOffers, Pair
<1>3. Part(offers, out[a])
  BY DEF PartsInv
<1> HIDE DEF offers, v
<1>4. out[a] = <<>> \/ out[a] = << <<e.key, v>> >>
  <2>1. ASSUME NEW n \in 1..Len(offers) PROVE SubSeq(offers, 1, n - 1) = <<>>
    <3>1. n = 1
      BY <1>2, <2>1
    <3>2. offers = << <<e.key, v>> >>
      BY <1>2, <2>1
    <3> QED
      BY <3>1, <3>2
  <2> QED
    BY <1>2, <1>3, <2>1 DEF Part
<1>5. \A pair \in Range(out[a]) : pair = <<e.key, v>>
  BY <1>4 DEF Range
<1>6. json = v
  BY <1>5 DEF Written, Writes
<1> QED
  BY <1>6 DEF v

(* The times a message holds are written so that they read back, with      *)
(* whatever else the plan has (scalar, Timestamp and Duration).            *)
THEOREM TimesAsHeld ==
    ASSUME RealConstants, TimesAllowed
    PROVE  Spec => []TimesReadBack
<1>1. ActiveInv /\ PartsInv => TimesReadBack
  <2> SUFFICES ASSUME ActiveInv, PartsInv, NEW a \in DOMAIN out, NEW json \in Written(a),
                      NEW e, e = plan[a], e.kind = "scalar", HoldsValue(e.path),
                      NEW v, v = held[e.path][2][2]
               PROVE  /\ LeafOf(e.path).type = "Timestamp" => TimestampExact(json, v, e.sc.time)
                      /\ LeafOf(e.path).type = "Duration" => DurationExact(json, v, e.sc.duration)
    BY DEF TimesReadBack
  <2>1. out[a] # <<>>
    BY DEF Written, Writes, Range
  <2>2. a \in DOMAIN plan
    BY <2>1 DEF ActiveInv
  <2>3. json = ValueJSON(LeafOf(e.path).type, Get(held, e.path), e.sc, order)
    BY ScalarWrites
  <2>4. ~IsCollection(LeafOf(e.path))
    BY <2>2, LegalEntries DEF ActiveInv, LegalEntry
  <2>5. held[e.path] # Unset /\ Get(held, e.path) = held[e.path][2]
    BY DEF HoldsValue, Holds, Get
  <2>6. PICK c \in Cases : plan = c.plan /\ held \in c.messages
    BY DEF ActiveInv, CaseOf
  <2>7. CASE LeafOf(e.path).type = "Timestamp"
    <3>1. held[e.path][2] # Nil
      BY <2>4, <2>7 DEF HoldsValue, IsMessage, Scalars
    <3>2. json = TimestampJSON(v, e.sc.time)
      BY <2>3, <2>5, <2>7, <3>1 DEF ValueJSON, WellKnownJSON, ContentJSON, WellKnown, Wrapped, Scalars
    <3>3. /\ v \in [seconds : Int, nanos : Int]
          /\ ValidTimestamp(v) /\ InTimestampRange(v.seconds) /\ e.sc.time \in TimeFormats
      BY <2>2, <2>5, <2>6, <2>7, <3>1 DEF TimesAllowed
    <3> QED
      BY <2>7, <3>2, <3>3, TimestampsReadBack
  <2>8. CASE LeafOf(e.path).type = "Duration"
    <3>1. held[e.path][2] # Nil
      BY <2>4, <2>8 DEF HoldsValue, IsMessage, Scalars
    <3>2. json = DurationJSON(v, e.sc.duration)
      BY <2>3, <2>5, <2>8, <3>1 DEF ValueJSON, WellKnownJSON, ContentJSON, WellKnown, Wrapped, Scalars
    <3>3. /\ v \in [seconds : Int, nanos : Int]
          /\ ValidDuration(v) /\ InDurationRange(v.seconds) /\ e.sc.duration \in DurationFormats
      BY <2>2, <2>5, <2>6, <2>8, <3>1 DEF TimesAllowed
    <3> QED
      BY <2>8, <3>2, <3>3, DurationsReadBack
  <2> QED
    BY <2>7, <2>8
<1>2. Init => PartsInv
  <2>1. Init => DOMAIN out = {}
    BY DEF Init
  <2> QED
    BY <2>1 DEF PartsInv
<1> QED
  BY <1>1, <1>2, InitActive, StepActive, PartsStep, PTL DEF Spec

-----------------------------------------------------------------------------
(* Merge rules                                                             *)

LiveStep(e, m, live, n) ==
    IF n = 0 THEN <<>>
    ELSE IF Present(m, e.sources[n]) THEN Append(live[n - 1], e.sources[n]) ELSE live[n - 1]

(* The loop over the sources does what its steps say.                      *)
LEMMA LiveSteps ==
    ASSUME NEW e, NEW m, Len(e.sources) \in Nat
    PROVE  \A n \in 0..Len(e.sources) : LiveTo(e, m)[n] = LiveStep(e, m, LiveTo(e, m), n)
<1> DEFINE N == Len(e.sources)
           Solves(live) == live = [n \in 0..N |-> LiveStep(e, m, live, n)]
           Known(k) == \E live : \A n \in 0..N : n <= k => live[n] = LiveStep(e, m, live, n)
           Bad == {k \in Nat : ~Known(k)}
<1>1. LiveTo(e, m) = CHOOSE live : Solves(live)
  BY Zenon DEF LiveTo, LiveStep
<1>2. Bad = {}
  <2> SUFFICES ASSUME Bad # {} PROVE FALSE
    OBVIOUS
  <2>1. Min(Bad) \in Bad /\ \A k \in Bad : Min(Bad) <= k
    BY MinMember
  <2> DEFINE k == Min(Bad)
  <2>2. k \in Nat /\ ~Known(k)
    BY <2>1
  <2>3. k # 0
    <3>1. Known(0)
      <4> DEFINE live == [n \in 0..N |-> <<>>]
      <4>1. \A n \in 0..N : n <= 0 => live[n] = LiveStep(e, m, live, n)
        BY DEF LiveStep
      <4> QED
        BY <4>1
    <3> QED
      BY <2>2, <3>1
  <2>4. Known(k - 1)
    <3>1. k - 1 \in Nat /\ ~(k <= k - 1)
      BY <2>2, <2>3
    <3>2. k - 1 \notin Bad
      BY <2>1, <3>1
    <3> QED
      BY <3>1, <3>2
  <2>5. PICK old : \A n \in 0..N : n <= k - 1 => old[n] = LiveStep(e, m, old, n)
    BY <2>4
  <2> DEFINE new == [n \in 0..N |-> LiveStep(e, m, old, n)]
  <2>6. ASSUME NEW n \in 0..N, n <= k PROVE new[n] = LiveStep(e, m, new, n)
    <3>1. CASE n = 0
      BY <3>1 DEF LiveStep
    <3>2. CASE n # 0
      <4>1. n - 1 \in 0..N /\ n - 1 <= k - 1
        BY <2>2, <2>6, <3>2
      <4>2. new[n - 1] = old[n - 1]
        BY <2>5, <4>1
      <4>3. new[n] = LiveStep(e, m, old, n)
        OBVIOUS
      <4> HIDE DEF new
      <4> QED
        BY <3>2, <4>2, <4>3 DEF LiveStep
    <3> QED
      BY <3>1, <3>2
  <2>7. Known(k)
    <3> HIDE DEF new
    <3> QED
      BY <2>6
  <2> QED
    BY <2>2, <2>7
<1>3. Known(N)
  BY <1>2
<1>4. PICK live : \A n \in 0..N : n <= N => live[n] = LiveStep(e, m, live, n)
  BY <1>3
<1> DEFINE found == [n \in 0..N |-> live[n]]
<1>5. ASSUME NEW n \in 0..N PROVE LiveStep(e, m, found, n) = live[n]
  <2>1. live[n] = LiveStep(e, m, live, n)
    BY <1>4
  <2>2. n # 0 => found[n - 1] = live[n - 1]
    OBVIOUS
  <2> HIDE DEF found
  <2> QED
    BY <2>1, <2>2 DEF LiveStep
<1>6. Solves(found)
  <2>1. \A n \in 0..N : found[n] = live[n]
    OBVIOUS
  <2> DEFINE F == [n \in 0..N |-> LiveStep(e, m, found, n)]
  <2>2. F = [n \in 0..N |-> live[n]]
    BY <1>5
  <2> QED
    BY <2>2
<1>7. Solves(LiveTo(e, m))
  <2> HIDE DEF Solves
  <2> QED
    BY <1>1, <1>6, Zenon
<1> QED
  <2> DEFINE T == LiveTo(e, m)
  <2>1. T = [n \in 0..N |-> LiveStep(e, m, T, n)]
    BY <1>7
  <2> HIDE DEF T
  <2> SUFFICES \A n \in 0..N : T[n] = LiveStep(e, m, T, n)
    BY DEF T
  <2>2. ASSUME NEW n \in 0..N PROVE T[n] = LiveStep(e, m, T, n)
    <3> DEFINE B(i) == LiveStep(e, m, T, i)
    <3>1. T = [i \in 0..N |-> B(i)]
      BY <2>1
    <3> HIDE DEF B
    <3>2. T[n] = B(n)
      BY <3>1
    <3> QED
      BY <3>2 DEF B
  <2> QED
    BY <2>2

LiveUpTo(e, m, n) == {i \in 1..n : Present(m, e.sources[i])}

LEMMA ListsAppend ==
    ASSUME NEW S, NEW list \in Seq(S), NEW sources, NEW some \in SUBSET Nat,
           NEW n \in Nat, \A i \in some : i < n,
           Lists(list, sources, some), NEW x \in S, x = sources[n]
    PROVE  Lists(Append(list, x), sources, some \cup {n})
<1> DEFINE k   == Len(list)
           new == Append(list, x)
<1>1. k \in Nat /\ DOMAIN list = 1..k
  OBVIOUS
<1>2. DOMAIN new = 1..(k + 1) /\ new[k + 1] = x /\ \A i \in 1..k : new[i] = list[i]
  OBVIOUS
<1>3. PICK place \in [1..k -> some] :
          /\ \A i, j \in 1..k : i < j => place[i] < place[j]
          /\ Range(place) = some
          /\ \A i \in 1..k : list[i] = sources[place[i]]
  BY <1>1 DEF Lists
<1> DEFINE next == [i \in 1..(k + 1) |-> IF i = k + 1 THEN n ELSE place[i]]
<1> HIDE DEF new, k
<1>4. next \in [1..(k + 1) -> some \cup {n}]
  BY <1>1, <1>3
<1>5. ASSUME NEW i \in 1..(k + 1), NEW j \in 1..(k + 1), i < j
      PROVE  next[i] < next[j]
  <2>1. i # k + 1 /\ i \in 1..k
    BY <1>1, <1>5
  <2>2. next[i] = place[i] /\ place[i] \in some
    BY <1>3, <2>1
  <2>3. CASE j = k + 1
    BY <2>2, <2>3
  <2>4. CASE j # k + 1
    BY <1>1, <1>3, <1>5, <2>1, <2>2, <2>4
  <2> QED
    BY <2>3, <2>4
<1>6. Range(next) = some \cup {n}
  <2>1. \A i \in 1..(k + 1) : next[i] \in some \cup {n}
    BY <1>4
  <2>2. n \in Range(next)
    <3>1. k + 1 \in 1..(k + 1) /\ next[k + 1] = n
      BY <1>1
    <3> QED
      BY <3>1 DEF Range
  <2>3. ASSUME NEW v \in some PROVE v \in Range(next)
    <3>1. PICK i \in 1..k : place[i] = v
      BY <1>3 DEF Range
    <3>2. i \in 1..(k + 1) /\ next[i] = v
      BY <1>1, <3>1
    <3> QED
      BY <3>2 DEF Range
  <2> QED
    BY <2>1, <2>2, <2>3 DEF Range
<1>7. ASSUME NEW i \in 1..(k + 1) PROVE new[i] = sources[next[i]]
  <2>1. CASE i = k + 1
    BY <1>2, <2>1
  <2>2. CASE i # k + 1
    <3>1. i \in 1..k
      BY <1>1, <2>2
    <3> QED
      BY <1>2, <1>3, <2>2, <3>1
  <2> QED
    BY <2>1, <2>2
<1> HIDE DEF next
<1>8. \E p \in [1..(k + 1) -> some \cup {n}] :
        /\ \A i, j \in 1..(k + 1) : i < j => p[i] < p[j]
        /\ Range(p) = some \cup {n}
        /\ \A i \in 1..(k + 1) : new[i] = sources[p[i]]
  <2> WITNESS next \in [1..(k + 1) -> some \cup {n}]
  <2> QED
    BY <1>5, <1>6, <1>7
<1>9. Lists(new, sources, some \cup {n})
  BY <1>2, <1>8 DEF Lists
<1> QED
  BY <1>9 DEF new

(* The list is of the sources that hold a value, each of them once.        *)
LEMMA LiveListed ==
    ASSUME NEW e, NEW m, e.sources \in Seq(Range(e.sources))
    PROVE  /\ Live(e, m) \in Seq(Range(e.sources))
           /\ Lists(Live(e, m), e.sources, {n \in DOMAIN e.sources : Present(m, e.sources[n])})
<1> DEFINE N  == Len(e.sources)
           L  == LiveTo(e, m)
           S  == Range(e.sources)
           Ok(n) == L[n] \in Seq(S) /\ Lists(L[n], e.sources, LiveUpTo(e, m, n))
           Bad == {n \in 0..N : ~Ok(n)}
<1>1. N \in Nat /\ DOMAIN e.sources = 1..N /\ \A i \in 1..N : e.sources[i] \in S
  OBVIOUS
<1>2. \A n \in 0..N : L[n] = LiveStep(e, m, L, n)
  BY <1>1, LiveSteps
<1> HIDE DEF N, L, S
<1>3. Ok(0)
  <2>1. L[0] = <<>>
    BY <1>1, <1>2 DEF LiveStep
  <2>2. LiveUpTo(e, m, 0) = {}
    BY DEF LiveUpTo
  <2>3. DOMAIN L[0] = {}
    BY <2>1
  <2>4. Lists(L[0], e.sources, {})
    <3> DEFINE p == [x \in {} |-> 0]
    <3>1. p \in [{} -> {}] /\ Range(p) = {}
      BY DEF Range
    <3> HIDE DEF p
    <3> QED
      BY <2>3, <3>1 DEF Lists
  <2>5. L[0] \in Seq(S)
    BY <2>1
  <2> QED
    BY <2>2, <2>4, <2>5
<1>4. Bad = {}
  <2> SUFFICES ASSUME Bad # {} PROVE FALSE
    OBVIOUS
  <2>1. Min(Bad) \in Bad /\ \A n \in Bad : Min(Bad) <= n
    <3>1. Bad \in SUBSET Nat
      BY <1>1
    <3> HIDE DEF Bad
    <3> QED
      BY <3>1, MinMember
  <2> DEFINE n == Min(Bad)
  <2>2. n \in 0..N /\ ~Ok(n)
    BY <2>1
  <2>3. n \in 1..N /\ n - 1 \in 0..N /\ ~(n <= n - 1)
    BY <1>1, <1>3, <2>2
  <2>4. Ok(n - 1)
    <3>1. n - 1 \notin Bad
      BY <2>1, <2>3
    <3> QED
      BY <2>3, <3>1
  <2> HIDE DEF n
  <2>5. L[n] = IF Present(m, e.sources[n]) THEN Append(L[n - 1], e.sources[n]) ELSE L[n - 1]
    BY <1>2, <2>3 DEF LiveStep
  <2>6. CASE Present(m, e.sources[n])
    <3>1. LiveUpTo(e, m, n) = LiveUpTo(e, m, n - 1) \cup {n}
      BY <2>3, <2>6 DEF LiveUpTo
    <3>2. LiveUpTo(e, m, n - 1) \in SUBSET Nat /\ \A i \in LiveUpTo(e, m, n - 1) : i < n
      BY <2>3 DEF LiveUpTo
    <3>3. e.sources[n] \in S
      BY <1>1, <2>3
    <3>4. Lists(Append(L[n - 1], e.sources[n]), e.sources, LiveUpTo(e, m, n - 1) \cup {n})
      <4> DEFINE list == L[n - 1]
                 some == LiveUpTo(e, m, n - 1)
                 x    == e.sources[n]
      <4>1. list \in Seq(S) /\ Lists(list, e.sources, some) /\ n \in Nat /\ x \in S
        BY <1>1, <2>3, <2>4, <3>3
      <4>2. some \in SUBSET Nat /\ \A i \in some : i < n
        BY <3>2
      <4> HIDE DEF list, some, x
      <4>3. x = e.sources[n] => Lists(Append(list, x), e.sources, some \cup {n})
        BY <4>1, <4>2, ListsAppend
      <4> QED
        BY <4>3 DEF list, some, x
    <3> QED
      BY <2>2, <2>4, <2>5, <2>6, <3>1, <3>3, <3>4
  <2>7. CASE ~Present(m, e.sources[n])
    <3>1. LiveUpTo(e, m, n) = LiveUpTo(e, m, n - 1)
      BY <2>3, <2>7 DEF LiveUpTo
    <3> QED
      BY <2>2, <2>4, <2>5, <2>7, <3>1
  <2> QED
    BY <2>6, <2>7
<1>5. Ok(N)
  BY <1>1, <1>4
<1>6. LiveUpTo(e, m, N) = {n \in DOMAIN e.sources : Present(m, e.sources[n])}
  BY <1>1 DEF LiveUpTo
<1> QED
  BY <1>5, <1>6 DEF Live, N, L, S

(* A list of two or more names two of them, a list of one only one.        *)
LEMMA ListsFew ==
    ASSUME NEW S, NEW list \in Seq(S), NEW sources, NEW some \in SUBSET Nat,
           Lists(list, sources, some)
    PROVE  Len(list) <= 1 <=> \A i, j \in some : i = j
<1>1. Len(list) \in Nat /\ DOMAIN list = 1..Len(list)
  OBVIOUS
<1>2. PICK place \in [1..Len(list) -> some] :
          /\ \A i, j \in 1..Len(list) : i < j => place[i] < place[j]
          /\ Range(place) = some
  BY <1>1 DEF Lists
<1>3. ASSUME Len(list) <= 1, NEW i \in some, NEW j \in some PROVE i = j
  <2>1. PICK x \in 1..Len(list), y \in 1..Len(list) : place[x] = i /\ place[y] = j
    BY <1>2 DEF Range
  <2>2. x = y
    BY <1>1, <1>3, <2>1
  <2> QED
    BY <2>1, <2>2
<1>4. ASSUME ~(Len(list) <= 1) PROVE \E i, j \in some : i # j
  <2>1. 1 \in 1..Len(list) /\ 2 \in 1..Len(list) /\ 1 < 2
    BY <1>1, <1>4
  <2>2. place[1] < place[2] /\ place[1] \in some /\ place[2] \in some
    BY <1>2, <2>1
  <2>3. place[1] # place[2]
    <3>1. place[1] \in Nat /\ place[2] \in Nat
      BY <2>2
    <3> QED
      BY <2>2, <3>1
  <2> QED
    BY <2>2, <2>3
<1> QED
  BY <1>3, <1>4

LEMMA EmptyDomain == ASSUME NEW S, NEW v \in Seq(S) PROVE v = <<>> <=> DOMAIN v = {}
<1>1. Len(v) \in Nat /\ DOMAIN v = 1..Len(v)
  OBVIOUS
<1>2. ASSUME DOMAIN v = {} PROVE v = <<>>
  <2>1. Len(v) = 0
    <3>1. 1 \notin 1..Len(v)
      BY <1>1, <1>2
    <3> QED
      BY <1>1, <3>1
  <2> QED
    BY <2>1, EmptySeq
<1> QED
  BY <1>2

(* What the presence test of a source finds is what the rule takes for a   *)
(* value.                                                                  *)
LEMMA PresentHolds ==
    ASSUME Consistent(held), NEW path, LegalPath(held, path), path # <<>>,
           ~IsScalarBranch(LeafOf(path))
    PROVE  Present(held, path) <=> MergeHolds(path)
<1> DEFINE f == LeafOf(path)
<1>1. path \in DOMAIN held /\ f \in Range(Info)
  <2>1. Len(path) \in DOMAIN path /\ path \in Seq(DOMAIN Info)
    BY LeafFacts DEF LegalPath
  <2>2. path[Len(path)] \in DOMAIN Info
    BY <2>1
  <2> QED
    BY <2>2, LeafFacts DEF LeafOf, Range
<1>2. InOneof(f) => ~IsCollection(f) /\ ~f.optional
  BY LeafFacts
<1>3. f.card \in {"one", "list", "map"}
  BY <1>1, InfoAssumption DEF Range
<1>4. /\ held[path] # Unset => Get(held, path) = held[path][2]
      /\ held[path] = Unset => Get(held, path) = ZeroOfField(f)
  BY ZeroUnlessHeld
<1>5. CASE f.card = "map" \/ (f.card = "list" /\ IsMessage(f))
  BY <1>5 DEF Present, MergeHolds, Holds
<1>6. CASE f.card = "list" /\ ~IsMessage(f)
  <2>1. Present(held, path) <=> Get(held, path) # <<>>
    BY <1>6 DEF Present
  <2>2. MergeHolds(path) <=> held[path] # Unset /\ DOMAIN held[path][2] # {}
    BY <1>6 DEF MergeHolds, HoldsValue, Holds, IsCollection
  <2>3. held[path] = Unset => Get(held, path) = <<>>
    BY <1>4, <1>6 DEF ZeroOfField, IsCollection
  <2>4. held[path] # Unset => (held[path][2] = <<>> <=> DOMAIN held[path][2] = {})
    <3>1. held[path] # Unset => held[path][2] \in Seq(Range(held[path][2]))
      BY <1>1, <1>6 DEF Consistent
    <3> QED
      BY <3>1, EmptyDomain
  <2> QED
    BY <1>4, <2>1, <2>2, <2>3, <2>4
<1>7. CASE f.card = "one"
  <2>1. ~IsCollection(f)
    BY <1>7 DEF IsCollection
  <2>2. Present(held, path) <=> IF f.optional THEN held[path] # Unset
                                              ELSE Get(held, path) # ZeroOf(f.type)
    <3>1. CASE f.optional
      BY <1>7, <3>1 DEF Present
    <3>2. CASE ~f.optional
      BY <1>7, <3>2 DEF Present
    <3> QED
      BY <3>1, <3>2
  <2>3. held[path] = Unset => Get(held, path) = ZeroOf(f.type)
    BY <1>4, <2>1 DEF ZeroOfField
  <2>4. MergeHolds(path) <=> HoldsValue(path)
    BY <1>7 DEF MergeHolds
  <2>5. CASE IsMessage(f)
    <3>1. ZeroOf(f.type) = Nil
      BY <2>1, <2>5, NilIsZero
    <3>2. HoldsValue(path) <=> held[path] # Unset /\ held[path][2] # Nil
      BY <2>1, <2>5 DEF HoldsValue, Holds
    <3>3. ~InOneof(f) /\ held[path] # Unset => held[path][2] # Nil
      BY <1>1, <2>1, <2>5 DEF Consistent
    <3> QED
      BY <1>2, <1>4, <2>2, <2>3, <2>4, <3>1, <3>2, <3>3
  <2>6. CASE ~IsMessage(f)
    <3>1. ~InOneof(f)
      BY <2>6 DEF IsScalarBranch
    <3>2. HoldsValue(path) <=> held[path] # Unset /\ (f.optional \/ held[path][2] # ZeroOf(f.type))
      BY <2>1, <2>6, <3>1 DEF HoldsValue, Holds
    <3> QED
      BY <1>4, <2>2, <2>3, <2>4, <3>2
  <2> QED
    BY <2>5, <2>6
<1> QED
  BY <1>3, <1>5, <1>6, <1>7

(* Of a rule an encode has passed no more sources hold a value than the    *)
(* rule allows.                                                            *)
ResolvedInv == \A a \in DOMAIN out : plan[a].kind = "merge" => ~Conflicts(plan[a], held)

LEMMA MergeReached ==
    ASSUME NEW e, LegalEntry(held, e), e.kind = "merge"
    PROVE  Reached(e, held) /\ LegalSources(held, e)
<1>1. e.path = <<>> /\ LegalSources(held, e)
  BY DEF LegalEntry
<1>2. DOMAIN e.path = {}
  BY <1>1
<1> QED
  BY <1>1, <1>2 DEF Reached

LEMMA ResolvedStep == ActiveInv /\ ResolvedInv /\ [Next]_vars => ResolvedInv'
<1> SUFFICES ASSUME ActiveInv, ResolvedInv, [Next]_vars PROVE ResolvedInv'
  OBVIOUS
<1>1. CASE UNCHANGED vars \/ MergeFails
  <2>1. UNCHANGED <<plan, held, out>>
    BY <1>1 DEF vars, MergeFails
  <2> QED
    BY <2>1 DEF ResolvedInv
<1>2. CASE SkipInactive \/ Emit \/ EmitFails
  <2>1. /\ Running /\ UNCHANGED <<plan, held>> /\ \E some : out' = Append(out, some)
        /\ plan[at].kind = "merge" => ~Conflicts(plan[at], held)
    <3>1. CASE SkipInactive
      <4>1. Running /\ ~Reached(plan[at], held)
        BY <3>1 DEF SkipInactive
      <4>2. LegalEntry(held, plan[at])
        BY <4>1, LegalEntries DEF ActiveInv, Running
      <4> QED
        BY <3>1, <4>1, <4>2, MergeReached DEF SkipInactive
    <3>2. CASE Emit
      BY <3>2 DEF Emit, Emitting
    <3>3. CASE EmitFails
      BY <3>3 DEF EmitFails, Emitting
    <3> QED
      BY <1>2, <3>1, <3>2, <3>3
  <2>2. PICK some : out' = Append(out, some)
    BY <2>1
  <2>3. PICK n \in Nat : out = [a \in 1..n |-> out[a]]
    BY DEF ActiveInv
  <2>4. Len(out) = n /\ DOMAIN out = 1..n /\ at = n + 1
    BY <2>1, <2>3 DEF ActiveInv, Running
  <2>5. out' = [a \in 1..(n + 1) |-> IF a = n + 1 THEN some ELSE out[a]]
    BY <2>2, <2>3, <2>4
  <2>6. ASSUME NEW a \in DOMAIN out', plan[a].kind = "merge" PROVE ~Conflicts(plan[a], held)
    <3>1. CASE a = n + 1
      BY <2>1, <2>4, <2>6, <3>1
    <3>2. CASE a # n + 1
      <4>1. a \in DOMAIN out
        BY <2>4, <2>5, <3>2
      <4> QED
        BY <2>6, <4>1 DEF ResolvedInv
    <3> QED
      BY <3>1, <3>2
  <2> QED
    BY <2>1, <2>6 DEF ResolvedInv
<1> QED
  BY <1>1, <1>2 DEF Next

LEMMA ResolvedInit == Init => ResolvedInv
<1> SUFFICES ASSUME Init PROVE ResolvedInv
  OBVIOUS
<1>1. DOMAIN out = {}
  BY DEF Init
<1> QED
  BY <1>1 DEF ResolvedInv

(* The sources that hold a value are those the encoder finds.              *)
LEMMA HoldingIsLive ==
    ASSUME Consistent(held), NEW e, LegalSources(held, e)
    PROVE  /\ Holding(e) = {n \in DOMAIN e.sources : Present(held, e.sources[n])}
           /\ Holding(e) \in SUBSET Nat
           /\ \A n \in Holding(e) : n <= Len(e.sources)
           /\ Len(e.sources) \in Nat /\ DOMAIN e.sources = 1..Len(e.sources)
           /\ Lists(Live(e, held), e.sources, Holding(e))
           /\ Live(e, held) \in Seq(Range(e.sources))
<1>1. e.sources \in Seq(Range(e.sources))
  BY DEF LegalSources
<1>2. Len(e.sources) \in Nat /\ DOMAIN e.sources = 1..Len(e.sources)
  BY <1>1
<1>3. ASSUME NEW n \in DOMAIN e.sources
      PROVE  Present(held, e.sources[n]) <=> MergeHolds(e.sources[n])
  <2>1. e.sources[n] \in Range(e.sources)
    BY DEF Range
  <2> QED
    BY <2>1, PresentHolds DEF LegalSources
<1>4. Holding(e) = {n \in DOMAIN e.sources : Present(held, e.sources[n])}
  BY <1>3 DEF Holding
<1>5. Holding(e) \in SUBSET Nat /\ \A n \in Holding(e) : n <= Len(e.sources)
  BY <1>2, <1>4
<1> QED
  BY <1>1, <1>2, <1>4, <1>5, LiveListed

(* The source that is tried first of those that hold a value.              *)
TriedLive(e) == {n \in DOMAIN Tried(e) : Present(held, Tried(e)[n])}
ChosenOf(e) == IF e.conflict = "LAST_NON_EMPTY" THEN Max(Holding(e)) ELSE Min(Holding(e))

LEMMA FirstTried ==
    ASSUME Consistent(held), NEW e, LegalSources(held, e)
    PROVE  /\ TriedLive(e) = {} <=> Holding(e) = {}
           /\ TriedLive(e) # {} => Tried(e)[Min(TriedLive(e))] = e.sources[ChosenOf(e)]
<1> DEFINE N == Len(e.sources)
           live == TriedLive(e)
           holding == Holding(e)
<1>0. /\ holding = {n \in DOMAIN e.sources : Present(held, e.sources[n])}
      /\ N \in Nat /\ DOMAIN e.sources = 1..N
      /\ live = {n \in DOMAIN Tried(e) : Present(held, Tried(e)[n])}
  BY HoldingIsLive DEF TriedLive
<1> HIDE DEF live, holding, N
<1>1. CASE e.conflict # "LAST_NON_EMPTY"
  BY <1>0, <1>1 DEF Tried, ChosenOf, live, holding
<1>2. CASE e.conflict = "LAST_NON_EMPTY"
  <2>1. Tried(e) = [i \in 1..N |-> e.sources[(N - i) + 1]]
    BY <1>2 DEF Tried, Reverse, N
  <2>2. DOMAIN Tried(e) = 1..N
    BY <2>1
  <2>3. \A i \in 1..N : (N - i) + 1 \in 1..N /\ Tried(e)[i] = e.sources[(N - i) + 1]
    BY <1>0, <2>1
  <2>4. \A i \in 1..N : i \in live <=> (N - i) + 1 \in holding
    BY <1>0, <2>2, <2>3
  <2>5. N \in Nat /\ live \in SUBSET Nat /\ holding \in SUBSET Nat
        /\ live \subseteq 1..N /\ holding \subseteq 1..N
    BY <1>0, <2>2
  <2>6. live = {} <=> holding = {}
    <3>1. \A i \in holding : (N - i) + 1 \in 1..N /\ (N - ((N - i) + 1)) + 1 = i
      BY <2>5
    <3> QED
      BY <2>4, <2>5, <3>1
  <2>7. ASSUME live # {} PROVE Tried(e)[Min(live)] = e.sources[Max(holding)]
    <3>1. Min(live) \in live /\ \A i \in live : Min(live) <= i
      BY <2>5, <2>7, MinMember
    <3>2. Max(holding) \in holding /\ \A i \in holding : i <= Max(holding)
      <4>1. \A i \in holding : i <= N
        BY <2>5
      <4> QED
        BY <2>5, <2>6, <2>7, <4>1, MaxMember
    <3> DEFINE x == Min(live)
               y == Max(holding)
    <3>3. x \in 1..N /\ y \in 1..N
      BY <2>5, <3>1, <3>2
    <3>4. (N - x) + 1 \in holding
      BY <2>4, <3>1, <3>3
    <3>5. (N - y) + 1 \in live
      <4>1. (N - y) + 1 \in 1..N /\ (N - ((N - y) + 1)) + 1 = y
        BY <2>5, <3>3
      <4> QED
        BY <2>4, <3>2, <4>1
    <3>6. (N - x) + 1 <= y /\ x <= (N - y) + 1
      BY <3>1, <3>2, <3>4, <3>5
    <3> HIDE DEF x, y
    <3>7. (N - x) + 1 = y
      BY <2>5, <3>3, <3>6
    <3>8. Tried(e)[x] = e.sources[y]
      BY <2>3, <3>3, <3>7
    <3> QED
      BY <3>8 DEF x, y
  <2> QED
    BY <1>2, <2>6, <2>7 DEF ChosenOf, live, holding
<1> QED
  BY <1>1, <1>2 DEF live, holding

(* A merge rule's key has the value of the first or last source that holds *)
(* one, for all rules, sources and messages (merge, presenceTest).         *)
THEOREM RulesResolve == Spec => []MergeResolves
<1>1. ActiveInv /\ OfferedInv /\ ResolvedInv => MergeResolves
  <2> SUFFICES ASSUME ActiveInv, OfferedInv, ResolvedInv, Ended, NEW a \in DOMAIN plan,
                      NEW e, e = plan[a], e.kind = "merge",
                      NEW holding, holding = Holding(e),
                      NEW chosen, chosen = IF e.conflict = "LAST_NON_EMPTY" THEN Max(holding)
                                                                        ELSE Min(holding)
               PROVE  /\ e.conflict = "ERROR" => Cardinality(holding) <= 1
                      /\ Len(Writes(a)) = (IF holding # {} \/ e.sc.emitEmpty THEN 1 ELSE 0)
                      /\ Len(Writes(a)) = 1 =>
                            Writes(a)[1][2] = IF holding = {} THEN Null
                                                ELSE SourceJSON(e, held, e.sources[chosen], order)
    BY DEF MergeResolves
  <2>1. Consistent(held) /\ LegalEntry(held, e)
    BY LegalEntries DEF ActiveInv
  <2>2. Reached(e, held) /\ LegalSources(held, e)
    BY <2>1, MergeReached
  <2>3. a \in DOMAIN out /\ Writes(a) = MergeOffers(e, held, order)
    BY <2>2, EndedOffers DEF Offered, Writes, Offers
  <2>4. ~Conflicts(e, held)
    BY <2>3 DEF ResolvedInv
  <2>5. /\ holding = {n \in DOMAIN e.sources : Present(held, e.sources[n])}
        /\ holding \in SUBSET Nat
        /\ Len(e.sources) \in Nat /\ DOMAIN e.sources = 1..Len(e.sources)
        /\ Lists(Live(e, held), e.sources, holding)
        /\ Live(e, held) \in Seq(Range(e.sources))
    BY <2>1, <2>2, HoldingIsLive
  <2>6. ASSUME e.conflict = "ERROR" PROVE Cardinality(holding) <= 1
    <3>1. Len(Live(e, held)) <= 1
      <4>1. ~(Len(Live(e, held)) > 1) /\ Len(Live(e, held)) \in Nat
        BY <2>4, <2>5, <2>6 DEF Conflicts
      <4> QED
        BY <4>1
    <3>2. \A i, j \in holding : i = j
      BY <2>5, <3>1, ListsFew
    <3>3. CASE holding = {}
      BY <3>3, FS_EmptySet
    <3>4. CASE holding # {}
      <4>1. PICK i \in holding : TRUE
        BY <3>4
      <4>2. holding = {i}
        BY <3>2, <4>1
      <4>3. Cardinality({i}) = 1
        BY FS_Singleton
      <4> QED
        BY <4>2, <4>3
    <3> QED
      BY <3>3, <3>4
  <2> DEFINE live == TriedLive(e)
             json == SourceJSON(e, held, e.sources[chosen], order)
  <2>7. /\ live = {} <=> holding = {}
        /\ live # {} => Tried(e)[Min(live)] = e.sources[chosen]
    <3>1. chosen = ChosenOf(e)
      BY DEF ChosenOf
    <3> QED
      BY <2>1, <2>2, <3>1, FirstTried
  <2>8. Writes(a) = IF live # {} THEN Pair(e, SourceJSON(e, held, Tried(e)[Min(live)], order))
                    ELSE IF e.sc.emitEmpty THEN Pair(e, Null) ELSE <<>>
    BY <2>3 DEF MergeOffers, TriedLive
  <2> HIDE DEF live
  <2>9. Writes(a) = IF holding # {} THEN Pair(e, json)
                    ELSE IF e.sc.emitEmpty THEN Pair(e, Null) ELSE <<>>
    BY <2>7, <2>8
  <2> HIDE DEF json
  <2>10. \A v : Len(Pair(e, v)) = 1 /\ Pair(e, v)[1][2] = v
    BY DEF Pair
  <2>11. Len(<<>>) = 0
    OBVIOUS
  <2>12. Len(Writes(a)) = (IF holding # {} \/ e.sc.emitEmpty THEN 1 ELSE 0)
    BY <2>9, <2>10, <2>11
  <2>13. Len(Writes(a)) = 1 => Writes(a)[1][2] = IF holding = {} THEN Null ELSE json
    <3>1. CASE holding # {}
      BY <2>9, <2>10, <3>1
    <3>2. CASE holding = {}
      BY <2>9, <2>10, <2>11, <3>2
    <3> QED
      BY <3>1, <3>2
  <2> QED
    BY <2>6, <2>12, <2>13 DEF json
<1> QED
  BY <1>1, InitActive, StepActive, OfferedInit, OfferedStep, ResolvedInit, ResolvedStep, PTL DEF Spec

-----------------------------------------------------------------------------
(* Map keys in order                                                       *)

LEMMA BooleansDiffer ==
    ASSUME NEW x \in BOOLEAN, NEW y \in BOOLEAN, x # y
    PROVE  (~x /\ y) \/ (~y /\ x)
<1>1. CASE x = TRUE
  BY <1>1
<1>2. CASE x = FALSE
  BY <1>2
<1> QED
  BY <1>1, <1>2

LEMMA PairSecond == \A x, y : <<x, y>>[2] = y
OBVIOUS

LEMMA KeyOrder ==
    ASSUME NEW keys, OneKind(keys), NEW a \in keys, NEW b \in keys
    PROVE  /\ KeyLess(a, b) => ~KeyLess(b, a)
           /\ a # b => KeyLess(a, b) \/ KeyLess(b, a)
           /\ \A c \in keys : KeyLess(a, b) /\ KeyLess(b, c) => KeyLess(a, c)
           /\ KeyString(a) = KeyString(b) => a = b
<1>1. CASE keys \subseteq {"bool"} \X BOOLEAN
  <2>1. \A k \in keys : k[1] = "bool" /\ k[2] \in BOOLEAN /\ k = <<"bool", k[2]>>
    BY <1>1
  <2>2. \A k, l \in keys : KeyLess(k, l) <=> (~k[2] /\ l[2])
    BY <2>1 DEF KeyLess
  <2>3. KeyLess(a, b) => ~KeyLess(b, a)
    BY <2>2, Zenon
  <2>4. ASSUME a # b PROVE KeyLess(a, b) \/ KeyLess(b, a)
    <3>1. a[2] # b[2]
      BY <2>1, <2>4
    <3>2. a[2] \in BOOLEAN /\ b[2] \in BOOLEAN
      BY <2>1
    <3>3. (~a[2] /\ b[2]) \/ (~b[2] /\ a[2])
      BY <3>1, <3>2, BooleansDiffer
    <3> QED
      BY <2>2, <3>3, Zenon
  <2>5. ASSUME NEW c \in keys, KeyLess(a, b), KeyLess(b, c) PROVE KeyLess(a, c)
    BY <2>2, <2>5, Zenon
  <2>6. ASSUME KeyString(a) = KeyString(b) PROVE a = b
    <3>1. KeyString(a) = <<"text", a[2]>> /\ KeyString(b) = <<"text", b[2]>>
      BY <2>1 DEF KeyString
    <3>2. KeyString(a)[2] = a[2] /\ KeyString(b)[2] = b[2]
      BY <3>1, PairSecond
    <3>3. a[2] = b[2]
      BY <2>6, <3>2
    <3> QED
      BY <2>1, <3>3
  <2> QED
    BY <2>3, <2>4, <2>5, <2>6
<1>2. CASE keys \subseteq {"int"} \X Int \/ keys \subseteq {"text"} \X Int
  <2>1. PICK kind \in {"int", "text"} : keys \subseteq {kind} \X Int
    BY <1>2
  <2>2. \A k \in keys : k[1] = kind /\ k[2] \in Int /\ k = <<kind, k[2]>>
    BY <2>1
  <2>3. \A k, l \in keys : KeyLess(k, l) <=> k[2] < l[2]
    BY <2>2 DEF KeyLess
  <2>4. ASSUME a # b PROVE KeyLess(a, b) \/ KeyLess(b, a)
    <3>1. a[2] # b[2]
      BY <2>2, <2>4
    <3> QED
      BY <2>2, <2>3, <3>1
  <2>5. ASSUME KeyString(a) = KeyString(b) PROVE a = b
    <3>1. CASE kind = "int"
      <4>1. KeyString(a) = <<"decimal", a[2]>> /\ KeyString(b) = <<"decimal", b[2]>>
        BY <2>2, <3>1 DEF KeyString
      <4>2. KeyString(a)[2] = a[2] /\ KeyString(b)[2] = b[2]
        BY <4>1
      <4>3. a[2] = b[2]
        BY <2>5, <4>2
      <4> QED
        BY <2>2, <4>3
    <3>2. CASE kind = "text"
      BY <2>2, <2>5, <3>2 DEF KeyString
    <3> QED
      BY <2>1, <3>1, <3>2
  <2> QED
    BY <2>2, <2>3, <2>4, <2>5
<1> QED
  BY <1>1, <1>2 DEF OneKind

(* Keys that differ and of which none is less than an earlier one grow.    *)
Growing(keys) == \A m, n \in DOMAIN keys : m < n => KeyLess(keys[m], keys[n])

LEMMA InOrderGrows ==
    ASSUME NEW S, OneKind(S), NEW n \in Nat, NEW keys \in [1..n -> S], IsInjective(keys),
           InOrder(keys)
    PROVE  Growing(keys)
<1> SUFFICES ASSUME NEW i \in 1..n, NEW j \in 1..n, i < j PROVE KeyLess(keys[i], keys[j])
  BY DEF Growing
<1>1. i # j /\ i \in DOMAIN keys /\ j \in DOMAIN keys
  OBVIOUS
<1>2. keys[i] # keys[j] /\ ~KeyLess(keys[j], keys[i])
  BY <1>1 DEF IsInjective, InOrder
<1> QED
  BY <1>2, KeyOrder

(* Growing lists of the same keys are the same.                            *)
LEMMA GrowingUnique ==
    ASSUME NEW S, OneKind(S), NEW n \in Nat, NEW s \in [1..n -> S], NEW t \in [1..n -> S],
           Growing(s), Growing(t), Range(s) = Range(t)
    PROVE  s = t
<1> DEFINE Bad == {i \in 1..n : s[i] # t[i]}
<1> SUFFICES ASSUME Bad # {} PROVE FALSE
  OBVIOUS
<1>1. Min(Bad) \in Bad /\ \A i \in Bad : Min(Bad) <= i
  <2>1. Bad \in SUBSET Nat
    OBVIOUS
  <2> HIDE DEF Bad
  <2> QED
    BY <2>1, MinMember
<1> DEFINE i == Min(Bad)
<1>2. i \in 1..n /\ s[i] # t[i] /\ \A j \in 1..n : j < i => s[j] = t[j]
  <2>1. \A j \in 1..n : j < i => j \notin Bad
    BY <1>1
  <2> QED
    BY <1>1, <2>1
<1> HIDE DEF i, Bad
<1>3. \A x \in 1..n : ~KeyLess(s[x], s[x]) /\ ~KeyLess(t[x], t[x])
  BY KeyOrder
<1>4. PICK j \in 1..n : t[j] = s[i]
  <2>1. s[i] \in Range(t)
    BY <1>2 DEF Range
  <2> QED
    BY <2>1 DEF Range
<1>5. PICK k \in 1..n : s[k] = t[i]
  <2>1. t[i] \in Range(s)
    BY <1>2 DEF Range
  <2> QED
    BY <2>1 DEF Range
<1>6. i < j
  <2>1. j # i
    BY <1>2, <1>4
  <2>2. ~(j < i)
    <3>1. j < i => s[j] = s[i] /\ KeyLess(s[j], s[i])
      BY <1>2, <1>4 DEF Growing
    <3> QED
      BY <1>2, <1>3, <3>1
  <2> QED
    BY <1>2, <2>1, <2>2
<1>7. i < k
  <2>1. k # i
    BY <1>2, <1>5
  <2>2. ~(k < i)
    <3>1. k < i => t[k] = t[i] /\ KeyLess(t[k], t[i])
      BY <1>2, <1>5 DEF Growing
    <3> QED
      BY <1>2, <1>3, <3>1
  <2> QED
    BY <1>2, <2>1, <2>2
<1>8. KeyLess(t[i], s[i]) /\ KeyLess(s[i], t[i])
  BY <1>2, <1>4, <1>5, <1>6, <1>7 DEF Growing
<1> QED
  BY <1>2, <1>8, KeyOrder

(* Where a key belongs: after those that are less.                         *)
Below(keys, i) == {j \in DOMAIN keys : KeyLess(keys[j], keys[i])}
Rank(keys) == [i \in DOMAIN keys |-> Cardinality(Below(keys, i)) + 1]

LEMMA RankLess ==
    ASSUME NEW S, OneKind(S), NEW n \in Nat, NEW keys \in [1..n -> S],
           NEW i \in 1..n, NEW j \in 1..n, KeyLess(keys[i], keys[j])
    PROVE  Rank(keys)[i] < Rank(keys)[j]
<1>1. IsFiniteSet(1..n)
  BY FS_Interval
<1>2. Below(keys, j) \in SUBSET (1..n) /\ Below(keys, i) \in SUBSET Below(keys, j)
  <2>1. ASSUME NEW k \in 1..n, KeyLess(keys[k], keys[i]) PROVE KeyLess(keys[k], keys[j])
    BY <2>1, KeyOrder
  <2> QED
    BY <2>1 DEF Below
<1>3. i \in Below(keys, j) /\ i \notin Below(keys, i)
  <2>1. ~KeyLess(keys[i], keys[i])
    BY KeyOrder
  <2> QED
    BY <2>1 DEF Below
<1>4. IsFiniteSet(Below(keys, j)) /\ IsFiniteSet(Below(keys, i))
  BY <1>1, <1>2, FS_Subset
<1>5. /\ Cardinality(Below(keys, i)) <= Cardinality(Below(keys, j))
      /\ Cardinality(Below(keys, i)) # Cardinality(Below(keys, j))
  BY <1>2, <1>3, <1>4, FS_Subset
<1>6. Cardinality(Below(keys, i)) \in Nat /\ Cardinality(Below(keys, j)) \in Nat
  BY <1>4, FS_CardinalityType
<1>7. /\ Rank(keys)[i] = Cardinality(Below(keys, i)) + 1
      /\ Rank(keys)[j] = Cardinality(Below(keys, j)) + 1
  BY DEF Rank
<1> QED
  BY <1>5, <1>6, <1>7

(* Keys that differ can be sorted: each to its rank.                       *)
LEMMA Sortable ==
    ASSUME NEW S, OneKind(S), NEW n \in Nat, NEW keys \in [1..n -> S], IsInjective(keys)
    PROVE  \E p \in Bijection(1..n, 1..n) : InOrder(Rearranged(keys, p))
<1> DEFINE rank == Rank(keys)
           p    == Inverse(rank, 1..n, 1..n)
<1>1. IsFiniteSet(1..n) /\ Cardinality(1..n) = n
  BY FS_Interval
<1>2. rank \in [1..n -> 1..n]
  <2>1. ASSUME NEW i \in 1..n PROVE rank[i] \in 1..n
    <3>1. Below(keys, i) \in SUBSET ((1..n) \ {i})
      <4>1. ~KeyLess(keys[i], keys[i])
        BY KeyOrder
      <4> QED
        BY <4>1 DEF Below
    <3>2. IsFiniteSet((1..n) \ {i}) /\ Cardinality((1..n) \ {i}) = n - 1
      BY <1>1, FS_RemoveElement
    <3>3. IsFiniteSet(Below(keys, i)) /\ Cardinality(Below(keys, i)) <= n - 1
      BY <3>1, <3>2, FS_Subset
    <3>4. Cardinality(Below(keys, i)) \in Nat
      BY <3>3, FS_CardinalityType
    <3>5. rank[i] = Cardinality(Below(keys, i)) + 1
      BY DEF Rank
    <3> HIDE DEF rank
    <3> QED
      BY <3>3, <3>4, <3>5
  <2>2. rank = [i \in 1..n |-> rank[i]]
    BY DEF Rank
  <2> HIDE DEF rank
  <2> QED
    BY <2>1, <2>2
<1>3. \A i, j \in 1..n : KeyLess(keys[i], keys[j]) => rank[i] < rank[j]
  BY RankLess
<1> HIDE DEF rank
<1>4. rank \in Injection(1..n, 1..n)
  <2>1. ASSUME NEW i \in 1..n, NEW j \in 1..n, rank[i] = rank[j] PROVE i = j
    <3>1. ~KeyLess(keys[i], keys[j]) /\ ~KeyLess(keys[j], keys[i])
      <4>1. rank[i] \in 1..n /\ rank[j] \in 1..n
        BY <1>2
      <4> QED
        BY <1>3, <2>1, <4>1
    <3>2. keys[i] = keys[j]
      BY <3>1, KeyOrder
    <3> QED
      BY <3>2 DEF IsInjective
  <2> QED
    BY <1>2, <2>1 DEF Injection, IsInjective
<1>5. rank \in Bijection(1..n, 1..n)
  <2>1. rank \in Surjection(1..n, 1..n)
    BY <1>1, <1>4, FS_Injection
  <2> QED
    BY <1>4, <2>1 DEF Bijection
<1>6. p \in Bijection(1..n, 1..n) /\ \A i \in 1..n : p[rank[i]] = i
  BY <1>5, Fun_BijInverse
<1>7. p \in [1..n -> 1..n] /\ \A x \in 1..n : \E i \in 1..n : rank[i] = x
  BY <1>2, <1>5, <1>6 DEF Bijection, Injection, Surjection
<1> HIDE DEF p
<1>8. \A x \in 1..n : rank[p[x]] = x
  BY <1>6, <1>7
<1>9. InOrder(Rearranged(keys, p))
  <2>1. DOMAIN Rearranged(keys, p) = 1..n /\ \A x \in 1..n : Rearranged(keys, p)[x] = keys[p[x]]
    BY DEF Rearranged
  <2>2. ASSUME NEW x \in 1..n, NEW y \in 1..n, x < y PROVE ~KeyLess(keys[p[y]], keys[p[x]])
    <3>1. p[x] \in 1..n /\ p[y] \in 1..n /\ rank[p[x]] = x /\ rank[p[y]] = y
      BY <1>7, <1>8
    <3>2. KeyLess(keys[p[y]], keys[p[x]]) => y < x
      BY <1>3, <3>1
    <3> QED
      BY <2>2, <3>2
  <2> QED
    BY <2>1, <2>2 DEF InOrder
<1> QED
  BY <1>6, <1>9

(* Sorting lists the keys of a map, each once, from the least on.          *)
LEMMA SortedFacts ==
    ASSUME NEW map, DOMAIN map \in KeySets, NEW ord \in MapOrders,
           NEW keys, keys = SortedKeys(map, ord)
    PROVE  /\ keys \in [1..Cardinality(DOMAIN map) -> DOMAIN map]
           /\ Cardinality(DOMAIN map) \in Nat
           /\ IsInjective(keys) /\ Range(keys) = DOMAIN map
           /\ Growing(keys)
<1> DEFINE S    == DOMAIN map
           list == ord[S]
           n    == Len(list)
<1>1. OneKind(S)
  BY KeySetsAssumption
<1>2. list \in Seq(S) /\ IsInjective(list) /\ Range(list) = S
  BY MapOrdersAssumption
<1> HIDE DEF list, S
<1>3. n \in Nat /\ DOMAIN list = 1..n /\ list \in [1..n -> S]
  BY <1>2
<1> HIDE DEF n
<1> DEFINE Places == {p \in Bijection(1..n, 1..n) : InOrder(Rearranged(list, p))}
           p == CHOOSE q \in Bijection(1..n, 1..n) : InOrder(Rearranged(list, q))
<1>4. p \in Bijection(1..n, 1..n) /\ InOrder(Rearranged(list, p))
  <2>1. \E q \in Bijection(1..n, 1..n) : InOrder(Rearranged(list, q))
    BY <1>1, <1>2, <1>3, Sortable
  <2> QED
    BY <2>1, Zenon
<1>5. keys = Rearranged(list, p)
  BY <1>3 DEF SortedKeys, list, S
<1> HIDE DEF p
<1>6. /\ p \in [1..n -> 1..n] /\ \A x, y \in 1..n : p[x] = p[y] => x = y
      /\ \A y \in 1..n : \E x \in 1..n : p[x] = y
  BY <1>4 DEF Bijection, Injection, Surjection, IsInjective
<1>7. keys \in [1..n -> S] /\ \A x \in 1..n : keys[x] = list[p[x]]
  BY <1>3, <1>5, <1>6 DEF Rearranged
<1>8. IsInjective(keys)
  <2>1. ASSUME NEW x \in 1..n, NEW y \in 1..n, keys[x] = keys[y] PROVE x = y
    <3>1. p[x] \in 1..n /\ p[y] \in 1..n /\ list[p[x]] = list[p[y]]
      BY <1>6, <1>7, <2>1
    <3>2. p[x] = p[y]
      BY <1>2, <1>3, <3>1 DEF IsInjective
    <3> QED
      BY <1>6, <3>2
  <2> QED
    BY <1>7, <2>1 DEF IsInjective
<1>9. Range(keys) = S
  <2>1. ASSUME NEW k \in S PROVE k \in Range(keys)
    <3>1. PICK y \in 1..n : list[y] = k
      BY <1>2, <1>3 DEF Range
    <3>2. PICK x \in 1..n : p[x] = y
      BY <1>6
    <3>3. keys[x] = k /\ x \in DOMAIN keys
      BY <1>7, <3>1, <3>2
    <3> QED
      BY <3>3 DEF Range
  <2> QED
    BY <1>7, <2>1 DEF Range
<1>10. Growing(keys)
  BY <1>1, <1>3, <1>4, <1>5, <1>7, <1>8, InOrderGrows
<1>11. Cardinality(S) = n
  <2>1. keys \in Bijection(1..n, S)
    BY <1>7, <1>8, <1>9 DEF Bijection, Injection, Surjection, Range
  <2>2. IsFiniteSet(1..n) /\ Cardinality(1..n) = n
    BY <1>3, FS_Interval
  <2> QED
    BY <2>1, <2>2, FS_Bijection DEF ExistsBijection
<1> QED
  BY <1>3, <1>7, <1>8, <1>9, <1>10, <1>11 DEF S

(* The keys of a map are the same sequence however Go lists them.          *)
LEMMA SortedSame ==
    ASSUME NEW map, DOMAIN map \in KeySets, NEW ord \in MapOrders, NEW other \in MapOrders
    PROVE  SortedKeys(map, ord) = SortedKeys(map, other)
<1> DEFINE n == Cardinality(DOMAIN map)
           s == SortedKeys(map, ord)
           t == SortedKeys(map, other)
<1>1. /\ s \in [1..n -> DOMAIN map] /\ n \in Nat /\ Range(s) = DOMAIN map /\ Growing(s)
  BY SortedFacts
<1>2. /\ t \in [1..n -> DOMAIN map] /\ Range(t) = DOMAIN map /\ Growing(t)
  BY SortedFacts
<1>3. OneKind(DOMAIN map)
  BY KeySetsAssumption
<1> HIDE DEF s, t, n
<1>4. s = t
  BY <1>1, <1>2, <1>3, GrowingUnique
<1> QED
  BY <1>4 DEF s, t

-----------------------------------------------------------------------------
(* The order in which Go lists map keys                                    *)

(* A Value whose parts are the same is the same.                           *)
LEMMA PbFromPartsSame ==
    ASSUME NEW v \in PbValues, NEW json, NEW ord \in MapOrders, NEW other \in MapOrders
    PROVE  PbFromParts(v, json, ord) = PbFromParts(v, json, other)
<1>1. ASSUME v[1] = "struct" PROVE SortedKeys(v[2], ord) = SortedKeys(v[2], other)
  <2>1. DOMAIN v[2] \in KeySets
    BY <1>1, PbAssumption DEF PbValues, Range
  <2> QED
    BY <2>1, SortedSame
<1>2. CASE v[1] = "struct"
  BY <1>1, <1>2, Zenon DEF PbFromParts
<1>3. CASE v[1] # "struct"
  BY <1>3 DEF PbFromParts
<1> QED
  BY <1>2, <1>3

LEMMA PbSame ==
    ASSUME NEW ord \in MapOrders, NEW other \in MapOrders
    PROVE  PbJSON(ord) = PbJSON(other)
<1> DEFINE Solves(json, o) == json = [v \in PbValues |-> PbFromParts(v, json, o)]
<1>1. PbJSON(ord) = CHOOSE json : Solves(json, ord)
  BY Zenon DEF PbJSON
<1>2. PbJSON(other) = CHOOSE json : Solves(json, other)
  BY Zenon DEF PbJSON
<1>3. ASSUME NEW json PROVE Solves(json, ord) <=> Solves(json, other)
  <2>1. \A v \in PbValues : PbFromParts(v, json, ord) = PbFromParts(v, json, other)
    BY PbFromPartsSame
  <2>2. [v \in PbValues |-> PbFromParts(v, json, ord)]
           = [v \in PbValues |-> PbFromParts(v, json, other)]
    BY <2>1
  <2> QED
    BY <2>2
<1> HIDE DEF Solves
<1> QED
  BY <1>1, <1>2, <1>3, Zenon

(* So is any value, and any element of a collection.                       *)
LEMMA ValueSame ==
    ASSUME NEW type, NEW v, NEW sc, NEW ord \in MapOrders, NEW other \in MapOrders
    PROVE  /\ ValueJSON(type, v, sc, ord) = ValueJSON(type, v, sc, other)
           /\ JSONOf(type, v, sc, ord) = JSONOf(type, v, sc, other)
<1>1. PbJSON(ord) = PbJSON(other)
  BY PbSame
<1>2. ValueJSON(type, v, sc, ord) = ValueJSON(type, v, sc, other)
  BY <1>1, Zenon DEF ValueJSON, WellKnownJSON, ContentJSON
<1> QED
  BY <1>2 DEF JSONOf

LEMMA ElementSame ==
    ASSUME NEW e, NEW f, NEW v, NEW ord \in MapOrders, NEW other \in MapOrders
    PROVE  ElementJSON(e, f, v, ord) = ElementJSON(e, f, v, other)
BY ValueSame DEF ElementJSON

(* What a collection's values are listed by.                               *)
Keyed(f, values) == f.card # "list" => DOMAIN values \in KeySets

LEMMA ElementsSame ==
    ASSUME NEW e, NEW f, NEW values, Keyed(f, values), NEW ord \in MapOrders, NEW other \in MapOrders
    PROVE  /\ Elements(f, values, ord) = Elements(f, values, other)
           /\ ElementJSONs(e, f, values, ord) = ElementJSONs(e, f, values, other)
           /\ f.card # "list" => /\ SortedKeys(values, ord) = SortedKeys(values, other)
                                 /\ KeyStrings(values, ord) = KeyStrings(values, other)
<1>1. f.card # "list" => SortedKeys(values, ord) = SortedKeys(values, other)
  BY SortedSame DEF Keyed
<1>2. Elements(f, values, ord) = Elements(f, values, other)
  BY <1>1, Zenon DEF Elements
<1>3. f.card # "list" => KeyStrings(values, ord) = KeyStrings(values, other)
  BY <1>1, Zenon DEF KeyStrings
<1>4. ElementJSONs(e, f, values, ord) = ElementJSONs(e, f, values, other)
  <2> DEFINE elements == Elements(f, values, ord)
  <2>1. /\ ElementJSONs(e, f, values, ord)
              = [n \in DOMAIN elements |-> ElementJSON(e, f, elements[n], ord)]
        /\ ElementJSONs(e, f, values, other)
              = [n \in DOMAIN elements |-> ElementJSON(e, f, elements[n], other)]
    BY <1>2, Zenon DEF ElementJSONs
  <2> HIDE DEF elements
  <2>2. \A n \in DOMAIN elements : ElementJSON(e, f, elements[n], ord)
                                      = ElementJSON(e, f, elements[n], other)
    BY ElementSame
  <2> QED
    BY <2>1, <2>2
<1> QED
  BY <1>1, <1>2, <1>3, <1>4

LEMMA CollectionSame ==
    ASSUME NEW e, NEW f, NEW values, Keyed(f, values), NEW ord \in MapOrders, NEW other \in MapOrders
    PROVE  CollectionJSON(e, f, values, ord) = CollectionJSON(e, f, values, other)
<1>1. /\ Elements(f, values, ord) = Elements(f, values, other)
      /\ ElementJSONs(e, f, values, ord) = ElementJSONs(e, f, values, other)
      /\ f.card # "list" => KeyStrings(values, ord) = KeyStrings(values, other)
  BY ElementsSame
<1>2. JoinJSON(e, f, values, ord) = JoinJSON(e, f, values, other)
  BY <1>1, Zenon DEF JoinJSON
<1>3. KeepJSON(e, f, values, ord) = KeepJSON(e, f, values, other)
  BY <1>1, Zenon DEF KeepJSON
<1> QED
  BY <1>1, <1>2, <1>3, Zenon DEF CollectionJSON

(* A map that is held, or is not, has one of the sets of keys.             *)
LEMMA HeldKeyed ==
    ASSUME Consistent(held), NEW path, LegalPath(held, path), path # <<>>,
           IsCollection(LeafOf(path))
    PROVE  Keyed(LeafOf(path), Get(held, path))
<1> DEFINE f == LeafOf(path)
<1>1. path \in DOMAIN held
  BY LeafFacts
<1>2. f.card \in {"list", "map"}
  <2>1. Len(path) \in DOMAIN path /\ path \in Seq(DOMAIN Info) /\ f = Info[path[Len(path)]]
    BY LeafFacts DEF LegalPath
  <2>2. path[Len(path)] \in DOMAIN Info
    BY <2>1
  <2> QED
    BY <2>1, <2>2, InfoAssumption DEF IsCollection
<1>3. CASE held[path] = Unset
  <2>1. Get(held, path) = <<>>
    BY <1>3 DEF Get, ZeroOfField
  <2>2. DOMAIN <<>> = {}
    OBVIOUS
  <2> QED
    BY <2>1, <2>2, KeySetsAssumption DEF Keyed
<1>4. CASE held[path] # Unset
  <2>1. Get(held, path) = held[path][2]
    BY <1>4 DEF Get
  <2>2. f.card = "map" => DOMAIN held[path][2] \in KeySets
    BY <1>1, <1>4 DEF Consistent
  <2> QED
    BY <1>2, <2>1, <2>2 DEF Keyed
<1> QED
  BY <1>3, <1>4

LEMMA CollectionOffersSame ==
    ASSUME Consistent(held), NEW e, LegalEntry(held, e), e.kind = "collection",
           NEW ord \in MapOrders, NEW other \in MapOrders
    PROVE  CollectionOffers(e, held, ord) = CollectionOffers(e, held, other)
<1> DEFINE f      == LeafOf(e.path)
           values == Get(held, e.path)
<1>1. Keyed(f, values) /\ (e.sc.cardinality \in {"KEYS", "VALUES", "INLINE_KEYS"} => f.card # "list")
  BY HeldKeyed DEF LegalEntry, LegalCollection
<1> HIDE DEF f, values
<1>2. /\ ElementJSONs(e, f, values, ord) = ElementJSONs(e, f, values, other)
      /\ f.card # "list" => /\ SortedKeys(values, ord) = SortedKeys(values, other)
                            /\ KeyStrings(values, ord) = KeyStrings(values, other)
  BY <1>1, ElementsSame
<1>3. CollectionJSON(e, f, values, ord) = CollectionJSON(e, f, values, other)
  BY <1>1, CollectionSame
<1>4. PickOffers(e, f, values, ord) = PickOffers(e, f, values, other)
  BY <1>2, Zenon DEF PickOffers
<1>5. ASSUME f.card # "list" PROVE InlineOffers(e, f, values, ord) = InlineOffers(e, f, values, other)
  <2> DEFINE keys    == SortedKeys(values, ord)
             At(n, o) == << <<"inline", e.key, KeyString(keys[n])>>, ElementJSON(e, f, values[keys[n]], o)>>
  <2>1. /\ InlineOffers(e, f, values, ord) = [n \in DOMAIN keys |-> At(n, ord)]
        /\ InlineOffers(e, f, values, other) = [n \in DOMAIN keys |-> At(n, other)]
    BY <1>2, <1>5, Zenon DEF InlineOffers
  <2>2. \A n : At(n, ord) = At(n, other)
    BY ElementSame
  <2> HIDE DEF keys, At
  <2> QED
    BY <2>1, <2>2
<1>6. IndexedOffers(e, f, values, ord) = IndexedOffers(e, f, values, other)
  BY <1>2, Zenon DEF IndexedOffers
<1>7. ExplodeOffers(e, f, values, ord) = ExplodeOffers(e, f, values, other)
  BY <1>4, Zenon DEF ExplodeOffers
<1>8. \A o : CollectionOffers(e, held, o) =
        CASE e.sc.cardinality \in {"FIRST", "LAST"} -> PickOffers(e, f, values, o)
          [] e.sc.cardinality = "INLINE_KEYS" -> InlineOffers(e, f, values, o)
          [] e.sc.cardinality = "INDEXED" -> IndexedOffers(e, f, values, o)
          [] e.sc.cardinality = "EXPLODE" -> ExplodeOffers(e, f, values, o)
          [] e.sc.cardinality = "KEYS" ->
                Guarded(e, values, Arr([n \in DOMAIN KeyStrings(values, o) |-> Str(KeyStrings(values, o)[n])]))
          [] e.sc.cardinality = "VALUES" ->
                Guarded(e, values, Array(ElementJSONs(e, f, values, o)))
          [] OTHER -> Guarded(e, values, CollectionJSON(e, f, values, o))
  BY DEF CollectionOffers, f, values
<1>9. CASE e.sc.cardinality \in {"FIRST", "LAST"}
  BY <1>4, <1>8, <1>9
<1>10. CASE e.sc.cardinality = "INLINE_KEYS"
  BY <1>1, <1>5, <1>8, <1>10
<1>11. CASE e.sc.cardinality = "INDEXED"
  BY <1>6, <1>8, <1>11
<1>12. CASE e.sc.cardinality = "EXPLODE"
  BY <1>7, <1>8, <1>12
<1>13. CASE e.sc.cardinality = "KEYS"
  <2>1. KeyStrings(values, ord) = KeyStrings(values, other)
    BY <1>1, <1>2, <1>13
  <2> QED
    BY <1>8, <1>13, <2>1
<1>14. CASE e.sc.cardinality = "VALUES"
  BY <1>2, <1>8, <1>14
<1>15. CASE e.sc.cardinality \notin {"FIRST", "LAST", "INLINE_KEYS", "INDEXED", "EXPLODE", "KEYS", "VALUES"}
  BY <1>3, <1>8, <1>15
<1> QED
  BY <1>9, <1>10, <1>11, <1>12, <1>13, <1>14, <1>15

LEMMA SourceSame ==
    ASSUME Consistent(held), NEW e, NEW path, LegalPath(held, path), path # <<>>,
           NEW ord \in MapOrders, NEW other \in MapOrders
    PROVE  SourceJSON(e, held, path, ord) = SourceJSON(e, held, path, other)
<1>1. CASE IsCollection(LeafOf(path))
  <2>1. Keyed(LeafOf(path), Get(held, path))
    BY <1>1, HeldKeyed
  <2> QED
    BY <1>1, <2>1, CollectionSame DEF SourceJSON
<1>2. CASE ~IsCollection(LeafOf(path))
  BY <1>2, ValueSame DEF SourceJSON
<1> QED
  BY <1>1, <1>2

LEMMA MergeOffersSame ==
    ASSUME Consistent(held), NEW e, LegalSources(held, e),
           NEW ord \in MapOrders, NEW other \in MapOrders
    PROVE  MergeOffers(e, held, ord) = MergeOffers(e, held, other)
<1> DEFINE live == TriedLive(e)
           path == Tried(e)[Min(live)]
<1>1. \A o : MergeOffers(e, held, o) = IF live # {} THEN Pair(e, SourceJSON(e, held, path, o))
                                       ELSE IF e.sc.emitEmpty THEN Pair(e, Null) ELSE <<>>
  BY Zenon DEF MergeOffers, TriedLive
<1>2. ASSUME live # {} PROVE LegalPath(held, path) /\ path # <<>>
  <2>1. Holding(e) # {} /\ path = e.sources[ChosenOf(e)]
    BY <1>2, FirstTried
  <2>2. Holding(e) \in SUBSET Nat /\ Len(e.sources) \in Nat
        /\ \A n \in Holding(e) : n <= Len(e.sources)
    BY HoldingIsLive
  <2>3. ChosenOf(e) \in Holding(e)
    BY <2>1, <2>2, MinMember, MaxMember DEF ChosenOf
  <2>4. path \in Range(e.sources)
    BY <2>1, <2>3 DEF Holding, Range
  <2> QED
    BY <2>4 DEF LegalSources
<1> HIDE DEF live, path
<1> QED
  BY <1>1, <1>2, SourceSame

LEMMA OffersSame ==
    ASSUME Consistent(held), NEW e, LegalEntry(held, e),
           NEW ord \in MapOrders, NEW other \in MapOrders
    PROVE  Offers(e, held, ord) = Offers(e, held, other)
<1>1. CASE e.kind = "constant"
  BY <1>1 DEF Offers
<1>2. CASE e.kind = "scalar"
  BY <1>2, ValueSame DEF Offers, ScalarOffers
<1>3. CASE e.kind = "object"
  BY <1>3 DEF Offers, ObjectOffers
<1>4. CASE e.kind = "collection"
  BY <1>4, CollectionOffersSame DEF Offers
<1>5. CASE e.kind = "discriminator"
  BY <1>5 DEF Offers, DiscriminatorOffers
<1>6. CASE e.kind = "oneofValue"
  <2>1. OneofValueOffers(e, held, ord) = OneofValueOffers(e, held, other)
    BY ValueSame DEF OneofValueOffers
  <2> QED
    BY <1>6, <2>1 DEF Offers
<1>7. CASE e.kind = "merge"
  <2>1. MergeOffers(e, held, ord) = MergeOffers(e, held, other)
    BY <1>7, MergeReached, MergeOffersSame
  <2> QED
    BY <1>7, <2>1 DEF Offers
<1>8. CASE e.kind = "structPick"
  <2>1. StructPickOffers(e, held, ord) = StructPickOffers(e, held, other)
    BY PbSame DEF StructPickOffers
  <2> QED
    BY <1>8, <2>1 DEF Offers
<1> QED
  BY <1>1, <1>2, <1>3, <1>4, <1>5, <1>6, <1>7, <1>8 DEF LegalEntry

(* What is written is the same in whatever order Go lists map keys, for    *)
(* all plans and messages: every loop over a map sorts its keys, and keys  *)
(* of one map are never equal (SortedKeys, keyLess).                       *)
THEOREM WrittenAlike == Spec => []Deterministic
<1>1. ActiveInv => Deterministic
  <2> SUFFICES ASSUME ActiveInv, NEW a \in DOMAIN plan, NEW other \in MapOrders
               PROVE  Offers(plan[a], held, order) = Offers(plan[a], held, other)
    BY DEF Deterministic
  <2> QED
    BY LegalEntries, OffersSame DEF ActiveInv
<1> QED
  BY <1>1, InitActive, StepActive, PTL DEF Spec

-----------------------------------------------------------------------------
(* Values of google.protobuf.Value                                         *)

(* The parts of a value, on deeper levels than itself.                     *)
LEMMA PbParts ==
    ASSUME NEW n \in DOMAIN PbLevels, NEW v \in PbLevels[n], v[1] \in {"struct", "list"}
    PROVE  /\ v \in PbValues
           /\ \A part \in DOMAIN v[2] : \E k \in 1..n - 1 : v[2][part] \in PbLevels[k]
           /\ v[1] = "struct" => DOMAIN v[2] \in KeySets
           /\ v[1] = "list" => v[2] \in Seq(Range(v[2]))
           /\ n \in 1..Len(PbLevels) /\ Len(PbLevels) \in Nat
<1>1. PbLevels \in Seq(Range(PbLevels))
  BY PbAssumption
<1>2. n \in 1..Len(PbLevels) /\ Len(PbLevels) \in Nat
  BY <1>1
<1>3. v \in PbValues
  BY DEF PbValues, Range
<1> QED
  BY <1>2, <1>3, PbAssumption

(* A value is put together from the values of its parts alone.             *)
LEMMA PbFromPartsOnly ==
    ASSUME NEW v \in PbValues, NEW one, NEW two, NEW ord \in MapOrders,
           v[1] \in {"struct", "list"} => \A part \in DOMAIN v[2] : one[v[2][part]] = two[v[2][part]],
           v[1] = "struct" => DOMAIN v[2] \in KeySets
    PROVE  PbFromParts(v, one, ord) = PbFromParts(v, two, ord)
<1>1. CASE v[1] = "struct"
  <2> DEFINE keys == SortedKeys(v[2], ord)
             A(n) == one[v[2][keys[n]]]
             B(n) == two[v[2][keys[n]]]
  <2>1. \A n \in DOMAIN keys : keys[n] \in DOMAIN v[2]
    BY <1>1, SortedFacts
  <2>2. \A n \in DOMAIN keys : A(n) = B(n)
    BY <1>1, <2>1
  <2>3. /\ PbFromParts(v, one, ord) = Object([n \in DOMAIN keys |-> KeyString(keys[n])],
                                             [n \in DOMAIN keys |-> A(n)])
        /\ PbFromParts(v, two, ord) = Object([n \in DOMAIN keys |-> KeyString(keys[n])],
                                             [n \in DOMAIN keys |-> B(n)])
    BY <1>1, Zenon DEF PbFromParts
  <2> HIDE DEF keys, A, B
  <2>4. [n \in DOMAIN keys |-> A(n)] = [n \in DOMAIN keys |-> B(n)]
    BY <2>2
  <2> QED
    BY <2>3, <2>4
<1>2. CASE v[1] = "list"
  <2> DEFINE A(n) == one[v[2][n]]
             B(n) == two[v[2][n]]
  <2>1. \A n \in DOMAIN v[2] : A(n) = B(n)
    BY <1>2
  <2>2. /\ PbFromParts(v, one, ord) = Array([n \in DOMAIN v[2] |-> A(n)])
        /\ PbFromParts(v, two, ord) = Array([n \in DOMAIN v[2] |-> B(n)])
    BY <1>2 DEF PbFromParts
  <2> HIDE DEF A, B
  <2>3. [n \in DOMAIN v[2] |-> A(n)] = [n \in DOMAIN v[2] |-> B(n)]
    BY <2>1
  <2> QED
    BY <2>2, <2>3
<1>3. CASE v[1] \notin {"struct", "list"}
  BY <1>3 DEF PbFromParts
<1> QED
  BY <1>1, <1>2, <1>3

(* Up to a level the values of parts come before those they are part of.   *)
PbSolved(json, k, ord) ==
    \A n \in DOMAIN PbLevels : n <= k =>
        \A v \in PbLevels[n] : json[v] = PbFromParts(v, json, ord)

LEMMA PbStep ==
    ASSUME NEW json, NEW k \in Nat, NEW ord \in MapOrders, k # 0, PbSolved(json, k - 1, ord),
           NEW new, new = [v \in PbValues |-> PbFromParts(v, json, ord)]
    PROVE  PbSolved(new, k, ord)
<1> SUFFICES ASSUME NEW n \in DOMAIN PbLevels, n <= k, NEW v \in PbLevels[n]
             PROVE  new[v] = PbFromParts(v, new, ord)
  BY DEF PbSolved
<1>1. v \in PbValues
  BY DEF PbValues, Range
<1>2. PbLevels \in Seq(Range(PbLevels)) /\ n \in 1..Len(PbLevels) /\ Len(PbLevels) \in Nat
  BY PbAssumption
<1>3. ASSUME v[1] \in {"struct", "list"}, NEW part \in DOMAIN v[2]
      PROVE  new[v[2][part]] = json[v[2][part]]
  <2>1. PICK l \in 1..n - 1 : v[2][part] \in PbLevels[l]
    BY <1>3, PbParts
  <2>2. l \in DOMAIN PbLevels /\ l <= k - 1
    BY <1>2, <2>1
  <2>3. v[2][part] \in PbValues
    BY <2>1, <2>2 DEF PbValues, Range
  <2>4. json[v[2][part]] = PbFromParts(v[2][part], json, ord)
    BY <2>1, <2>2 DEF PbSolved
  <2> QED
    BY <2>3, <2>4
<1>4. v[1] = "struct" => DOMAIN v[2] \in KeySets
  BY PbParts
<1>5. PbFromParts(v, json, ord) = PbFromParts(v, new, ord)
  BY <1>1, <1>3, <1>4, PbFromPartsOnly
<1> QED
  BY <1>1, <1>5

LEMMA PbEquation ==
    ASSUME NEW ord \in MapOrders
    PROVE  PbJSON(ord) = [v \in PbValues |-> PbFromParts(v, PbJSON(ord), ord)]
<1> DEFINE Solves(json)  == json = [v \in PbValues |-> PbFromParts(v, json, ord)]
           Known(k)  == \E json : PbSolved(json, k, ord)
           Bad       == {k \in Nat : ~Known(k)}
           N         == Len(PbLevels)
<1>1. PbJSON(ord) = CHOOSE json : Solves(json)
  BY Zenon DEF PbJSON
<1>2. N \in Nat /\ DOMAIN PbLevels = 1..N
  <2>1. PbLevels \in Seq(Range(PbLevels))
    BY PbAssumption
  <2> QED
    BY <2>1
<1>3. Bad = {}
  <2> SUFFICES ASSUME Bad # {} PROVE FALSE
    OBVIOUS
  <2> HIDE DEF Known
  <2>1. Min(Bad) \in Bad /\ \A k \in Bad : Min(Bad) <= k
    BY MinMember
  <2> DEFINE k == Min(Bad)
  <2>2. k \in Nat /\ ~Known(k)
    BY <2>1
  <2>3. k # 0
    <3>1. Known(0)
      BY <1>2 DEF PbSolved, Known
    <3> QED
      BY <2>2, <3>1
  <2>4. Known(k - 1)
    <3>1. k - 1 \in Nat /\ ~(k <= k - 1)
      BY <2>2, <2>3
    <3>2. k - 1 \notin Bad
      BY <2>1, <3>1
    <3> QED
      BY <3>1, <3>2
  <2> HIDE DEF k
  <2>5. PICK json : PbSolved(json, k - 1, ord)
    BY <2>4 DEF Known
  <2> DEFINE new == [v \in PbValues |-> PbFromParts(v, json, ord)]
  <2>6. PbSolved(new, k, ord)
    BY <2>2, <2>3, <2>5, PbStep
  <2> HIDE DEF new
  <2> QED
    BY <2>2, <2>6 DEF Known
<1>4. Known(N)
  BY <1>2, <1>3
<1>5. PICK json : PbSolved(json, N, ord)
  BY <1>4
<1> DEFINE found == [v \in PbValues |-> json[v]]
<1>6. ASSUME NEW v \in PbValues PROVE PbFromParts(v, found, ord) = json[v]
  <2>1. PICK n \in 1..N : v \in PbLevels[n]
    BY <1>2 DEF PbValues, Range
  <2>2. json[v] = PbFromParts(v, json, ord)
    BY <1>2, <1>5, <2>1 DEF PbSolved
  <2>3. ASSUME v[1] \in {"struct", "list"}, NEW part \in DOMAIN v[2]
        PROVE  found[v[2][part]] = json[v[2][part]]
    <3>1. PICK l \in 1..n - 1 : v[2][part] \in PbLevels[l]
      BY <1>2, <2>1, <2>3, PbParts
    <3>2. v[2][part] \in PbValues
      BY <1>2, <2>1, <3>1 DEF PbValues, Range
    <3> QED
      BY <3>2
  <2>4. v[1] = "struct" => DOMAIN v[2] \in KeySets
    BY <1>2, <2>1, PbParts
  <2>5. PbFromParts(v, found, ord) = PbFromParts(v, json, ord)
    <3> HIDE DEF found
    <3> QED
      BY <2>3, <2>4, PbFromPartsOnly
  <2> QED
    BY <2>2, <2>5
<1>7. Solves(found)
  <2> DEFINE F == [v \in PbValues |-> PbFromParts(v, found, ord)]
  <2>1. F = [v \in PbValues |-> json[v]]
    BY <1>6
  <2> QED
    BY <2>1
<1> HIDE DEF found
<1>8. Solves(PbJSON(ord))
  <2> HIDE DEF Solves
  <2> QED
    BY <1>1, <1>7, Zenon
<1> QED
  BY <1>8

LEMMA PbFixed ==
    ASSUME NEW ord \in MapOrders, NEW v \in PbValues
    PROVE  PbJSON(ord)[v] = PbFromParts(v, PbJSON(ord), ord)
<1> DEFINE T == PbJSON(ord)
           B(w) == PbFromParts(w, T, ord)
<1>1. T = [w \in PbValues |-> B(w)]
  BY PbEquation
<1> HIDE DEF T, B
<1>2. T[v] = B(v)
  BY <1>1
<1> QED
  BY <1>2 DEF T, B

-----------------------------------------------------------------------------
(* Values that are written                                                 *)

NotAnObject == Failed("not an object")

(* Made of parts none of which failed, and failed for a reason of its own. *)
Sound(json) == WellMade(json) /\ json # NotAnObject

(* json takes the type it has from its first component.                    *)
LEMMA PlainSound ==
    ASSUME NEW json, json[1] \notin {"array", "object", "failed"}
    PROVE  Sound(json) /\ ~IsFailed(json)
<1>1. NotAnObject[1] = "failed"
  BY DEF NotAnObject, Failed
<1>2. json # NotAnObject
  BY <1>1
<1>3. Parts(json) = {}
  BY DEF Parts
<1> QED
  BY <1>2, <1>3 DEF Sound, WellMade, IsFailed

LEMMA ShapesSound ==
    /\ \A b : Sound(Bool(b)) /\ ~IsFailed(Bool(b))
    /\ \A n : Sound(Num(n)) /\ ~IsFailed(Num(n))
    /\ \A t : Sound(Str(t)) /\ ~IsFailed(Str(t))
    /\ Sound(Null) /\ ~IsFailed(Null)
    /\ Sound(Obj(<<>>)) /\ ~IsFailed(Obj(<<>>))
<1>1. \A b : Bool(b)[1] = "boolean"
  BY DEF Bool
<1>2. \A n : Num(n)[1] = "number"
  BY DEF Num
<1>3. \A t : Str(t)[1] = "string"
  BY DEF Str
<1>4. Null[1] = "null"
  BY DEF Null
<1>5. Sound(Obj(<<>>)) /\ ~IsFailed(Obj(<<>>))
  <2>1. Obj(<<>>)[1] = "object" /\ Obj(<<>>)[2] = <<>>
    BY DEF Obj
  <2>2. Parts(Obj(<<>>)) = {}
    BY <2>1 DEF Parts, Range
  <2>3. NotAnObject[1] = "failed"
    BY DEF NotAnObject, Failed
  <2>4. Obj(<<>>) # NotAnObject
    BY <2>1, <2>3
  <2> QED
    BY <2>1, <2>2, <2>4 DEF Sound, WellMade, IsFailed
<1> QED
  BY <1>1, <1>2, <1>3, <1>4, <1>5, PlainSound

(* An array or object of sound values is sound, or the first that failed.  *)
LEMMA ArraySound ==
    ASSUME NEW jsons, DOMAIN jsons \in SUBSET Nat, \A n \in DOMAIN jsons : Sound(jsons[n])
    PROVE  /\ Sound(Array(jsons))
           /\ (\A n \in DOMAIN jsons : ~IsFailed(jsons[n])) => Array(jsons) = Arr(jsons)
<1>1. CASE Failures(jsons) # {}
  <2>1. Failures(jsons) \in SUBSET Nat
    BY DEF Failures
  <2>2. Min(Failures(jsons)) \in Failures(jsons)
    BY <1>1, <2>1, MinMember
  <2>3. Min(Failures(jsons)) \in DOMAIN jsons /\ IsFailed(jsons[Min(Failures(jsons))])
    BY <2>2 DEF Failures
  <2> QED
    BY <1>1, <2>3 DEF Array
<1>2. CASE Failures(jsons) = {}
  <2>1. Array(jsons) = Arr(jsons)
    BY <1>2 DEF Array
  <2>2. Parts(Arr(jsons)) = Range(jsons)
    BY DEF Parts, Arr
  <2>3. \A n \in DOMAIN jsons : ~IsFailed(jsons[n])
    BY <1>2 DEF Failures
  <2>4. WellMade(Arr(jsons))
    BY <2>2, <2>3 DEF WellMade, Range
  <2>5. Arr(jsons) # NotAnObject
    BY DEF Arr, NotAnObject, Failed
  <2> QED
    BY <2>1, <2>4, <2>5 DEF Sound
<1> QED
  BY <1>1, <1>2

LEMMA ObjectSound ==
    ASSUME NEW keys, NEW jsons, DOMAIN jsons \in SUBSET Nat, \A n \in DOMAIN jsons : Sound(jsons[n])
    PROVE  /\ Sound(Object(keys, jsons))
           /\ (\A n \in DOMAIN jsons : ~IsFailed(jsons[n])) =>
                 Object(keys, jsons) = Obj([n \in DOMAIN jsons |-> <<keys[n], jsons[n]>>])
<1>1. CASE Failures(jsons) # {}
  <2>1. Failures(jsons) \in SUBSET Nat
    BY DEF Failures
  <2>2. Min(Failures(jsons)) \in Failures(jsons)
    BY <1>1, <2>1, MinMember
  <2>3. Min(Failures(jsons)) \in DOMAIN jsons /\ IsFailed(jsons[Min(Failures(jsons))])
    BY <2>2 DEF Failures
  <2> QED
    BY <1>1, <2>3 DEF Object
<1>2. CASE Failures(jsons) = {}
  <2> DEFINE pairs == [n \in DOMAIN jsons |-> <<keys[n], jsons[n]>>]
  <2>1. Object(keys, jsons) = Obj(pairs)
    BY <1>2 DEF Object
  <2>2. \A pair \in Range(pairs) : ~IsFailed(pair[2])
    BY <1>2 DEF Failures, Range
  <2> HIDE DEF pairs
  <2>3. Parts(Obj(pairs)) = {pair[2] : pair \in Range(pairs)}
    BY DEF Parts, Obj
  <2>4. WellMade(Obj(pairs))
    BY <2>2, <2>3 DEF WellMade
  <2>5. Obj(pairs) # NotAnObject
    BY DEF Obj, NotAnObject, Failed
  <2> QED
    BY <2>1, <2>4, <2>5 DEF Sound, pairs
<1> QED
  BY <1>1, <1>2

(* The pairs of another encoder's object.                                  *)
LEMMA PairsSound ==
    ASSUME NEW pairs, ArePairs(pairs)
    PROVE  /\ Sound(Obj(pairs))
           /\ pairs \in Seq(Range(pairs))
           /\ \A n \in DOMAIN pairs : Sound(pairs[n][2])
<1>1. /\ pairs \in Seq(Range(pairs))
      /\ \A n \in DOMAIN pairs : ~IsFailed(pairs[n][2]) /\ WellMade(pairs[n][2])
  BY DEF ArePairs
<1>2. \A pair \in Range(pairs) : ~IsFailed(pair[2])
  BY <1>1 DEF Range
<1>3. Parts(Obj(pairs)) = {pair[2] : pair \in Range(pairs)}
  BY DEF Parts, Obj
<1>4. Obj(pairs) # NotAnObject
  BY DEF Obj, NotAnObject, Failed
<1>5. \A json : ~IsFailed(json) => json # NotAnObject
  <2>1. IsFailed(NotAnObject)
    BY DEF NotAnObject, Failed, IsFailed
  <2> QED
    BY <2>1
<1> QED
  BY <1>1, <1>2, <1>3, <1>4, <1>5 DEF Sound, WellMade

-----------------------------------------------------------------------------
(* Nothing that is a google.protobuf.Value fails to be written.            *)
Solid(json) == Sound(json) /\ ~IsFailed(json)

LEMMA PbPartsSolid ==
    ASSUME NEW v \in PbValues, NEW json, NEW ord \in MapOrders,
           v[1] \in {"struct", "list"} => \A part \in DOMAIN v[2] : Solid(json[v[2][part]]),
           v[1] = "struct" => DOMAIN v[2] \in KeySets,
           v[1] = "list" => v[2] \in Seq(Range(v[2]))
    PROVE  /\ Solid(PbFromParts(v, json, ord))
           /\ v[1] = "struct" => PbFromParts(v, json, ord)[1] = "object"
           /\ v[1] = "list" => PbFromParts(v, json, ord)[1] = "array"
<1>1. CASE v[1] = "struct"
  <2> DEFINE keys  == SortedKeys(v[2], ord)
             names == [n \in DOMAIN keys |-> KeyString(keys[n])]
             jsons == [n \in DOMAIN keys |-> json[v[2][keys[n]]]]
  <2>1. keys \in [1..Cardinality(DOMAIN v[2]) -> DOMAIN v[2]] /\ Cardinality(DOMAIN v[2]) \in Nat
    BY <1>1, SortedFacts
  <2>2. PbFromParts(v, json, ord) = Object(names, jsons)
    BY <1>1, Zenon DEF PbFromParts
  <2> HIDE DEF keys
  <2>3. DOMAIN jsons \in SUBSET Nat /\ \A n \in DOMAIN jsons : Solid(jsons[n])
    BY <1>1, <2>1
  <2> HIDE DEF names, jsons
  <2>4. /\ Sound(Object(names, jsons))
        /\ Object(names, jsons) = Obj([n \in DOMAIN jsons |-> <<names[n], jsons[n]>>])
    BY <2>3, ObjectSound DEF Solid
  <2>5. Object(names, jsons)[1] = "object"
    BY <2>4 DEF Obj
  <2> QED
    BY <1>1, <2>2, <2>4, <2>5 DEF Solid, IsFailed
<1>2. CASE v[1] = "list"
  <2> DEFINE jsons == [n \in DOMAIN v[2] |-> json[v[2][n]]]
  <2>1. PbFromParts(v, json, ord) = Array(jsons)
    BY <1>2 DEF PbFromParts
  <2>2. DOMAIN v[2] \in SUBSET Nat
    BY <1>2
  <2>3. DOMAIN jsons \in SUBSET Nat /\ \A n \in DOMAIN jsons : Solid(jsons[n])
    BY <1>2, <2>2
  <2> HIDE DEF jsons
  <2>4. Sound(Array(jsons)) /\ Array(jsons) = Arr(jsons)
    BY <2>3, ArraySound DEF Solid
  <2>5. Array(jsons)[1] = "array"
    BY <2>4 DEF Arr
  <2> QED
    BY <1>2, <2>1, <2>4, <2>5 DEF Solid, IsFailed
<1>3. CASE v[1] \notin {"struct", "list"}
  <2>1. \E x : PbFromParts(v, json, ord) \in {Num(x), Str(x), Bool(x), Null}
    BY <1>3 DEF PbFromParts, FloatJSON
  <2> QED
    BY <1>3, <2>1, ShapesSound DEF Solid
<1> QED
  BY <1>1, <1>2, <1>3

LEMMA PbSolid ==
    ASSUME NEW ord \in MapOrders, NEW v \in PbValues
    PROVE  /\ Solid(PbJSON(ord)[v])
           /\ v[1] = "struct" => PbJSON(ord)[v][1] = "object" /\ DOMAIN v[2] \in KeySets
           /\ v[1] = "list" => PbJSON(ord)[v][1] = "array"
<1> DEFINE T == PbJSON(ord)
           N == Len(PbLevels)
           Bad == {n \in 1..N : \E w \in PbLevels[n] : ~Solid(T[w])}
<1>1. N \in Nat /\ DOMAIN PbLevels = 1..N
  <2>1. PbLevels \in Seq(Range(PbLevels))
    BY PbAssumption
  <2> QED
    BY <2>1
<1>2. \A w \in PbValues : \E n \in 1..N : w \in PbLevels[n]
  BY <1>1 DEF PbValues, Range
<1>3. \A w \in PbValues : T[w] = PbFromParts(w, T, ord)
  BY PbFixed
<1> HIDE DEF T, N
<1>4. ASSUME NEW n \in 1..N, NEW w \in PbLevels[n], \A k \in 1..n - 1 : k \notin Bad
      PROVE  /\ Solid(T[w])
             /\ w[1] = "struct" => T[w][1] = "object" /\ DOMAIN w[2] \in KeySets
             /\ w[1] = "list" => T[w][1] = "array"
  <2>1. w \in PbValues /\ n \in DOMAIN PbLevels
    BY <1>1 DEF PbValues, Range
  <2>2. ASSUME w[1] \in {"struct", "list"}, NEW part \in DOMAIN w[2]
        PROVE  Solid(T[w[2][part]])
    <3>1. PICK k \in 1..n - 1 : w[2][part] \in PbLevels[k]
      BY <2>1, <2>2, PbParts
    <3>2. k \in 1..N /\ k \notin Bad
      BY <1>1, <1>4, <3>1
    <3> QED
      BY <3>1, <3>2
  <2>3. /\ w[1] = "struct" => DOMAIN w[2] \in KeySets
        /\ w[1] = "list" => w[2] \in Seq(Range(w[2]))
    BY <2>1, PbParts
  <2>4. /\ Solid(PbFromParts(w, T, ord))
        /\ w[1] = "struct" => PbFromParts(w, T, ord)[1] = "object"
        /\ w[1] = "list" => PbFromParts(w, T, ord)[1] = "array"
    BY <2>1, <2>2, <2>3, PbPartsSolid
  <2> QED
    BY <1>3, <2>1, <2>3, <2>4
<1>5. Bad = {}
  <2> SUFFICES ASSUME Bad # {} PROVE FALSE
    OBVIOUS
  <2>1. Bad \in SUBSET Nat
    BY <1>1
  <2> DEFINE n == Min(Bad)
  <2>2. n \in Bad /\ \A k \in Bad : n <= k
    <3> HIDE DEF Bad
    <3> QED
      BY <2>1, MinMember
  <2>3. n \in 1..N
    BY <2>2
  <2>4. \A k \in 1..n - 1 : k \notin Bad
    <3> HIDE DEF Bad
    <3> QED
      BY <2>2, <2>3
  <2> HIDE DEF n
  <2>5. \A w \in PbLevels[n] : Solid(T[w])
    BY <1>4, <2>3, <2>4, Zenon
  <2> QED
    BY <2>2, <2>5
<1>6. PICK n \in 1..N : v \in PbLevels[n]
  BY <1>2
<1>7. \A k \in 1..n - 1 : k \notin Bad
  BY <1>5
<1> HIDE DEF Bad
<1> QED
  BY <1>4, <1>6, <1>7 DEF T

-----------------------------------------------------------------------------
(* Sequences put together                                                  *)

FlatStep(seqs, flat, i) == IF i = 1 THEN seqs[i] ELSE flat[i - 1] \o seqs[i]

LEMMA FlatSteps ==
    ASSUME NEW seqs, Len(seqs) \in Nat, Len(seqs) # 0
    PROVE  \E flat : /\ FlattenSeq(seqs) = flat[Len(seqs)]
                     /\ \A i \in 1..Len(seqs) : flat[i] = FlatStep(seqs, flat, i)
<1> DEFINE N == Len(seqs)
           Solves(flat) == flat = [i \in 1..N |-> FlatStep(seqs, flat, i)]
           Known(k) == \E flat : \A i \in 1..N : i <= k => flat[i] = FlatStep(seqs, flat, i)
           Bad == {k \in Nat : ~Known(k)}
           F == CHOOSE flat : Solves(flat)
<1>1. FlattenSeq(seqs) = F[N]
  BY Zenon DEF FlattenSeq, FlatStep
<1>2. Bad = {}
  <2> SUFFICES ASSUME Bad # {} PROVE FALSE
    OBVIOUS
  <2>1. Min(Bad) \in Bad /\ \A k \in Bad : Min(Bad) <= k
    BY MinMember
  <2> DEFINE k == Min(Bad)
  <2>2. k \in Nat /\ ~Known(k)
    BY <2>1
  <2>3. k # 0
    <3>1. Known(0)
      OBVIOUS
    <3> QED
      BY <2>2, <3>1
  <2>4. Known(k - 1)
    <3>1. k - 1 \in Nat /\ ~(k <= k - 1)
      BY <2>2, <2>3
    <3>2. k - 1 \notin Bad
      BY <2>1, <3>1
    <3> QED
      BY <3>1, <3>2
  <2>5. PICK old : \A i \in 1..N : i <= k - 1 => old[i] = FlatStep(seqs, old, i)
    BY <2>4
  <2> DEFINE new == [i \in 1..N |-> FlatStep(seqs, old, i)]
  <2>6. ASSUME NEW i \in 1..N, i <= k PROVE new[i] = FlatStep(seqs, new, i)
    <3>1. CASE i = 1
      BY <3>1 DEF FlatStep
    <3>2. CASE i # 1
      <4>1. i - 1 \in 1..N /\ i - 1 <= k - 1
        BY <2>2, <2>6, <3>2
      <4>2. new[i - 1] = old[i - 1]
        BY <2>5, <4>1
      <4>3. new[i] = FlatStep(seqs, old, i)
        OBVIOUS
      <4> HIDE DEF new
      <4> QED
        BY <3>2, <4>2, <4>3 DEF FlatStep
    <3> QED
      BY <3>1, <3>2
  <2>7. Known(k)
    <3> HIDE DEF new
    <3> QED
      BY <2>6
  <2> QED
    BY <2>2, <2>7
<1>3. Known(N)
  BY <1>2
<1>4. PICK flat : \A i \in 1..N : i <= N => flat[i] = FlatStep(seqs, flat, i)
  BY <1>3
<1> DEFINE found == [i \in 1..N |-> flat[i]]
<1>5. ASSUME NEW i \in 1..N PROVE FlatStep(seqs, found, i) = flat[i]
  <2>1. flat[i] = FlatStep(seqs, flat, i)
    BY <1>4
  <2>2. i # 1 => found[i - 1] = flat[i - 1]
    OBVIOUS
  <2> HIDE DEF found
  <2> QED
    BY <2>1, <2>2 DEF FlatStep
<1>6. Solves(found)
  <2> DEFINE G == [i \in 1..N |-> FlatStep(seqs, found, i)]
  <2>1. G = [i \in 1..N |-> flat[i]]
    BY <1>5
  <2> QED
    BY <2>1
<1>7. Solves(F)
  <2> HIDE DEF Solves
  <2> QED
    BY <1>6, Zenon
<1> HIDE DEF F
<1>8. ASSUME NEW i \in 1..N PROVE F[i] = FlatStep(seqs, F, i)
  <2> DEFINE B(x) == FlatStep(seqs, F, x)
  <2>1. F = [x \in 1..N |-> B(x)]
    BY <1>7
  <2> HIDE DEF B
  <2>2. F[i] = B(i)
    BY <2>1
  <2> QED
    BY <2>2 DEF B
<1> QED
  BY <1>1, <1>8

(* Every element of a flattened sequence is one of a sequence in it.       *)
LEMMA FlatFacts ==
    ASSUME NEW S, NEW seqs \in Seq(Seq(S)), NEW all, all = FlattenSeq(seqs)
    PROVE  /\ all \in Seq(S)
           /\ \A x \in DOMAIN all : \E i \in DOMAIN seqs :
                 \E j \in DOMAIN seqs[i] : all[x] = seqs[i][j]
<1>1. CASE Len(seqs) = 0
  <2>1. FlattenSeq(seqs) = seqs
    BY <1>1 DEF FlattenSeq
  <2>2. seqs = <<>>
    BY <1>1, EmptySeq
  <2>3. seqs \in Seq(S) /\ DOMAIN seqs = {}
    BY <2>2
  <2> QED
    BY <2>1, <2>3
<1>2. CASE Len(seqs) # 0
  <2> USE Len(seqs) \in Nat /\ DOMAIN seqs = 1..Len(seqs)
              /\ \A i \in DOMAIN seqs : seqs[i] \in Seq(S)
  <2> DEFINE N == Len(seqs)
  <2>1. PICK flat : /\ FlattenSeq(seqs) = flat[N]
                    /\ \A i \in 1..N : flat[i] = FlatStep(seqs, flat, i)
    BY <1>2, FlatSteps
  <2> DEFINE From(n)  == \A x \in DOMAIN flat[n] : \E i \in 1..n :
                             \E j \in DOMAIN seqs[i] : flat[n][x] = seqs[i][j]
             Ok(n)   == flat[n] \in Seq(S) /\ From(n)
             Bad     == {n \in 1..N : ~Ok(n)}
  <2>2. Ok(1)
    <3>1. flat[1] = seqs[1] /\ 1 \in DOMAIN seqs
      BY <1>2, <2>1 DEF FlatStep
    <3>2. From(1)
      BY <3>1
    <3> QED
      BY <3>1, <3>2
  <2>3. Bad = {}
    <3> SUFFICES ASSUME Bad # {} PROVE FALSE
      OBVIOUS
    <3>1. Bad \in SUBSET Nat
      OBVIOUS
    <3> DEFINE n == Min(Bad)
    <3>2. n \in Bad /\ \A i \in Bad : n <= i
      <4> HIDE DEF Bad
      <4> QED
        BY <3>1, MinMember
    <3>3. n \in 1..N /\ ~Ok(n)
      BY <3>2
    <3>4. n \in 2..N /\ n - 1 \in 1..N /\ ~(n <= n - 1)
      <4> HIDE DEF Ok
      <4> QED
        BY <2>2, <3>3
    <3>5. Ok(n - 1)
      <4>1. n - 1 \notin Bad
        BY <3>2, <3>4
      <4> HIDE DEF Ok
      <4> QED
        BY <3>4, <4>1
    <3> HIDE DEF n
    <3> DEFINE s == flat[n - 1]
               t == seqs[n]
    <3>6. flat[n] = s \o t
      <4>1. flat[n] = FlatStep(seqs, flat, n) /\ n # 1
        BY <2>1, <3>4
      <4> QED
        BY <4>1 DEF FlatStep
    <3>7. s \in Seq(S) /\ t \in Seq(S)
      BY <3>4, <3>5
    <3>8. From(n - 1)
      BY <3>5
    <3> HIDE DEF s, t
    <3>9. /\ s \o t \in Seq(S) /\ DOMAIN (s \o t) = 1..(Len(s) + Len(t))
          /\ Len(s) \in Nat /\ Len(t) \in Nat /\ DOMAIN s = 1..Len(s) /\ DOMAIN t = 1..Len(t)
          /\ \A x \in 1..Len(s) : (s \o t)[x] = s[x]
          /\ \A x \in Len(s) + 1..Len(s) + Len(t) : (s \o t)[x] = t[x - Len(s)]
                                                      /\ x - Len(s) \in 1..Len(t)
      BY <3>7
    <3>10. From(n)
      <4> SUFFICES ASSUME NEW x \in DOMAIN flat[n]
                   PROVE  \E i \in 1..n : \E j \in DOMAIN seqs[i] : flat[n][x] = seqs[i][j]
        OBVIOUS
      <4> DEFINE p == (s \o t)[x]
      <4>0. x \in 1..(Len(s) + Len(t)) /\ flat[n][x] = p
        BY <3>6, <3>9
      <4> HIDE DEF p
      <4> SUFFICES \E i \in 1..n : \E j \in DOMAIN seqs[i] : p = seqs[i][j]
        BY <4>0
      <4>1. CASE x \in 1..Len(s)
        <5>1. PICK i \in 1..n - 1 : \E j \in DOMAIN seqs[i] : s[x] = seqs[i][j]
          BY <3>8, <3>9, <4>1 DEF s
        <5>2. i \in 1..n
          BY <3>4
        <5>3. p = s[x]
          BY <3>9, <4>1 DEF p
        <5> QED
          BY <5>1, <5>2, <5>3
      <4>2. CASE x \notin 1..Len(s)
        <5>1. x \in Len(s) + 1..Len(s) + Len(t)
          BY <3>9, <4>0, <4>2
        <5>2. p = t[x - Len(s)] /\ x - Len(s) \in DOMAIN t
          BY <3>9, <5>1 DEF p
        <5> QED
          BY <3>4, <5>2 DEF t
      <4> QED
        BY <4>1, <4>2
    <3>11. flat[n] \in Seq(S)
      BY <3>6, <3>9
    <3> HIDE DEF From
    <3> QED
      BY <3>3, <3>10, <3>11
  <2>4. N \in 1..N
    BY <1>2
  <2>5. Ok(N)
    <3> HIDE DEF Ok
    <3> QED
      BY <2>3, <2>4
  <2> DEFINE r == flat[N]
  <2>6. /\ r \in Seq(S)
        /\ \A x \in DOMAIN r : \E i \in DOMAIN seqs : \E j \in DOMAIN seqs[i] : r[x] = seqs[i][j]
    BY <2>5
  <2>7. FlattenSeq(seqs) = r
    BY <2>1
  <2> HIDE DEF r
  <2> QED
    BY <2>6, <2>7
<1> QED
  BY <1>1, <1>2

LEMMA ScalarSolid ==
    ASSUME NEW type \in Scalars, NEW v, NEW sc
    PROVE  Solid(ScalarJSON(type, v, sc))
<1>1. \A x, format : Solid(EnumJSON(x, format)) /\ Solid(Int64JSON(x, format)) /\ Solid(FloatJSON(x))
  BY ShapesSound DEF EnumJSON, Int64JSON, FloatJSON, Solid
<1>2. ASSUME NEW format PROVE Solid(BytesJSON(v, format))
  <2>1. CASE format = "ARRAY"
    <3> DEFINE jsons == [n \in DOMAIN v |-> Num(v[n])]
    <3>1. BytesJSON(v, format) = Arr(jsons)
      BY <2>1 DEF BytesJSON
    <3>2. \A json \in Range(jsons) : ~IsFailed(json)
      BY ShapesSound DEF Range
    <3> HIDE DEF jsons
    <3>3. Arr(jsons)[1] = "array" /\ Parts(Arr(jsons)) = Range(jsons)
      BY DEF Parts, Arr
    <3>4. NotAnObject[1] = "failed"
      BY DEF NotAnObject, Failed
    <3> QED
      BY <3>1, <3>2, <3>3, <3>4 DEF Solid, Sound, WellMade, IsFailed
  <2>2. CASE format # "ARRAY"
    BY <2>2, ShapesSound DEF BytesJSON, Solid
  <2> QED
    BY <2>1, <2>2
<1>3. Solid(Bool(v)) /\ Solid(Num(v)) /\ Solid(Str(<<"text", v>>))
  BY ShapesSound DEF Solid
<1> QED
  BY <1>1, <1>2, <1>3 DEF ScalarJSON, Scalars

LEMMA AnySound ==
    ASSUME NEW any, any.payload[1] = "pairs" => ArePairs(any.payload[2])
    PROVE  /\ Sound(AnyJSON(any))
           /\ AnyJSON(any) = Failed("payload") \/ AnyJSON(any)[1] = "object"
<1> DEFINE url  == Str(<<"url", any.url>>)
           type == << <<"text", "@type">>, url>>
           more == any.payload[2]
<1>1. NotAnObject[1] = "failed"
  BY DEF NotAnObject, Failed
<1>2. \A pairs : Obj(pairs)[1] = "object" /\ Parts(Obj(pairs)) = {pair[2] : pair \in Range(pairs)}
  BY DEF Obj, Parts
<1>3. ~IsFailed(type[2])
  BY ShapesSound
<1>4. CASE any.payload[1] = "fails"
  <2>1. AnyJSON(any) = Failed("payload")
    BY <1>4 DEF AnyJSON
  <2>2. Failed("payload")[1] = "failed" /\ Failed("payload")[2] = "payload"
        /\ NotAnObject[2] = "not an object"
    BY DEF Failed, NotAnObject
  <2>3. Parts(Failed("payload")) = {}
    BY <2>2 DEF Parts
  <2>4. Failed("payload") # NotAnObject
    BY <2>2
  <2> QED
    BY <2>1, <2>3, <2>4 DEF Sound, WellMade
<1>5. CASE any.payload[1] = "pairs"
  <2> DEFINE pairs == <<type>> \o more
  <2>1. AnyJSON(any) = Obj(pairs)
    BY <1>5 DEF AnyJSON
  <2>2. more \in Seq(Range(more)) /\ \A n \in DOMAIN more : ~IsFailed(more[n][2])
    BY <1>5, PairsSound DEF ArePairs
  <2> HIDE DEF type, more
  <2>3. \A n \in DOMAIN pairs : pairs[n] = type \/ \E k \in DOMAIN more : pairs[n] = more[k]
    <3> DEFINE one == <<type>>
               S == Range(more) \cup {type}
    <3>1. one \in Seq(S) /\ more \in Seq(S) /\ Len(one) = 1 /\ one[1] = type
      BY <2>2
    <3> HIDE DEF one
    <3>2. /\ Len(more) \in Nat /\ DOMAIN more = 1..Len(more)
          /\ DOMAIN (one \o more) = 1..(1 + Len(more))
          /\ \A n \in 1..(1 + Len(more)) : (one \o more)[n] = IF n <= 1 THEN one[n] ELSE more[n - 1]
      <4> HIDE DEF S
      <4>1. Len(more) \in Nat /\ DOMAIN more = 1..Len(more)
        BY <3>1
      <4>2. /\ one \o more \in Seq(S) /\ Len(one \o more) = Len(one) + Len(more)
            /\ \A i \in 1..Len(one) + Len(more) : (one \o more)[i] =
                  IF i <= Len(one) THEN one[i] ELSE more[i - Len(one)]
        BY <3>1, ConcatProperties
      <4> QED
        BY <3>1, <4>1, <4>2
    <3>3. \A n \in 1..(1 + Len(more)) : n <= 1 => n = 1
      BY <3>2
    <3>4. \A n \in 1..(1 + Len(more)) : ~(n <= 1) => n - 1 \in DOMAIN more
      BY <3>2
    <3> QED
      BY <3>1, <3>2, <3>3, <3>4 DEF one
  <2>4. \A pair \in Range(pairs) : ~IsFailed(pair[2])
    BY <1>3, <2>2, <2>3 DEF Range, type
  <2> HIDE DEF pairs
  <2>5. Obj(pairs) # NotAnObject
    BY <1>1, <1>2
  <2> QED
    BY <1>2, <2>1, <2>4, <2>5 DEF Sound, WellMade
<1>6. CASE any.payload[1] \notin {"fails", "pairs"}
  <2> DEFINE pairs == <<type>>
  <2>1. AnyJSON(any) = Obj(pairs)
    BY <1>6 DEF AnyJSON
  <2>2. Range(pairs) = {type}
    BY DEF Range
  <2> HIDE DEF pairs, type
  <2>3. Obj(pairs) # NotAnObject
    BY <1>1, <1>2
  <2> QED
    BY <1>2, <1>3, <2>1, <2>2, <2>3 DEF Sound, WellMade, type
<1> QED
  BY <1>4, <1>5, <1>6

(* Any value is written whole, or fails for a reason of its own.           *)
LEMMA ValueSound ==
    ASSUME NEW type, NEW v, Allowed(type, v), NEW sc, NEW ord \in MapOrders
    PROVE  Sound(ValueJSON(type, v, sc, ord))
<1>1. CASE type \in Scalars
  <2>1. type \notin WellKnown
    BY <1>1 DEF WellKnown, Wrapped, Scalars
  <2>2. ValueJSON(type, v, sc, ord) = ScalarJSON(type, v, sc)
    BY <1>1, <2>1 DEF ValueJSON
  <2> QED
    BY <1>1, <2>2, ScalarSolid DEF Solid
<1>2. CASE type \in DOMAIN Wrapped
  <2>1. /\ Wrapped[type] \in Scalars /\ type \notin Scalars
        /\ type \in WellKnown /\ type # "Empty"
    BY <1>2 DEF Wrapped, Scalars, WellKnown
  <2>2. ValueJSON(type, v, sc, ord) = ScalarJSON(Wrapped[type], Unwrap(type, v), sc)
    BY <1>2, <2>1 DEF ValueJSON, WellKnownJSON
  <2> QED
    BY <2>1, <2>2, ScalarSolid DEF Solid
<1>3. CASE type \in WellKnown \ DOMAIN Wrapped
  <2>1. type \notin Scalars
    BY <1>3 DEF WellKnown, Wrapped, Scalars
  <2>2. ValueJSON(type, v, sc, ord) = WellKnownJSON(type, v, sc, ord)
    BY <1>3, <2>1 DEF ValueJSON
  <2>3. CASE type = "Empty" \/ v = Nil
    BY <1>3, <2>2, <2>3, ShapesSound DEF WellKnownJSON
  <2>4. CASE type # "Empty" /\ v # Nil
    <3>1. WellKnownJSON(type, v, sc, ord) = ContentJSON(type, v[2], sc, ord)
      BY <1>3, <2>4 DEF WellKnownJSON
    <3>2. CASE type = "Timestamp"
      BY <2>2, <3>1, <3>2, ShapesSound DEF ContentJSON, TimestampJSON
    <3>3. CASE type = "Duration"
      BY <2>2, <3>1, <3>3, ShapesSound DEF ContentJSON, DurationJSON
    <3>4. CASE type = "FieldMask"
      BY <2>2, <3>1, <3>4, ShapesSound DEF ContentJSON
    <3>5. CASE type = "Any"
      BY <2>1, <2>2, <2>4, <3>1, <3>5, AnySound DEF ContentJSON, Allowed
    <3>6. CASE type \in {"Struct", "ListValue", "Value"}
      <4>1. v[2] \in PbValues
        BY <2>1, <2>4, <3>6 DEF Allowed
      <4> QED
        BY <2>2, <3>1, <3>6, <4>1, PbSolid DEF ContentJSON, Solid
    <3> QED
      BY <1>3, <2>4, <3>2, <3>3, <3>4, <3>5, <3>6 DEF WellKnown
  <2> QED
    BY <2>3, <2>4
<1>4. CASE type \notin Scalars \cup WellKnown
  BY <1>4, ShapesSound DEF ValueJSON
<1>5. DOMAIN Wrapped \in SUBSET WellKnown
  BY DEF WellKnown
<1> QED
  BY <1>1, <1>2, <1>3, <1>4

LEMMA NestedSound ==
    ASSUME NEW v, Allowed("message", v)
    PROVE  Sound(NestedJSON(v)) /\ (v = Nil \/ ~v[2].fails => ~IsFailed(NestedJSON(v)))
<1>1. "message" \notin Scalars
  BY DEF Scalars
<1>2. CASE v = Nil
  BY <1>2, ShapesSound DEF NestedJSON
<1>3. CASE v # Nil /\ v[2].fails
  <2>1. NestedJSON(v) = Failed("nested")
    BY <1>3 DEF NestedJSON
  <2>2. Failed("nested")[1] = "failed" /\ Failed("nested")[2] = "nested"
        /\ NotAnObject[2] = "not an object"
    BY DEF Failed, NotAnObject
  <2>3. Parts(Failed("nested")) = {}
    BY <2>2 DEF Parts
  <2>4. Failed("nested") # NotAnObject
    BY <2>2
  <2> QED
    BY <1>3, <2>1, <2>3, <2>4 DEF Sound, WellMade
<1>4. CASE v # Nil /\ ~v[2].fails
  <2>1. ArePairs(v[2].pairs)
    BY <1>1, <1>4 DEF Allowed
  <2>2. NestedJSON(v) = Obj(v[2].pairs)
    BY <1>4 DEF NestedJSON
  <2>3. ~IsFailed(Obj(v[2].pairs))
    BY DEF IsFailed, Obj
  <2> QED
    BY <2>1, <2>2, <2>3, PairsSound
<1> QED
  BY <1>2, <1>3, <1>4

LEMMA JSONOfSound ==
    ASSUME NEW type, NEW v, Allowed(type, v), NEW sc, NEW ord \in MapOrders
    PROVE  Sound(JSONOf(type, v, sc, ord))
BY ValueSound, NestedSound DEF JSONOf

(* Elements one of which is what its type, or its pick, allows.            *)
ElementAllowed(e, f, v) == IF e.pick = "none" THEN Allowed(f.type, v)
                                              ELSE Allowed(e.pick, Picked(v, e.pick))

LEMMA ElementSound ==
    ASSUME NEW e, NEW f, NEW v, ElementAllowed(e, f, v), NEW ord \in MapOrders
    PROVE  Sound(ElementJSON(e, f, v, ord))
BY JSONOfSound DEF ElementJSON, ElementAllowed

(* What a message holds, or the zero of its type, its type allows.         *)
LEMMA HeldAllowed ==
    ASSUME Consistent(held), NEW path, LegalPath(held, path), path # <<>>,
           NEW f, f = LeafOf(path), NEW v, v = Get(held, path)
    PROVE  /\ ~IsCollection(f) => Allowed(f.type, v)
           /\ IsCollection(f) => /\ \A n \in DOMAIN v : Allowed(f.type, v[n])
                                 /\ f.card = "list" => v \in Seq(Range(v))
                                 /\ f.card = "map" => DOMAIN v \in KeySets
                                 /\ f.card \in {"list", "map"}
<1>1. path \in DOMAIN held
  BY LeafFacts
<1>2. f.card \in {"one", "list", "map"}
  <2>1. Len(path) \in DOMAIN path /\ path \in Seq(DOMAIN Info) /\ f = Info[path[Len(path)]]
    BY LeafFacts DEF LegalPath
  <2>2. path[Len(path)] \in DOMAIN Info
    BY <2>1
  <2> QED
    BY <2>1, <2>2, InfoAssumption
<1>3. CASE held[path] = Unset
  <2>1. v = ZeroOfField(f)
    BY <1>3 DEF Get
  <2>2. CASE IsCollection(f)
    <3>1. v = <<>> /\ DOMAIN v = {} /\ Range(v) = {}
      BY <2>1, <2>2 DEF ZeroOfField, Range
    <3>2. v \in Seq(Range(v))
      BY <3>1
    <3> QED
      BY <1>2, <2>2, <3>1, <3>2, KeySetsAssumption DEF IsCollection
  <2>3. CASE ~IsCollection(f)
    <3>1. v = ZeroOf(f.type)
      BY <2>1, <2>3 DEF ZeroOfField
    <3>2. f.type \notin Scalars => v = Nil
      BY <3>1 DEF ZeroOf, Scalars
    <3> QED
      BY <2>3, <3>2 DEF Allowed
  <2> QED
    BY <2>2, <2>3
<1>4. CASE held[path] # Unset
  <2>1. v = held[path][2]
    BY <1>4 DEF Get
  <2>2. /\ f.card = "one" => Allowed(f.type, v)
        /\ f.card = "list" => v \in Seq(Range(v))
        /\ f.card = "map" => DOMAIN v \in KeySets
        /\ IsCollection(f) => \A n \in DOMAIN v : Allowed(f.type, v[n])
    BY <1>1, <1>4, <2>1 DEF Consistent
  <2> QED
    BY <1>2, <2>2 DEF IsCollection
<1> QED
  BY <1>3, <1>4

-----------------------------------------------------------------------------
(* Collections that are written                                            *)

(* values are what a field holds, and a pick finds in its elements.        *)
Collection(e, f, values) ==
    /\ \/ f.card = "list" /\ values \in Seq(Range(values))
       \/ f.card = "map" /\ DOMAIN values \in KeySets
    /\ \A n \in DOMAIN values : ElementAllowed(e, f, values[n])

(* The elements are the values, in some order.                             *)
LEMMA ElementsFacts ==
    ASSUME NEW e, NEW f, NEW values, Collection(e, f, values), NEW ord \in MapOrders
    PROVE  \E m \in Nat :
              /\ DOMAIN Elements(f, values, ord) = 1..m
              /\ f.card = "list" => m = Len(values) /\ Elements(f, values, ord) = values
                                    /\ values \in Seq(Range(values))
              /\ f.card # "list" => DOMAIN SortedKeys(values, ord) = 1..m
              /\ \A n \in 1..m : /\ ElementAllowed(e, f, Elements(f, values, ord)[n])
                                 /\ f.card # "list" =>
                                      /\ SortedKeys(values, ord)[n] \in DOMAIN values
                                      /\ Elements(f, values, ord)[n]
                                            = values[SortedKeys(values, ord)[n]]
<1>1. CASE f.card = "list"
  <2>1. Elements(f, values, ord) = values /\ values \in Seq(Range(values))
    BY <1>1 DEF Elements, Collection
  <2>2. DOMAIN values = 1..Len(values) /\ Len(values) \in Nat
    BY <2>1
  <2> QED
    BY <1>1, <2>1, <2>2 DEF Collection
<1>2. CASE f.card # "list"
  <2> DEFINE keys == SortedKeys(values, ord)
             m    == Cardinality(DOMAIN values)
  <2>1. DOMAIN values \in KeySets
    BY <1>2 DEF Collection
  <2>2. keys \in [1..m -> DOMAIN values] /\ m \in Nat
    BY <2>1, SortedFacts
  <2>3. Elements(f, values, ord) = [n \in DOMAIN keys |-> values[keys[n]]]
    BY <1>2 DEF Elements
  <2> HIDE DEF keys, m
  <2>4. DOMAIN Elements(f, values, ord) = 1..m /\ DOMAIN keys = 1..m
    BY <2>2, <2>3
  <2>5. \A n \in 1..m : keys[n] \in DOMAIN values /\ Elements(f, values, ord)[n] = values[keys[n]]
    BY <2>2, <2>3
  <2>6. \A n \in 1..m : ElementAllowed(e, f, Elements(f, values, ord)[n])
    BY <2>5 DEF Collection
  <2> QED
    BY <1>2, <2>2, <2>4, <2>5, <2>6 DEF keys
<1> QED
  BY <1>1, <1>2

LEMMA ElementJSONsSound ==
    ASSUME NEW e, NEW f, NEW values, Collection(e, f, values), NEW ord \in MapOrders
    PROVE  \E m \in Nat :
              /\ DOMAIN ElementJSONs(e, f, values, ord) = 1..m
              /\ DOMAIN Elements(f, values, ord) = 1..m
              /\ \A n \in 1..m : Sound(ElementJSONs(e, f, values, ord)[n])
<1> DEFINE elements == Elements(f, values, ord)
<1>1. PICK m \in Nat : DOMAIN elements = 1..m /\ \A n \in 1..m : ElementAllowed(e, f, elements[n])
  BY ElementsFacts
<1>2. ElementJSONs(e, f, values, ord) = [n \in DOMAIN elements |-> ElementJSON(e, f, elements[n], ord)]
  BY Zenon DEF ElementJSONs
<1> HIDE DEF elements
<1>3. \A n \in 1..m : Sound(ElementJSON(e, f, elements[n], ord))
  BY <1>1, ElementSound
<1> QED
  BY <1>1, <1>2, <1>3 DEF elements

LEMMA CollectionSound ==
    ASSUME NEW e, NEW f, NEW values, Collection(e, f, values), NEW ord \in MapOrders
    PROVE  /\ Sound(CollectionJSON(e, f, values, ord))
           /\ Sound(Array(ElementJSONs(e, f, values, ord)))
<1> DEFINE jsons == ElementJSONs(e, f, values, ord)
<1>1. PICK m \in Nat : DOMAIN jsons = 1..m /\ \A n \in 1..m : Sound(jsons[n])
  BY ElementJSONsSound
<1>2. DOMAIN jsons \in SUBSET Nat
  BY <1>1
<1> HIDE DEF jsons
<1>3. \A keys : Sound(Object(keys, jsons))
  BY <1>1, <1>2, ObjectSound
<1>4. Sound(Array(jsons))
  BY <1>1, <1>2, ArraySound
<1>5. Sound(KeepJSON(e, f, values, ord))
  BY <1>3, <1>4 DEF KeepJSON, jsons
<1>6. Sound(JoinJSON(e, f, values, ord))
  BY ShapesSound DEF JoinJSON
<1> QED
  BY <1>4, <1>5, <1>6, ShapesSound DEF CollectionJSON, jsons

LEMMA HeldCollection ==
    ASSUME Consistent(held), NEW path, LegalPath(held, path), path # <<>>, NEW e,
           IsCollection(LeafOf(path)),
           e.pick # "none" =>
              \A v \in Range(Get(held, path)) : Allowed(e.pick, Picked(v, e.pick))
    PROVE  Collection(e, LeafOf(path), Get(held, path))
<1> DEFINE f == LeafOf(path)
           v == Get(held, path)
<1>1. /\ \A n \in DOMAIN v : Allowed(f.type, v[n])
      /\ f.card = "list" => v \in Seq(Range(v))
      /\ f.card = "map" => DOMAIN v \in KeySets
      /\ f.card \in {"list", "map"}
  BY HeldAllowed
<1>2. \A n \in DOMAIN v : v[n] \in Range(v)
  BY DEF Range
<1>3. \A n \in DOMAIN v : ElementAllowed(e, f, v[n])
  BY <1>1, <1>2 DEF ElementAllowed
<1>4. \/ f.card = "list" /\ v \in Seq(Range(v))
      \/ f.card = "map" /\ DOMAIN v \in KeySets
  BY <1>1
<1> HIDE DEF f, v
<1>5. Collection(e, f, v)
  BY <1>3, <1>4 DEF Collection
<1> QED
  BY <1>5 DEF f, v

-----------------------------------------------------------------------------
(* Offers are sound, unless one stands for what cannot be spread.          *)
SoundOffers(offers) == /\ offers \in Seq(Range(offers))
                       /\ \A n \in DOMAIN offers : Sound(offers[n][2])

LEMMA PairSound ==
    ASSUME NEW e, NEW json, Sound(json)
    PROVE  SoundOffers(Pair(e, json))
<1>1. Pair(e, json) \in Seq({<<e.key, json>>})
  BY DEF Pair
<1>2. Pair(e, json) \in Seq(Range(Pair(e, json)))
  BY <1>1, SeqOfRange
<1>3. \A n \in DOMAIN Pair(e, json) : Pair(e, json)[n][2] = json
  BY DEF Pair
<1> QED
  BY <1>2, <1>3 DEF SoundOffers

LEMMA NoneSound == SoundOffers(<<>>)
BY DEF SoundOffers

LEMMA PickOffersSound ==
    ASSUME NEW e, NEW f, NEW values, Collection(e, f, values), NEW ord \in MapOrders
    PROVE  SoundOffers(PickOffers(e, f, values, ord))
<1> DEFINE jsons == ElementJSONs(e, f, values, ord)
<1>1. PICK m \in Nat : /\ DOMAIN jsons = 1..m /\ DOMAIN Elements(f, values, ord) = 1..m
                       /\ \A n \in 1..m : Sound(jsons[n])
  BY ElementJSONsSound
<1>2. CASE DOMAIN values = {}
  BY <1>2, NoneSound DEF PickOffers
<1>3. CASE DOMAIN values # {}
  <2>1. m # 0
    <3>1. CASE f.card = "list"
      <4>1. Elements(f, values, ord) = values
        BY <3>1 DEF Elements
      <4> QED
        BY <1>1, <1>3, <4>1
    <3>2. CASE f.card # "list"
      <4>1. DOMAIN values \in KeySets
        BY <3>2 DEF Collection
      <4>2. Range(SortedKeys(values, ord)) = DOMAIN values
        BY <4>1, SortedFacts
      <4>3. PICK k \in DOMAIN SortedKeys(values, ord) : TRUE
        BY <1>3, <4>2 DEF Range
      <4>4. DOMAIN Elements(f, values, ord) = DOMAIN SortedKeys(values, ord)
        BY <3>2 DEF Elements
      <4> QED
        BY <1>1, <4>3, <4>4
    <3> QED
      BY <3>1, <3>2
  <2>2. jsons = [n \in 1..m |-> jsons[n]]
    BY <1>1 DEF ElementJSONs
  <2> HIDE DEF jsons
  <2>3. Len(jsons) = m
    BY <1>1, <2>2
  <2>4. Sound(jsons[Len(jsons)]) /\ Sound(jsons[1])
    BY <1>1, <2>1, <2>3
  <2>5. PickOffers(e, f, values, ord) = Pair(e, jsons[IF e.sc.cardinality = "LAST" THEN Len(jsons) ELSE 1])
    BY <1>3 DEF PickOffers, jsons
  <2> QED
    BY <2>4, <2>5, PairSound
<1> QED
  BY <1>2, <1>3

(* Spreading an element: sound pairs, or the failure of one that is nil.   *)
LEMMA SpreadSound ==
    ASSUME NEW v, Allowed("message", v), NEW stem
    PROVE  LET offers == SpreadOffers(v, stem)
           IN  /\ offers \in Seq(Range(offers))
               /\ v # Nil => SoundOffers(offers)
               /\ \A n \in DOMAIN offers : WellMade(offers[n][2])
<1>1. CASE v = Nil
  <2> DEFINE one == <<stem, NotAnObject>>
  <2>1. SpreadOffers(v, stem) = <<one>>
    BY <1>1 DEF SpreadOffers, NotAnObject
  <2>2. one[2] = NotAnObject
    BY PairSecond
  <2> HIDE DEF one
  <2>3. NotAnObject[1] = "failed"
    BY DEF NotAnObject, Failed
  <2>4. Parts(NotAnObject) = {}
    BY <2>3 DEF Parts
  <2>5. WellMade(NotAnObject)
    BY <2>4 DEF WellMade
  <2>6. <<one>> \in Seq({one}) /\ Range(<<one>>) = {one}
    BY DEF Range
  <2> QED
    BY <1>1, <2>1, <2>2, <2>5, <2>6
<1>2. CASE v # Nil /\ v[2].fails
  <2> DEFINE one == <<stem, Failed("nested")>>
  <2>1. SpreadOffers(v, stem) = <<one>>
    BY <1>2 DEF SpreadOffers
  <2>2. one[2] = Failed("nested")
    BY PairSecond
  <2> HIDE DEF one
  <2>3. Sound(Failed("nested"))
    <3>1. NestedJSON(v) = Failed("nested")
      BY <1>2 DEF NestedJSON
    <3> QED
      BY <3>1, NestedSound
  <2>4. <<one>> \in Seq({one}) /\ Range(<<one>>) = {one}
    BY DEF Range
  <2> QED
    BY <2>1, <2>2, <2>3, <2>4, SeqOfRange DEF SoundOffers, Sound
<1>3. CASE v # Nil /\ ~v[2].fails
  <2> DEFINE pairs  == v[2].pairs
             offers == [n \in DOMAIN pairs |-> <<SpreadKey(stem, pairs[n][1]), pairs[n][2]>>]
  <2>1. SpreadOffers(v, stem) = offers
    BY <1>3 DEF SpreadOffers
  <2>2. ArePairs(pairs)
    BY <1>3 DEF Allowed, Scalars
  <2>3. pairs \in Seq(Range(pairs)) /\ \A n \in DOMAIN pairs : Sound(pairs[n][2])
    BY <2>2, PairsSound
  <2> HIDE DEF pairs
  <2>4. DOMAIN offers = 1..Len(pairs) /\ Len(pairs) \in Nat
    BY <2>3
  <2>5. \A n \in DOMAIN offers : offers[n][2] = pairs[n][2]
    BY PairSecond
  <2>6. offers = [n \in 1..Len(pairs) |-> offers[n]]
    BY <2>4
  <2> HIDE DEF offers
  <2>7. offers \in Seq(Range(offers))
    <3>1. \A n \in 1..Len(pairs) : offers[n] \in Range(offers)
      BY <2>4 DEF Range
    <3> QED
      BY <2>4, <2>6, <3>1
  <2>8. SoundOffers(offers)
    BY <2>3, <2>4, <2>5, <2>7 DEF SoundOffers
  <2> QED
    BY <2>1, <2>7, <2>8 DEF SoundOffers, Sound
<1> QED
  BY <1>1, <1>2, <1>3

-----------------------------------------------------------------------------
(* The way down a path                                                     *)

DownStep(v, path, way, n) == IF n = 0 THEN v ELSE Member(way[n - 1], path[n])

LEMMA DownSteps ==
    ASSUME NEW v, NEW path, Len(path) \in Nat
    PROVE  \A n \in 0..Len(path) : Down(v, path)[n] = DownStep(v, path, Down(v, path), n)
<1> DEFINE N == Len(path)
           Solves(way) == way = [n \in 0..N |-> DownStep(v, path, way, n)]
           Known(k) == \E way : \A n \in 0..N : n <= k => way[n] = DownStep(v, path, way, n)
           Bad == {k \in Nat : ~Known(k)}
<1>1. Down(v, path) = CHOOSE way : Solves(way)
  BY Zenon DEF Down, DownStep
<1>2. Bad = {}
  <2> SUFFICES ASSUME Bad # {} PROVE FALSE
    OBVIOUS
  <2>1. Min(Bad) \in Bad /\ \A k \in Bad : Min(Bad) <= k
    BY MinMember
  <2> DEFINE k == Min(Bad)
  <2>2. k \in Nat /\ ~Known(k)
    BY <2>1
  <2>3. k # 0
    <3>1. Known(0)
      <4> DEFINE way == [n \in 0..N |-> v]
      <4>1. \A n \in 0..N : n <= 0 => way[n] = DownStep(v, path, way, n)
        BY DEF DownStep
      <4> QED
        BY <4>1
    <3> QED
      BY <2>2, <3>1
  <2>4. Known(k - 1)
    <3>1. k - 1 \in Nat /\ ~(k <= k - 1)
      BY <2>2, <2>3
    <3>2. k - 1 \notin Bad
      BY <2>1, <3>1
    <3> QED
      BY <3>1, <3>2
  <2>5. PICK old : \A n \in 0..N : n <= k - 1 => old[n] = DownStep(v, path, old, n)
    BY <2>4
  <2> DEFINE new == [n \in 0..N |-> DownStep(v, path, old, n)]
  <2>6. ASSUME NEW n \in 0..N, n <= k PROVE new[n] = DownStep(v, path, new, n)
    <3>1. CASE n = 0
      BY <3>1 DEF DownStep
    <3>2. CASE n # 0
      <4>1. n - 1 \in 0..N /\ n - 1 <= k - 1
        BY <2>2, <2>6, <3>2
      <4>2. new[n - 1] = old[n - 1]
        BY <2>5, <4>1
      <4>3. new[n] = DownStep(v, path, old, n)
        OBVIOUS
      <4> HIDE DEF new
      <4> QED
        BY <3>2, <4>2, <4>3 DEF DownStep
    <3> QED
      BY <3>1, <3>2
  <2>7. Known(k)
    <3> HIDE DEF new
    <3> QED
      BY <2>6
  <2> QED
    BY <2>2, <2>7
<1>3. Known(N)
  BY <1>2
<1>4. PICK way : \A n \in 0..N : n <= N => way[n] = DownStep(v, path, way, n)
  BY <1>3
<1> DEFINE found == [n \in 0..N |-> way[n]]
<1>5. ASSUME NEW n \in 0..N PROVE DownStep(v, path, found, n) = way[n]
  <2>1. way[n] = DownStep(v, path, way, n)
    BY <1>4
  <2>2. n # 0 => found[n - 1] = way[n - 1]
    OBVIOUS
  <2> HIDE DEF found
  <2> QED
    BY <2>1, <2>2 DEF DownStep
<1>6. Solves(found)
  <2> DEFINE F == [n \in 0..N |-> DownStep(v, path, found, n)]
  <2>1. F = [n \in 0..N |-> way[n]]
    BY <1>5
  <2> QED
    BY <2>1
<1>7. Solves(Down(v, path))
  <2> HIDE DEF Solves
  <2> QED
    BY <1>1, <1>6, Zenon
<1> QED
  <2> DEFINE T == Down(v, path)
  <2>1. T = [n \in 0..N |-> DownStep(v, path, T, n)]
    BY <1>7
  <2> HIDE DEF T
  <2> SUFFICES \A n \in 0..N : T[n] = DownStep(v, path, T, n)
    BY DEF T
  <2>2. ASSUME NEW n \in 0..N PROVE T[n] = DownStep(v, path, T, n)
    <3> DEFINE B(i) == DownStep(v, path, T, i)
    <3>1. T = [i \in 0..N |-> B(i)]
      BY <2>1
    <3> HIDE DEF B
    <3>2. T[n] = B(n)
      BY <3>1
    <3> QED
      BY <3>2 DEF B
  <2> QED
    BY <2>2

(* The members of a Value are Values.                                      *)
LEMMA MemberIsValue ==
    ASSUME NEW v \in PbValues \cup {Nil}, NEW part
    PROVE  /\ Member(v, part) \in PbValues \cup {Nil}
           /\ v \in PbValues /\ v[1] = "struct" /\ part \in DOMAIN v[2] =>
                 Member(v, part) = v[2][part] /\ v[2][part] \in PbValues
<1>1. CASE v[1] = "struct" /\ part \in DOMAIN v[2]
  <2>1. Nil[1] = "nil"
    BY DEF Nil
  <2>2. v \in PbValues
    BY <1>1, <2>1
  <2>3. PICK n \in DOMAIN PbLevels : v \in PbLevels[n]
    BY <2>2 DEF PbValues, Range
  <2>4. PICK k \in 1..n - 1 : v[2][part] \in PbLevels[k]
    BY <1>1, <2>3, PbParts
  <2>5. k \in DOMAIN PbLevels
    <3>1. PbLevels \in Seq(Range(PbLevels))
      BY PbAssumption
    <3>2. DOMAIN PbLevels = 1..Len(PbLevels) /\ Len(PbLevels) \in Nat
      BY <3>1
    <3> QED
      BY <2>3, <2>4, <3>2
  <2>6. v[2][part] \in PbValues
    BY <2>4, <2>5 DEF PbValues, Range
  <2> QED
    BY <1>1, <2>6 DEF Member
<1>2. CASE ~(v[1] = "struct" /\ part \in DOMAIN v[2])
  <2>1. Member(v, part) = Nil
    BY <1>2 DEF Member
  <2> QED
    BY <1>2, <2>1
<1> QED
  BY <1>1, <1>2

LEMMA DownIsValue ==
    ASSUME NEW v \in PbValues, NEW path, Len(path) \in Nat
    PROVE  \A n \in 0..Len(path) : Down(v, path)[n] \in PbValues \cup {Nil}
<1> DEFINE N   == Len(path)
           T   == Down(v, path)
           Bad == {n \in 0..N : T[n] \notin PbValues \cup {Nil}}
<1>1. \A n \in 0..N : T[n] = DownStep(v, path, T, n)
  BY DownSteps
<1> HIDE DEF T, N
<1>2. Bad = {}
  <2> SUFFICES ASSUME Bad # {} PROVE FALSE
    OBVIOUS
  <2>1. Bad \in SUBSET Nat
    BY DEF N
  <2> DEFINE n == Min(Bad)
  <2>2. n \in Bad /\ \A i \in Bad : n <= i
    <3> HIDE DEF Bad
    <3> QED
      BY <2>1, MinMember
  <2> HIDE DEF n
  <2>3. n \in 0..N /\ N \in Nat
    BY <2>2 DEF N
  <2>4. n # 0
    <3>1. CASE n = 0
      BY <1>1, <2>2, <3>1 DEF DownStep
    <3> QED
      BY <3>1
  <2>5. n - 1 \in 0..N /\ ~(n <= n - 1)
    BY <2>3, <2>4
  <2>6. T[n - 1] \in PbValues \cup {Nil}
    <3>1. n - 1 \notin Bad
      BY <2>2, <2>5
    <3> QED
      BY <2>5, <3>1
  <2>7. T[n] = Member(T[n - 1], path[n])
    BY <1>1, <2>3, <2>4 DEF DownStep
  <2>8. T[n] \in PbValues \cup {Nil}
    BY <2>6, <2>7, MemberIsValue
  <2> QED
    BY <2>2, <2>8
<1> QED
  BY <1>2 DEF T, N

(* A pick finds a Value or nothing.                                        *)
LEMMA PickedIsValue ==
    ASSUME NEW struct, Allowed("Struct", struct), NEW path, Len(path) \in Nat
    PROVE  PickStruct(struct, path) \in PbValues \cup {Nil}
<1>1. CASE struct = Nil
  BY <1>1 DEF PickStruct
<1>2. CASE struct # Nil
  <2>1. struct[2] \in PbValues
    BY <1>2 DEF Allowed, Scalars
  <2> QED
    BY <1>2, <2>1, DownIsValue DEF PickStruct
<1> QED
  BY <1>1, <1>2

-----------------------------------------------------------------------------
(* An offer of a nil element to spread is the only one that is no object.  *)
Caused(e, offers) ==
    /\ offers \in Seq(Range(offers))
    /\ \A n \in DOMAIN offers :
          /\ WellMade(offers[n][2])
          /\ offers[n][2] = NotAnObject => Spreads(e) /\ Nil \in Range(held[e.path][2])

LEMMA SoundCaused ==
    ASSUME NEW e, NEW offers, SoundOffers(offers)
    PROVE  Caused(e, offers)
BY DEF SoundOffers, Sound, Caused

SpreadsOf(seqs, values) ==
    \A n \in DOMAIN values : \E stem : seqs[n] = SpreadOffers(values[n], stem)

LEMMA SpreadCaused ==
    ASSUME Consistent(held), NEW e, LegalPath(held, e.path), e.path # <<>>, Spreads(e),
           LeafOf(e.path).card = "list", LeafOf(e.path).type = "message",
           NEW values, values = Get(held, e.path), NEW T, NEW seqs \in [DOMAIN values -> T],
           SpreadsOf(seqs, values)
    PROVE  Caused(e, FlattenSeq(seqs))
<1>1. /\ values \in Seq(Range(values))
      /\ \A n \in DOMAIN values : Allowed("message", values[n])
  BY HeldAllowed DEF IsCollection
<1>2. DOMAIN values = 1..Len(values) /\ Len(values) \in Nat
  BY <1>1
<1> DEFINE S == UNION {Range(seqs[n]) : n \in DOMAIN seqs}
<1>3. ASSUME NEW n \in DOMAIN values
      PROVE  /\ seqs[n] \in Seq(S)
             /\ \A k \in DOMAIN seqs[n] : WellMade(seqs[n][k][2])
             /\ values[n] # Nil => \A k \in DOMAIN seqs[n] : Sound(seqs[n][k][2])
  <2>1. PICK stem : seqs[n] = SpreadOffers(values[n], stem)
    BY DEF SpreadsOf
  <2>0. DOMAIN seqs = DOMAIN values
    OBVIOUS
  <2>2. /\ seqs[n] \in Seq(Range(seqs[n]))
        /\ values[n] # Nil => SoundOffers(seqs[n])
        /\ \A k \in DOMAIN seqs[n] : WellMade(seqs[n][k][2])
    BY <1>1, <2>1, SpreadSound
  <2>3. Range(seqs[n]) \subseteq S
    BY <2>0
  <2> HIDE DEF S
  <2>4. seqs[n] \in Seq(S)
    BY <2>2, <2>3, SeqMonotonic
  <2> QED
    BY <2>2, <2>4 DEF SoundOffers
<1> HIDE DEF S
<1>4. seqs \in Seq(Seq(S)) /\ DOMAIN seqs = DOMAIN values
  BY <1>2, <1>3
<1> DEFINE flat == FlattenSeq(seqs)
<1>0. flat = FlattenSeq(seqs)
  OBVIOUS
<1> HIDE DEF flat
<1>7. flat \in Seq(Range(flat))
  BY <1>0, <1>4, FlatFacts, SeqOfRange
<1>5. \A x \in DOMAIN flat : \E n \in DOMAIN seqs : \E k \in DOMAIN seqs[n] : flat[x] = seqs[n][k]
  BY <1>0, <1>4, FlatFacts
<1>6. ASSUME NEW x \in DOMAIN flat
      PROVE  /\ WellMade(flat[x][2])
             /\ flat[x][2] = NotAnObject => Nil \in Range(held[e.path][2])
  <2>1. PICK n \in DOMAIN seqs : \E k \in DOMAIN seqs[n] : flat[x] = seqs[n][k]
    BY <1>5
  <2>2. PICK k \in DOMAIN seqs[n] : flat[x] = seqs[n][k]
    BY <2>1
  <2>3. WellMade(flat[x][2])
    BY <1>3, <2>2
  <2>4. ASSUME flat[x][2] = NotAnObject PROVE Nil \in Range(held[e.path][2])
    <3>1. values[n] = Nil
      BY <1>3, <2>2, <2>4 DEF Sound
    <3>2. values # <<>>
      <4>1. n \in DOMAIN values
        BY <1>4
      <4> QED
        BY <4>1
    <3>3. held[e.path] # Unset
      BY <3>2 DEF Get, ZeroOfField, IsCollection
    <3>4. values = held[e.path][2]
      BY <3>3 DEF Get
    <3> QED
      BY <3>1, <3>4 DEF Range
  <2> QED
    BY <2>3, <2>4
<1> QED
  BY <1>6, <1>7 DEF Caused, flat

LEMMA IndexedCaused ==
    ASSUME Consistent(held), NEW e, LegalEntry(held, e), e.kind = "collection",
           NEW ord \in MapOrders, NEW f, f = LeafOf(e.path), NEW values, values = Get(held, e.path),
           e.sc.cardinality \in {"INDEXED", "EXPLODE"}
    PROVE  /\ e.sc.cardinality = "INDEXED" => Caused(e, IndexedOffers(e, f, values, ord))
           /\ e.sc.cardinality = "EXPLODE" => Caused(e, ExplodeOffers(e, f, values, ord))
<1>1. /\ LegalPath(held, e.path) /\ e.path # <<>> /\ IsCollection(f) /\ LegalCollection(held, e)
  BY DEF LegalEntry
<1>2. Collection(e, f, values)
  BY <1>1, HeldCollection DEF LegalCollection
<1>3. Spreads(e) <=> \/ e.sc.cardinality = "INDEXED"
                     \/ e.sc.cardinality = "EXPLODE" /\ f.type = "message"
  BY DEF Spreads
<1>4. ASSUME e.sc.cardinality = "INDEXED" PROVE Caused(e, IndexedOffers(e, f, values, ord))
  <2>1. CASE NumbersObjects(f)
    <3> DEFINE seqs == [n \in DOMAIN values |-> SpreadOffers(values[n], <<"nested", e.key, n - 1>>)]
    <3>1. IndexedOffers(e, f, values, ord) = FlattenSeq(seqs)
      BY <2>1 DEF IndexedOffers
    <3> DEFINE T == {seqs[n] : n \in DOMAIN values}
    <3>2. /\ seqs \in [DOMAIN values -> T]
          /\ SpreadsOf(seqs, values)
      BY DEF SpreadsOf
    <3> HIDE DEF seqs, T
    <3>3. Spreads(e) /\ LeafOf(e.path).card = "list" /\ LeafOf(e.path).type = "message"
      BY <1>3, <1>4, <2>1 DEF NumbersObjects
    <3>4. Caused(e, FlattenSeq(seqs))
      BY <1>1, <3>2, <3>3, SpreadCaused
    <3> QED
      BY <3>1, <3>4
  <2>2. CASE ~NumbersObjects(f)
    <3> DEFINE jsons  == ElementJSONs(e, f, values, ord)
               offers == [n \in DOMAIN jsons |-> << <<"indexed", e.key, n - 1>>, jsons[n]>>]
    <3>1. IndexedOffers(e, f, values, ord) = offers
      BY <2>2 DEF IndexedOffers
    <3>2. PICK m \in Nat : DOMAIN jsons = 1..m /\ \A n \in 1..m : Sound(jsons[n])
      BY <1>2, ElementJSONsSound
    <3> HIDE DEF jsons
    <3>3. \A n \in DOMAIN offers : offers[n][2] = jsons[n] /\ n \in 1..m
      BY <3>2, PairSecond
    <3>5. offers \in Seq({offers[n] : n \in 1..m})
      BY <3>2
    <3>4. SoundOffers(offers)
      <4> HIDE DEF offers
      <4> QED
        BY <3>2, <3>3, <3>5, SeqOfRange DEF SoundOffers
    <3> HIDE DEF offers
    <3> QED
      BY <3>1, <3>4, SoundCaused
  <2> QED
    BY <2>1, <2>2
<1>5. ASSUME e.sc.cardinality = "EXPLODE" PROVE Caused(e, ExplodeOffers(e, f, values, ord))
  <2>1. CASE f.type = "message"
    <3> DEFINE seqs == [n \in DOMAIN values |-> SpreadOffers(values[n], <<"own">>)]
    <3>1. ExplodeOffers(e, f, values, ord) = FlattenSeq(seqs)
      BY <2>1 DEF ExplodeOffers
    <3> DEFINE T == {seqs[n] : n \in DOMAIN values}
    <3>2. /\ seqs \in [DOMAIN values -> T]
          /\ SpreadsOf(seqs, values)
      BY DEF SpreadsOf
    <3> HIDE DEF seqs, T
    <3>3. Spreads(e) /\ LeafOf(e.path).card = "list" /\ LeafOf(e.path).type = "message"
      BY <1>1, <1>3, <1>5, <2>1 DEF LegalCollection
    <3>4. Caused(e, FlattenSeq(seqs))
      BY <1>1, <3>2, <3>3, SpreadCaused
    <3> QED
      BY <3>1, <3>4
  <2>2. CASE f.type # "message"
    <3>1. ExplodeOffers(e, f, values, ord) = PickOffers(e, f, values, ord)
      BY <2>2 DEF ExplodeOffers
    <3> QED
      BY <1>2, <3>1, PickOffersSound, SoundCaused
  <2> QED
    BY <2>1, <2>2
<1> QED
  BY <1>4, <1>5

LEMMA GuardedSound ==
    ASSUME NEW e, NEW values, NEW json, Sound(json)
    PROVE  SoundOffers(Guarded(e, values, json))
BY PairSound, NoneSound DEF Guarded

LEMMA CollectionCaused ==
    ASSUME Consistent(held), NEW e, LegalEntry(held, e), e.kind = "collection",
           NEW ord \in MapOrders
    PROVE  Caused(e, CollectionOffers(e, held, ord))
<1> DEFINE f      == LeafOf(e.path)
           values == Get(held, e.path)
           offers == CollectionOffers(e, held, ord)
<1>1. /\ LegalPath(held, e.path) /\ e.path # <<>> /\ IsCollection(f) /\ LegalCollection(held, e)
  BY DEF LegalEntry
<1>2. Collection(e, f, values)
  BY <1>1, HeldCollection DEF LegalCollection
<1>3. CASE e.sc.cardinality \in {"FIRST", "LAST"}
  <2>1. offers = PickOffers(e, f, values, ord)
    BY <1>3 DEF CollectionOffers
  <2> QED
    BY <1>2, <2>1, PickOffersSound, SoundCaused
<1>4. CASE e.sc.cardinality = "INLINE_KEYS"
  <2> DEFINE keys == SortedKeys(values, ord)
             json(n) == ElementJSON(e, f, values[keys[n]], ord)
             inline == [n \in DOMAIN keys |-> << <<"inline", e.key, KeyString(keys[n])>>, json(n)>>]
  <2>1. offers = inline
    BY <1>4 DEF CollectionOffers, InlineOffers
  <2>2. f.card = "map"
    BY <1>1, <1>4 DEF LegalCollection
  <2>6. keys \in [1..Cardinality(DOMAIN values) -> DOMAIN values] /\ Cardinality(DOMAIN values) \in Nat
    BY <1>2, <2>2, SortedFacts DEF Collection
  <2>3. \A n \in DOMAIN keys : keys[n] \in DOMAIN values
    BY <2>6
  <2> HIDE DEF keys
  <2>4. \A n \in DOMAIN keys : Sound(json(n))
    BY <1>2, <2>3, ElementSound DEF Collection
  <2> HIDE DEF json
  <2>7. inline \in Seq({inline[n] : n \in DOMAIN keys})
    BY <2>6
  <2>5. SoundOffers(inline)
    <3>1. DOMAIN inline = DOMAIN keys /\ \A n \in DOMAIN keys : inline[n][2] = json(n)
      BY PairSecond
    <3> HIDE DEF inline
    <3> QED
      BY <2>4, <2>7, <3>1, SeqOfRange DEF SoundOffers
  <2> QED
    BY <2>1, <2>5, SoundCaused
<1>5. CASE e.sc.cardinality \in {"INDEXED", "EXPLODE"}
  <2>1. /\ e.sc.cardinality = "INDEXED" => offers = IndexedOffers(e, f, values, ord)
        /\ e.sc.cardinality = "EXPLODE" => offers = ExplodeOffers(e, f, values, ord)
    BY DEF CollectionOffers
  <2> QED
    BY <1>5, <2>1, IndexedCaused
<1>6. CASE e.sc.cardinality = "KEYS"
  <2> DEFINE keys == KeyStrings(values, ord)
             json == Arr([n \in DOMAIN keys |-> Str(keys[n])])
  <2>1. offers = Guarded(e, values, json)
    BY <1>6 DEF CollectionOffers
  <2> HIDE DEF keys
  <2>2. Sound(json)
    <3> DEFINE jsons == [n \in DOMAIN keys |-> Str(keys[n])]
    <3>1. \A j \in Range(jsons) : ~IsFailed(j)
      BY ShapesSound DEF Range
    <3> HIDE DEF jsons
    <3>2. Arr(jsons)[1] = "array" /\ Parts(Arr(jsons)) = Range(jsons)
      BY DEF Parts, Arr
    <3>3. NotAnObject[1] = "failed"
      BY DEF NotAnObject, Failed
    <3>4. Arr(jsons) # NotAnObject
      BY <3>2, <3>3
    <3> QED
      BY <3>1, <3>2, <3>4 DEF Sound, WellMade, jsons
  <2> QED
    BY <2>1, <2>2, GuardedSound, SoundCaused
<1>7. CASE e.sc.cardinality = "VALUES"
  <2>1. offers = Guarded(e, values, Array(ElementJSONs(e, f, values, ord)))
    BY <1>7 DEF CollectionOffers
  <2> QED
    BY <1>2, <2>1, CollectionSound, GuardedSound, SoundCaused
<1>8. CASE e.sc.cardinality \notin {"FIRST", "LAST", "INLINE_KEYS", "INDEXED", "EXPLODE", "KEYS", "VALUES"}
  <2>1. offers = Guarded(e, values, CollectionJSON(e, f, values, ord))
    BY <1>8 DEF CollectionOffers
  <2> QED
    BY <1>2, <2>1, CollectionSound, GuardedSound, SoundCaused
<1> QED
  BY <1>3, <1>4, <1>5, <1>6, <1>7, <1>8

(* A merge writes one of its sources, a null or nothing.                   *)
LEMMA MergeChoice ==
    ASSUME NEW e, LegalSources(held, e), NEW ord
    PROVE  \E json : /\ MergeOffers(e, held, ord) \in {<<>>, Pair(e, json)}
                     /\ \/ json = Null
                        \/ \E path \in Range(e.sources) : json = SourceJSON(e, held, path, ord)
<1> DEFINE live == {n \in DOMAIN Tried(e) : Present(held, Tried(e)[n])}
<1>1. CASE live = {}
  BY <1>1 DEF MergeOffers
<1>2. CASE live # {}
  <2>1. e.sources \in Seq(Range(e.sources))
    BY DEF LegalSources
  <2>2. /\ DOMAIN Tried(e) \in SUBSET Nat
        /\ \A n \in DOMAIN Tried(e) : Tried(e)[n] \in Range(e.sources)
    <3>1. CASE e.conflict = "LAST_NON_EMPTY"
      <4>1. Tried(e) = Reverse(e.sources)
        BY <3>1 DEF Tried
      <4>2. DOMAIN e.sources = 1..Len(e.sources) /\ Len(e.sources) \in Nat
        BY <2>1
      <4>3. DOMAIN Reverse(e.sources) = 1..Len(e.sources)
        BY DEF Reverse
      <4>4. ASSUME NEW n \in 1..Len(e.sources) PROVE Reverse(e.sources)[n] \in Range(e.sources)
        <5>1. Reverse(e.sources)[n] = e.sources[(Len(e.sources) - n) + 1]
          BY DEF Reverse
        <5>2. (Len(e.sources) - n) + 1 \in DOMAIN e.sources
          BY <4>2
        <5> QED
          BY <5>1, <5>2 DEF Range
      <4> QED
        BY <4>1, <4>2, <4>3, <4>4
    <3>2. CASE e.conflict # "LAST_NON_EMPTY"
      <4>1. Tried(e) = e.sources
        BY <3>2 DEF Tried
      <4> QED
        BY <2>1, <4>1 DEF Range
    <3> QED
      BY <3>1, <3>2
  <2>3. Min(live) \in live
    <3>1. live \in SUBSET Nat
      BY <2>2
    <3> HIDE DEF live
    <3> QED
      BY <1>2, <3>1, MinMember
  <2>4. Tried(e)[Min(live)] \in Range(e.sources)
    BY <2>2, <2>3
  <2>5. MergeOffers(e, held, ord) = Pair(e, SourceJSON(e, held, Tried(e)[Min(live)], ord))
    BY <1>2 DEF MergeOffers
  <2> HIDE DEF live
  <2> WITNESS SourceJSON(e, held, Tried(e)[Min(live)], ord)
  <2> QED
    BY <2>4, <2>5
<1> QED
  BY <1>1, <1>2

LEMMA OffersCaused ==
    ASSUME Consistent(held), NEW e, LegalEntry(held, e), NEW ord \in MapOrders
    PROVE  Caused(e, Offers(e, held, ord))
<1> DEFINE v == Get(held, e.path)
           f == LeafOf(e.path)
<1>1. CASE e.kind = "constant"
  <2>1. ~IsFailed(e.const) /\ WellMade(e.const)
    BY <1>1 DEF LegalEntry
  <2>2. NotAnObject[1] = "failed"
    BY DEF NotAnObject, Failed
  <2>3. Sound(e.const)
    BY <2>1, <2>2 DEF Sound, IsFailed
  <2>4. Offers(e, held, ord) = Pair(e, e.const)
    BY <1>1 DEF Offers
  <2> QED
    BY <2>3, <2>4, PairSound, SoundCaused
<1>2. CASE e.kind \in {"scalar", "object", "structPick"}
  <2>1. /\ LegalPath(held, e.path) /\ e.path # <<>> /\ ~IsCollection(f)
        /\ e.kind = "object" => f.type = "message"
        /\ e.kind = "structPick" => f.type = "Struct" /\ e.structPath \in Seq({"text"} \X Int)
    BY <1>2 DEF LegalEntry
  <2>2. Allowed(f.type, v)
    BY <2>1, HeldAllowed
  <2>3. CASE e.kind = "scalar"
    <3>1. Sound(ValueJSON(f.type, v, e.sc, ord))
      BY <2>2, ValueSound
    <3>2. SoundOffers(ScalarOffers(e, held, ord))
      BY <3>1, PairSound, NoneSound DEF ScalarOffers
    <3> QED
      BY <2>3, <3>2, SoundCaused DEF Offers
  <2>4. CASE e.kind = "object"
    <3>1. Sound(NestedJSON(v))
      BY <2>1, <2>2, <2>4, NestedSound
    <3>2. SoundOffers(ObjectOffers(e, held, ord))
      BY <3>1, PairSound, NoneSound DEF ObjectOffers
    <3> QED
      BY <2>4, <3>2, SoundCaused DEF Offers
  <2>5. CASE e.kind = "structPick"
    <3>1. Allowed("Struct", v) /\ Len(e.structPath) \in Nat
      BY <2>1, <2>2, <2>5
    <3>2. PickStruct(v, e.structPath) \in PbValues \cup {Nil}
      BY <3>1, PickedIsValue
    <3>3. SoundOffers(StructPickOffers(e, held, ord))
      BY <3>2, PbSolid, PairSound, NoneSound DEF StructPickOffers, Solid
    <3> QED
      BY <2>5, <3>3, SoundCaused DEF Offers
  <2> QED
    BY <1>2, <2>3, <2>4, <2>5
<1>3. CASE e.kind = "collection"
  BY <1>3, CollectionCaused DEF Offers
<1>4. CASE e.kind = "discriminator"
  <2>1. SoundOffers(DiscriminatorOffers(e, held, ord))
    BY ShapesSound, PairSound, NoneSound DEF DiscriminatorOffers, UnsetOffers
  <2> QED
    BY <1>4, <2>1, SoundCaused DEF Offers
<1>5. CASE e.kind = "oneofValue"
  <2>1. CASE ActiveBranches(e, held) = {}
    <3>1. SoundOffers(OneofValueOffers(e, held, ord))
      BY <2>1, ShapesSound, PairSound, NoneSound DEF OneofValueOffers, UnsetOffers
    <3> QED
      BY <1>5, <3>1, SoundCaused DEF Offers
  <2>2. CASE ActiveBranches(e, held) # {}
    <3> DEFINE b    == Branch(e, held)
               path == Append(e.path, b)
               x    == Get(held, path)
    <3>1. b \in Range(e.branches)
      BY <2>2 DEF Branch, ActiveBranches
    <3>2. InOneof(Info[b]) /\ LegalPath(held, path) /\ e.path \in Seq(DOMAIN Info)
      BY <1>5, <3>1 DEF LegalEntry, LegalPath
    <3> HIDE DEF b
    <3>3. path # <<>> /\ LeafOf(path) = Info[b] /\ path[Len(path)] = b /\ Len(path) \in DOMAIN path
      BY <3>2 DEF LeafOf
    <3>4. ~IsCollection(LeafOf(path))
      BY <3>2, <3>3 DEF LegalPath
    <3> HIDE DEF path
    <3>5. Allowed(LeafOf(path).type, x)
      BY <3>2, <3>3, <3>4, HeldAllowed
    <3>6. Sound(JSONOf(LeafOf(path).type, x, e.sc, ord))
      BY <3>5, JSONOfSound
    <3>7. OneofValueOffers(e, held, ord) = Pair(e, JSONOf(LeafOf(path).type, x, e.sc, ord))
      BY <2>2 DEF OneofValueOffers, path, b
    <3> QED
      BY <1>5, <3>6, <3>7, PairSound, SoundCaused DEF Offers
  <2> QED
    BY <2>1, <2>2
<1>6. CASE e.kind = "merge"
  <2>1. LegalSources(held, e)
    BY <1>6 DEF LegalEntry
  <2>2. ASSUME NEW path \in Range(e.sources) PROVE Sound(SourceJSON(e, held, path, ord))
    <3>1. path # <<>> /\ LegalPath(held, path) /\ e.pick = "none"
      BY <2>1 DEF LegalSources
    <3>2. CASE IsCollection(LeafOf(path))
      <4>1. Collection(e, LeafOf(path), Get(held, path))
        BY <3>1, <3>2, HeldCollection
      <4> QED
        BY <3>2, <4>1, CollectionSound DEF SourceJSON
    <3>3. CASE ~IsCollection(LeafOf(path))
      <4>1. Allowed(LeafOf(path).type, Get(held, path))
        BY <3>1, <3>3, HeldAllowed
      <4> QED
        BY <3>3, <4>1, ValueSound DEF SourceJSON
    <3> QED
      BY <3>2, <3>3
  <2>3. PICK json : /\ MergeOffers(e, held, ord) \in {<<>>, Pair(e, json)}
                    /\ \/ json = Null
                       \/ \E path \in Range(e.sources) : json = SourceJSON(e, held, path, ord)
    BY <2>1, MergeChoice
  <2>4. Sound(json)
    BY <2>2, <2>3, ShapesSound
  <2>5. SoundOffers(MergeOffers(e, held, ord))
    BY <2>3, <2>4, PairSound, NoneSound
  <2> QED
    BY <1>6, <2>5, SoundCaused DEF Offers
<1> QED
  BY <1>1, <1>2, <1>3, <1>4, <1>5, <1>6 DEF LegalEntry

(* An error is a conflict of the entry that is next, or an offer of its.   *)
ErrInv ==
    \/ err = NoError
    \/ /\ at \in DOMAIN plan
       /\ plan[at].kind = "merge" /\ Conflicts(plan[at], held)
       /\ err = <<"conflict", plan[at].key, Live(plan[at], held)>>
    \/ /\ at \in DOMAIN plan /\ IsFailed(err)
       /\ \E n \in DOMAIN Offers(plan[at], held, order) :
             err = Offers(plan[at], held, order)[n][2]

LEMMA ErrStep == ActiveInv /\ ErrInv /\ [Next]_vars => ErrInv'
<1> SUFFICES ASSUME ActiveInv, ErrInv, [Next]_vars PROVE ErrInv'
  OBVIOUS
<1>1. CASE UNCHANGED vars
  BY <1>1 DEF vars, ErrInv
<1>2. CASE SkipInactive \/ Emit
  <2>1. err' = NoError
    BY <1>2 DEF SkipInactive, Emit, Emitting, Running
  <2> QED
    BY <2>1 DEF ErrInv
<1>3. CASE MergeFails
  BY <1>3 DEF MergeFails, Running, ErrInv
<1>4. CASE EmitFails
  <2> DEFINE offers == Offers(plan[at], held, order)
  <2>1. /\ Running /\ Failing(offers) # 0 /\ err' = offers[Failing(offers)][2]
        /\ UNCHANGED <<plan, held, order, at>>
    BY <1>4 DEF EmitFails, Emitting
  <2>2. LegalEntry(held, plan[at]) /\ at \in DOMAIN plan
    BY <2>1, LegalEntries DEF ActiveInv, Running
  <2>3. offers' = offers
    BY <2>1
  <2>4. Failing(offers) \in 1..Len(offers) /\ IsFailed(offers[Failing(offers)][2])
    <3> HIDE DEF offers
    <3> QED
      BY <2>1, FailingFails
  <2>5. Failing(offers) \in DOMAIN offers
    <3>1. offers \in Seq(Range(offers))
      BY <2>2, OffersCaused DEF ActiveInv, Caused
    <3> HIDE DEF offers
    <3> QED
      BY <2>4, <3>1
  <2> QED
    BY <2>1, <2>2, <2>4, <2>5 DEF ErrInv
<1> QED
  BY <1>1, <1>2, <1>3, <1>4 DEF Next

LEMMA ErrInit == Init => ErrInv
BY DEF Init, ErrInv

(* What an entry has offered is among what it offers, from the first on.   *)
LEMMA PartOf ==
    ASSUME NEW S, NEW offers \in Seq(S), NEW some, Part(offers, some)
    PROVE  /\ some \in Seq(S) /\ Len(some) <= Len(offers)
           /\ \A n \in DOMAIN some : n \in DOMAIN offers /\ some[n] = offers[n]
<1>0. Len(offers) \in Nat
  OBVIOUS
<1>1. CASE some = <<>>
  <2>1. some \in Seq(S) /\ Len(some) = 0 /\ DOMAIN some = {}
    BY <1>1
  <2> QED
    BY <1>0, <2>1
<1>3. CASE some = offers
  BY <1>0, <1>3
<1>2. CASE some \notin {<<>>, offers}
  <2>1. PICK n \in 1..Len(offers) : some = SubSeq(offers, 1, n - 1)
    BY <1>2 DEF Part
  <2>2. n - 1 \in 0..Len(offers) /\ Len(offers) \in Nat /\ DOMAIN offers = 1..Len(offers)
    BY <2>1
  <2>3. /\ some \in Seq(S) /\ Len(some) = n - 1 /\ DOMAIN some = 1..(n - 1)
        /\ \A k \in 1..(n - 1) : some[k] = offers[k]
    BY <2>1, <2>2
  <2> QED
    BY <2>2, <2>3
<1> QED
  BY <1>1, <1>2, <1>3

LEMMA WrittenPart ==
    ASSUME ActiveInv, PartsInv, NEW a \in DOMAIN out, out[a] # <<>>
    PROVE  /\ a \in DOMAIN plan /\ LegalEntry(held, plan[a]) /\ Writes(a) = out[a]
           /\ Caused(plan[a], Offers(plan[a], held, order))
           /\ Part(Offers(plan[a], held, order), out[a])
<1>1. a \in DOMAIN plan
  BY DEF ActiveInv
<1>2. LegalEntry(held, plan[a])
  BY <1>1, LegalEntries DEF ActiveInv
<1>3. Caused(plan[a], Offers(plan[a], held, order))
  BY <1>2, OffersCaused DEF ActiveInv
<1> QED
  BY <1>1, <1>2, <1>3 DEF PartsInv, Writes

LEMMA WrittenOffer ==
    ASSUME ActiveInv, PartsInv, NEW a \in DOMAIN out, NEW json \in Written(a)
    PROVE  /\ a \in DOMAIN plan
           /\ \E n \in DOMAIN Offers(plan[a], held, order) :
                 json = Offers(plan[a], held, order)[n][2]
<1> DEFINE offers == Offers(plan[a], held, order)
<1>1. out[a] # <<>>
  BY DEF Written, Writes, Range
<1>2. /\ a \in DOMAIN plan /\ Writes(a) = out[a]
      /\ Caused(plan[a], offers) /\ Part(offers, out[a])
  BY <1>1, WrittenPart
<1>3. PICK n \in DOMAIN out[a] : json = out[a][n][2]
  BY <1>2 DEF Written, Range
<1>4. offers \in Seq(Range(offers))
  BY <1>2 DEF Caused
<1> HIDE DEF offers
<1>5. n \in DOMAIN offers /\ out[a][n] = offers[n]
  BY <1>2, <1>3, <1>4, PartOf
<1> QED
  BY <1>2, <1>3, <1>5 DEF offers

LEMMA PartsInit == Init => PartsInv
<1>1. Init => DOMAIN out = {}
  BY DEF Init
<1> QED
  BY <1>1 DEF PartsInv

(* An encode fails only for a reason in the message, a conflict names the  *)
(* live sources in the order of the rule, and a value that failed is never *)
(* part of one that is written (MergeConflictError, spread, writer.array,  *)
(* writer.object).                                                         *)
THEOREM FailuresHaveCause == Spec => []FailureHasCause
<1>1. ActiveInv /\ PartsInv /\ ErrInv => FailureHasCause
  <2> SUFFICES ASSUME ActiveInv, PartsInv, ErrInv PROVE FailureHasCause
    OBVIOUS
  <2>1. ASSUME NEW a \in DOMAIN out, NEW json \in Written(a) PROVE WellMade(json)
    <3> DEFINE offers == Offers(plan[a], held, order)
    <3>1. PICK n \in DOMAIN offers : json = offers[n][2]
      BY WrittenOffer
    <3>2. LegalEntry(held, plan[a])
      BY WrittenOffer, LegalEntries DEF ActiveInv
    <3>3. Caused(plan[a], offers)
      BY <3>2, OffersCaused DEF ActiveInv
    <3> HIDE DEF offers
    <3> QED
      BY <3>1, <3>3 DEF Caused
  <2>2. ASSUME err[1] = "conflict"
        PROVE  Len(err[3]) > 1 /\ Lists(err[3], plan[at].sources, Holding(plan[at]))
    <3>1. /\ at \in DOMAIN plan /\ plan[at].kind = "merge" /\ Conflicts(plan[at], held)
          /\ err = <<"conflict", plan[at].key, Live(plan[at], held)>>
      BY <2>2 DEF ErrInv, NoError, IsFailed
    <3>2. err[3] = Live(plan[at], held)
      BY <3>1
    <3>3. LegalSources(held, plan[at])
      BY <3>1, LegalEntries DEF ActiveInv, LegalEntry
    <3>4. Lists(Live(plan[at], held), plan[at].sources, Holding(plan[at]))
      BY <3>3, HoldingIsLive DEF ActiveInv
    <3> QED
      BY <3>1, <3>2, <3>4 DEF Conflicts
  <2>3. ASSUME err = Failed("not an object")
        PROVE  Spreads(plan[at]) /\ Nil \in Range(held[plan[at].path][2])
    <3>1. err[1] = "failed"
      BY <2>3 DEF Failed
    <3> DEFINE offers == Offers(plan[at], held, order)
    <3>2. at \in DOMAIN plan /\ \E n \in DOMAIN offers : err = offers[n][2]
      <4>1. NoError[1] = "none"
        BY DEF NoError
      <4> QED
        BY <3>1, <4>1 DEF ErrInv
    <3>3. LegalEntry(held, plan[at])
      BY <3>2, LegalEntries DEF ActiveInv
    <3>4. Caused(plan[at], offers)
      BY <3>3, OffersCaused DEF ActiveInv
    <3> HIDE DEF offers
    <3> QED
      BY <2>3, <3>2, <3>4 DEF Caused, NotAnObject
  <2> QED
    BY <2>1, <2>2, <2>3 DEF FailureHasCause
<1> QED
  BY <1>1, InitActive, StepActive, PartsInit, PartsStep, ErrInit, ErrStep, PTL DEF Spec

-----------------------------------------------------------------------------
(* How many pairs an entry offers, and under which keys                    *)

Single(e, offers) == /\ Len(offers) \in {0, 1}
                     /\ \A n \in DOMAIN offers : offers[n][1] = e.key

KeysOnce(pairs) == \A x, y \in DOMAIN pairs : x # y => pairs[x][1] # pairs[y][1]

LEMMA PairSingle ==
    ASSUME NEW e, NEW offers, NEW json, offers \in {<<>>, Pair(e, json)}
    PROVE  Single(e, offers)
<1>1. CASE offers = <<>>
  BY <1>1 DEF Single
<1>2. CASE offers = Pair(e, json)
  <2>1. Len(offers) = 1 /\ DOMAIN offers = 1..1 /\ offers[1] = <<e.key, json>>
    BY <1>2 DEF Pair
  <2> HIDE <1>2
  <2>2. offers[1][1] = e.key
    BY <2>1
  <2> QED
    BY <2>1, <2>2 DEF Single
<1> QED
  BY <1>1, <1>2

LEMMA PickSingle ==
    ASSUME NEW e, NEW f, NEW values, NEW ord
    PROVE  Single(e, PickOffers(e, f, values, ord))
BY PairSingle DEF PickOffers

LEMMA GuardedSingle ==
    ASSUME NEW e, NEW values, NEW json
    PROVE  Single(e, Guarded(e, values, json))
BY PairSingle DEF Guarded

LEMMA InlineFits ==
    ASSUME NEW e, NEW f, NEW values, DOMAIN values \in KeySets, NEW ord \in MapOrders,
           NEW offers, offers = InlineOffers(e, f, values, ord)
    PROVE  KeysOnce(offers) /\ Len(offers) = Cardinality(DOMAIN values)
<1> DEFINE keys == SortedKeys(values, ord)
           m    == Cardinality(DOMAIN values)
<1>1. /\ keys \in [1..m -> DOMAIN values] /\ m \in Nat
      /\ \A x, y \in 1..m : keys[x] = keys[y] => x = y
  BY SortedFacts DEF IsInjective
<1>2. OneKind(DOMAIN values)
  BY KeySetsAssumption
<1>3. offers = [n \in DOMAIN keys |-> << <<"inline", e.key, KeyString(keys[n])>>,
                                         ElementJSON(e, f, values[keys[n]], ord)>>]
  BY DEF InlineOffers
<1> HIDE DEF keys, m
<1>4. DOMAIN offers = 1..m /\ Len(offers) = m
  BY <1>1, <1>3
<1>5. \A n \in 1..m : offers[n][1] = <<"inline", e.key, KeyString(keys[n])>>
  BY <1>1, <1>3
<1>6. \A n \in 1..m : offers[n][1][3] = KeyString(keys[n])
  BY <1>5
<1>7. \A x, y \in 1..m : KeyString(keys[x]) = KeyString(keys[y]) => keys[x] = keys[y]
  BY <1>1, <1>2, KeyOrder
<1>8. \A x, y \in DOMAIN offers : x # y => offers[x][1] # offers[y][1]
  BY <1>1, <1>4, <1>6, <1>7
<1> QED
  BY <1>4, <1>8 DEF KeysOnce, m

LEMMA IndexedFits ==
    ASSUME NEW e, NEW f, NEW values, Collection(e, f, values), NEW ord \in MapOrders,
           ~NumbersObjects(f), NEW offers, offers = IndexedOffers(e, f, values, ord)
    PROVE  KeysOnce(offers) /\ Len(offers) = Cardinality(DOMAIN values)
<1> DEFINE jsons == ElementJSONs(e, f, values, ord)
<1>1. offers = [n \in DOMAIN jsons |-> << <<"indexed", e.key, n - 1>>, jsons[n]>>]
  BY DEF IndexedOffers
<1>2. PICK m \in Nat :
            /\ DOMAIN Elements(f, values, ord) = 1..m
            /\ f.card = "list" => m = Len(values) /\ values \in Seq(Range(values))
            /\ f.card # "list" => DOMAIN SortedKeys(values, ord) = 1..m
  BY ElementsFacts
<1>3. DOMAIN jsons = 1..m
  BY <1>2 DEF ElementJSONs
<1> HIDE DEF jsons
<1>4. DOMAIN offers = 1..m /\ Len(offers) = m
  BY <1>1, <1>2, <1>3
<1>5. \A n \in 1..m : offers[n][1] = <<"indexed", e.key, n - 1>>
  BY <1>1, <1>3
<1>6. \A n \in 1..m : offers[n][1][3] = n - 1
  BY <1>5
<1>7. KeysOnce(offers)
  BY <1>4, <1>6 DEF KeysOnce
<1>8. m = Cardinality(DOMAIN values)
  <2>1. CASE f.card = "list"
    <3>1. DOMAIN values = 1..m
      BY <1>2, <2>1
    <3> QED
      BY <1>2, <3>1, FS_Interval
  <2>2. CASE f.card # "list"
    <3>1. DOMAIN values \in KeySets
      BY <2>2 DEF Collection
    <3> DEFINE keys == SortedKeys(values, ord)
               c    == Cardinality(DOMAIN values)
    <3>2. keys \in [1..c -> DOMAIN values] /\ c \in Nat
      BY <3>1, SortedFacts
    <3>3. DOMAIN keys = 1..m
      BY <1>2, <2>2
    <3> HIDE DEF keys, c
    <3>4. 1..c = 1..m
      BY <3>2, <3>3
    <3>5. c = m
      BY <1>2, <3>2, <3>4
    <3> QED
      BY <3>5 DEF c
  <2> QED
    BY <2>1, <2>2
<1> QED
  BY <1>4, <1>7, <1>8

LEMMA CollectionFits ==
    ASSUME Consistent(held), NEW e, LegalEntry(held, e), e.kind = "collection",
           NEW ord \in MapOrders, NEW offers, offers = CollectionOffers(e, held, ord)
    PROVE  /\ ~Spreads(e) => Single(e, offers)
           /\ KeyPerElement(e) =>
                 KeysOnce(offers) /\ Len(offers) = Cardinality(DOMAIN Get(held, e.path))
<1> DEFINE f      == LeafOf(e.path)
           values == Get(held, e.path)
<1>1. /\ LegalPath(held, e.path) /\ e.path # <<>> /\ IsCollection(f) /\ LegalCollection(held, e)
  BY DEF LegalEntry
<1>2. Collection(e, f, values)
  BY <1>1, HeldCollection DEF LegalCollection
<1>4. /\ Spreads(e) <=> \/ e.sc.cardinality \in {"INLINE_KEYS", "INDEXED"}
                        \/ e.sc.cardinality = "EXPLODE" /\ f.type = "message"
      /\ KeyPerElement(e) <=> \/ e.sc.cardinality = "INLINE_KEYS"
                              \/ e.sc.cardinality = "INDEXED" /\ ~NumbersObjects(f)
  BY DEF Spreads, KeyPerElement
<1>5. CASE e.sc.cardinality \in {"FIRST", "LAST"}
  <2>1. offers = PickOffers(e, f, values, ord)
    BY <1>5 DEF CollectionOffers
  <2> HIDE DEF f, values
  <2> QED
    BY <1>4, <1>5, <2>1, PickSingle DEF f
<1>6. CASE e.sc.cardinality = "INLINE_KEYS"
  <2>1. offers = InlineOffers(e, f, values, ord)
    BY <1>6 DEF CollectionOffers
  <2>2. DOMAIN values \in KeySets
    BY <1>1, <1>2, <1>6 DEF LegalCollection, Collection
  <2> HIDE DEF f, values
  <2> QED
    BY <1>4, <1>6, <2>1, <2>2, InlineFits DEF values
<1>7. CASE e.sc.cardinality = "INDEXED"
  <2>1. offers = IndexedOffers(e, f, values, ord)
    BY <1>7 DEF CollectionOffers
  <2> HIDE DEF f, values
  <2>2. ~NumbersObjects(f) => KeysOnce(offers) /\ Len(offers) = Cardinality(DOMAIN values)
    BY <1>2, <2>1, IndexedFits
  <2> QED
    BY <1>4, <1>7, <2>2 DEF f, values
<1>8. CASE e.sc.cardinality = "EXPLODE"
  <2>1. offers = ExplodeOffers(e, f, values, ord)
    BY <1>8 DEF CollectionOffers
  <2> HIDE DEF f, values
  <2>2. f.type # "message" => Single(e, offers)
    BY <2>1, PickSingle DEF ExplodeOffers
  <2> QED
    BY <1>4, <1>8, <2>2 DEF f
<1>9. CASE e.sc.cardinality \notin {"FIRST", "LAST", "INLINE_KEYS", "INDEXED", "EXPLODE"}
  <2>1. \E json : offers = Guarded(e, values, json)
    <3>1. CASE e.sc.cardinality = "KEYS"
      BY <3>1 DEF CollectionOffers
    <3>2. CASE e.sc.cardinality = "VALUES"
      BY <3>2 DEF CollectionOffers
    <3>3. CASE e.sc.cardinality \notin {"KEYS", "VALUES"}
      BY <1>9, <3>3 DEF CollectionOffers
    <3> QED
      BY <3>1, <3>2, <3>3
  <2>2. Single(e, offers)
    BY <2>1, GuardedSingle
  <2> QED
    BY <1>4, <1>9, <2>2
<1> QED
  BY <1>5, <1>6, <1>7, <1>8, <1>9

(* What one entry offers, and where: as many pairs as its kind says.       *)
LEMMA OffersFit ==
    ASSUME Consistent(held), NEW e, LegalEntry(held, e),
           NEW ord \in MapOrders, NEW offers, offers = Offers(e, held, ord)
    PROVE  /\ ~Spreads(e) => Single(e, offers)
           /\ KeyPerElement(e) =>
                 KeysOnce(offers) /\ Len(offers) = Cardinality(DOMAIN Get(held, e.path))
<1>1. CASE e.kind = "collection"
  <2>1. offers = CollectionOffers(e, held, ord)
    BY <1>1 DEF Offers
  <2> QED
    BY <1>1, <2>1, CollectionFits
<1>2. CASE e.kind # "collection"
  <2>1. ~Spreads(e) /\ ~KeyPerElement(e)
    BY <1>2 DEF Spreads, KeyPerElement
  <2>2. \E json : offers \in {<<>>, Pair(e, json)}
    <3>1. CASE e.kind = "constant"
      BY <3>1 DEF Offers
    <3>2. CASE e.kind = "scalar"
      BY <3>2 DEF Offers, ScalarOffers
    <3>3. CASE e.kind = "object"
      BY <3>3 DEF Offers, ObjectOffers
    <3>4. CASE e.kind = "discriminator"
      BY <3>4 DEF Offers, DiscriminatorOffers, UnsetOffers
    <3>5. CASE e.kind = "oneofValue"
      BY <3>5 DEF Offers, OneofValueOffers, UnsetOffers
    <3>6. CASE e.kind = "merge"
      BY <3>6 DEF Offers, MergeOffers
    <3>7. CASE e.kind = "structPick"
      BY <3>7 DEF Offers, StructPickOffers
    <3> QED
      BY <1>2, <3>1, <3>2, <3>3, <3>4, <3>5, <3>6, <3>7 DEF LegalEntry
  <2>3. Single(e, offers)
    BY <2>2, PairSingle
  <2> QED
    BY <2>1, <2>3
<1> QED
  BY <1>1, <1>2

(* Entries write as the plan takes them to: one pair under their own key   *)
(* or none; and where each element has one key, a pair for each of them,   *)
(* no two under one key (scalar, object, collection, inlineKeys, indexed). *)
THEOREM EntriesFitPlan == Spec => []OffersFitPlan
<1>1. ActiveInv /\ PartsInv /\ OfferedInv => OffersFitPlan
  <2> SUFFICES ASSUME ActiveInv, PartsInv, OfferedInv, NEW a \in DOMAIN plan
               PROVE  LET e     == plan[a]
                          pairs == Writes(a)
                      IN  /\ ~Spreads(e) => /\ Len(pairs) <= 1
                                            /\ \A n \in DOMAIN pairs : pairs[n][1] = e.key
                          /\ KeyPerElement(e) =>
                                /\ \A x, y \in DOMAIN pairs : x # y => pairs[x][1] # pairs[y][1]
                                /\ Ended /\ Reached(e, held) =>
                                      Len(pairs) = Cardinality(DOMAIN Get(held, e.path))
    BY DEF OffersFitPlan
  <2> DEFINE e      == plan[a]
             pairs  == Writes(a)
             offers == Offers(e, held, order)
  <2>1. LegalEntry(held, e)
    BY LegalEntries DEF ActiveInv
  <2>2. offers \in Seq(Range(offers))
    BY <2>1, OffersCaused DEF ActiveInv, Caused
  <2>3. /\ ~Spreads(e) => Single(e, offers)
        /\ KeyPerElement(e) =>
              KeysOnce(offers) /\ Len(offers) = Cardinality(DOMAIN Get(held, e.path))
    BY <2>1, OffersFit DEF ActiveInv
  <2>4. Part(offers, pairs)
    <3>1. CASE a \in DOMAIN out
      BY <3>1 DEF Writes, PartsInv
    <3>2. CASE a \notin DOMAIN out
      BY <3>2 DEF Writes, Part
    <3> QED
      BY <3>1, <3>2
  <2>5. Ended /\ Reached(e, held) => pairs = offers
    BY EndedOffers DEF Writes, Offered
  <2> HIDE DEF offers, pairs
  <2>6. /\ Len(pairs) <= Len(offers) /\ Len(pairs) \in Nat
        /\ \A n \in DOMAIN pairs : n \in DOMAIN offers /\ pairs[n] = offers[n]
    BY <2>2, <2>4, PartOf
  <2>7. ~Spreads(e) => Len(pairs) <= 1 /\ \A n \in DOMAIN pairs : pairs[n][1] = e.key
    <3> SUFFICES ASSUME ~Spreads(e)
                 PROVE  Len(pairs) <= 1 /\ \A n \in DOMAIN pairs : pairs[n][1] = e.key
      OBVIOUS
    <3>1. Len(offers) \in {0, 1} /\ \A n \in DOMAIN offers : offers[n][1] = e.key
      BY <2>3 DEF Single
    <3>2. Len(pairs) <= 1
      <4>1. Len(pairs) <= Len(offers) /\ Len(pairs) \in Nat /\ Len(offers) \in {0, 1}
        BY <2>6, <3>1
      <4> DEFINE few == Len(pairs)
                 all == Len(offers)
      <4>2. few <= all /\ few \in Nat /\ all \in {0, 1}
        BY <4>1
      <4> HIDE DEF few, all
      <4>3. few <= 1
        BY <4>2
      <4> QED
        BY <4>3 DEF few
    <3> HIDE DEF e
    <3> QED
      BY <2>6, <3>1, <3>2
  <2>8. KeyPerElement(e) =>
            \A x, y \in DOMAIN pairs : x # y => pairs[x][1] # pairs[y][1]
    BY <2>3, <2>6 DEF KeysOnce
  <2> QED
    BY <2>3, <2>5, <2>7, <2>8 DEF pairs
<1> QED
  BY <1>1, InitActive, StepActive, PartsInit, PartsStep, OfferedInit, OfferedStep,
     PTL DEF Spec

-----------------------------------------------------------------------------
(* The shape of what a merge writes                                        *)

LEMMA ShapeNames ==
    /\ \A x : /\ Bool(x)[1] = "boolean" /\ Num(x)[1] = "number" /\ Str(x)[1] = "string"
              /\ Arr(x)[1] = "array" /\ Obj(x)[1] = "object"
    /\ \A x, format : /\ Int64JSON(x, format)[1] = IF format = "NUMBER" THEN "number" ELSE "string"
                      /\ EnumJSON(x, format)[1] = IF format = "NUMBER" THEN "number" ELSE "string"
<1>1. \A x : /\ Bool(x)[1] = "boolean" /\ Num(x)[1] = "number" /\ Str(x)[1] = "string"
             /\ Arr(x)[1] = "array" /\ Obj(x)[1] = "object"
  BY DEF Bool, Num, Str, Arr, Obj
<1> QED
  BY <1>1 DEF Int64JSON, EnumJSON

(* A scalar has the shape the generator takes it to have.                  *)
LEMMA ScalarShaped ==
    ASSUME NEW type \in Scalars \ {"double"}, NEW v, NEW sc,
           type = "bytes" => sc.bytes # "ARRAY"
    PROVE  ScalarJSON(type, v, sc)[1] = ScalarShape(type, sc)
<1>1. CASE type = "bool"
  BY <1>1, ShapeNames DEF ScalarJSON, ScalarShape
<1>2. CASE type = "string"
  BY <1>2, ShapeNames DEF ScalarJSON, ScalarShape
<1>3. CASE type = "bytes"
  <2>1. ScalarJSON(type, v, sc) = BytesJSON(v, sc.bytes) /\ ScalarShape(type, sc) = "string"
    BY <1>3 DEF ScalarJSON, ScalarShape
  <2>2. \E text : BytesJSON(v, sc.bytes) = Str(text)
    BY <1>3 DEF BytesJSON
  <2> QED
    BY <2>1, <2>2, ShapeNames
<1>4. CASE type = "enum"
  BY <1>4, ShapeNames DEF ScalarJSON, ScalarShape
<1>5. CASE type = "int32"
  BY <1>5, ShapeNames DEF ScalarJSON, ScalarShape
<1>6. CASE type = "int64"
  BY <1>6, ShapeNames DEF ScalarJSON, ScalarShape, IntegerShape
<1> QED
  BY <1>1, <1>2, <1>3, <1>4, <1>5, <1>6 DEF Scalars

(* What is written has a shape: the one that was checked, unless it is a   *)
(* null or a failure.                                                      *)
Shaped(json, shape) == IsFailed(json) \/ json = Null \/ shape \in {json[1], "any"}

LEMMA ValueShaped ==
    ASSUME NEW f, f.card = "one", f.type \in Scalars \cup WellKnown \cup {"message"},
           NEW v, Allowed(f.type, v), NEW sc, NEW ord \in MapOrders, ~Misjudged(f, sc),
           sc.time \in TimeFormats, sc.duration \in DurationFormats
    PROVE  Shaped(ValueJSON(f.type, v, sc, ord), JSONShape(f, sc))
<1> DEFINE type == f.type
           json == ValueJSON(type, v, sc, ord)
<1>1. /\ type \notin {"FieldMask", "double", "DoubleValue"}
      /\ type \in {"bytes", "BytesValue"} => sc.bytes # "ARRAY"
  BY DEF Misjudged, IsCollection
<1>2. JSONShape(f, sc) = TypeShape(type, sc)
  BY DEF JSONShape
<1>3. type \in Scalars \cup WellKnown \cup {"message"} /\ Allowed(type, v)
  OBVIOUS
<1> HIDE DEF type
<1>4. CASE type \in Scalars
  <2>1. type \notin WellKnown /\ type # "message"
    BY <1>4 DEF WellKnown, Wrapped, Scalars
  <2>2. json = ScalarJSON(type, v, sc) /\ TypeShape(type, sc) = ScalarShape(type, sc)
    BY <1>4, <2>1 DEF ValueJSON, TypeShape
  <2>3. json[1] = TypeShape(type, sc)
    BY <1>1, <1>4, <2>2, ScalarShaped
  <2> QED
    BY <1>2, <2>3 DEF Shaped, type
<1>5. CASE type \in DOMAIN Wrapped
  <2>1. /\ Wrapped[type] \in Scalars \ {"double"} /\ type \notin Scalars
        /\ type \in WellKnown /\ type # "Empty" /\ type # "message"
        /\ Wrapped[type] = "bytes" => type = "BytesValue"
        /\ type \notin {"Timestamp", "Duration", "ListValue", "Value"}
    BY <1>1, <1>5 DEF Wrapped, Scalars, WellKnown
  <2>2. /\ json = ScalarJSON(Wrapped[type], Unwrap(type, v), sc)
        /\ TypeShape(type, sc) = ScalarShape(Wrapped[type], sc)
    BY <1>5, <2>1 DEF ValueJSON, WellKnownJSON, TypeShape, WellKnownShape
  <2>3. json[1] = TypeShape(type, sc)
    BY <1>1, <2>1, <2>2, ScalarShaped
  <2> QED
    BY <1>2, <2>3 DEF Shaped, type
<1>6. CASE type \in WellKnown \ DOMAIN Wrapped
  <2>1. type \notin Scalars /\ type # "message"
    BY <1>6 DEF WellKnown, Wrapped, Scalars
  <2>2. /\ json = WellKnownJSON(type, v, sc, ord)
        /\ TypeShape(type, sc) = WellKnownShape(type, sc)
    BY <1>6, <2>1 DEF ValueJSON, TypeShape
  <2>3. CASE type = "Empty"
    <3>1. json = Obj(<<>>) /\ WellKnownShape(type, sc) = "object"
      BY <1>6, <2>2, <2>3 DEF WellKnownJSON, WellKnownShape
    <3> QED
      BY <1>2, <2>2, <3>1, ShapeNames DEF Shaped, type
  <2>4. CASE type # "Empty" /\ v = Nil
    <3>1. json = Null
      BY <1>6, <2>2, <2>4 DEF WellKnownJSON
    <3> QED
      BY <3>1 DEF Shaped, type
  <2>5. CASE type # "Empty" /\ v # Nil
    <3>0. json = ContentJSON(type, v[2], sc, ord)
      BY <1>6, <2>2, <2>5 DEF WellKnownJSON
    <3> HIDE DEF json
    <3> SUFFICES IsFailed(json) \/ WellKnownShape(type, sc) \in {json[1], "any"}
      BY <1>2, <2>2 DEF Shaped, json, type
    <3>1. CASE type = "Timestamp"
      <4>1. json = TimestampJSON(v[2], sc.time)
        BY <3>0, <3>1 DEF ContentJSON
      <4>2. WellKnownShape(type, sc) = IF sc.time = "RFC3339" THEN "string" ELSE "number"
        BY <1>6, <3>1 DEF WellKnownShape
      <4> QED
        BY <4>1, <4>2, ShapeNames DEF TimestampJSON, TimeFormats
    <3>2. CASE type = "Duration"
      <4>1. json = DurationJSON(v[2], sc.duration)
        BY <3>0, <3>2 DEF ContentJSON
      <4>2. WellKnownShape(type, sc) = IF sc.duration = "PROTOJSON" THEN "string" ELSE "number"
        BY <1>6, <3>2 DEF WellKnownShape
      <4> QED
        BY <4>1, <4>2, ShapeNames DEF DurationJSON, DurationFormats
    <3>3. CASE type = "Any"
      <4>1. json = AnyJSON(v[2]) /\ WellKnownShape(type, sc) = "object"
        BY <1>6, <3>0, <3>3 DEF ContentJSON, WellKnownShape
      <4>2. AnyJSON(v[2]) = Failed("payload") \/ AnyJSON(v[2])[1] = "object"
        BY <1>3, <2>1, <2>5, <3>3, AnySound DEF Allowed
      <4>3. Failed("payload")[1] = "failed"
        BY DEF Failed
      <4> QED
        BY <4>1, <4>2, <4>3 DEF IsFailed
    <3>4. CASE type = "Value"
      <4>1. WellKnownShape(type, sc) = "any"
        BY <1>6, <3>4 DEF WellKnownShape
      <4> QED
        BY <4>1
    <3>5. CASE type \in {"Struct", "ListValue"}
      <4>1. /\ v[2] \in PbValues
            /\ type = "Struct" => v[2][1] = "struct"
            /\ type = "ListValue" => v[2][1] = "list"
        BY <1>3, <2>1, <2>5, <3>5 DEF Allowed
      <4>2. json = PbJSON(ord)[v[2]]
        BY <3>0, <3>5 DEF ContentJSON
      <4>3. /\ type = "Struct" => json[1] = "object"
            /\ type = "ListValue" => json[1] = "array"
        BY <4>1, <4>2, PbSolid
      <4>4. /\ type = "Struct" => WellKnownShape(type, sc) = "object"
            /\ type = "ListValue" => WellKnownShape(type, sc) = "array"
        BY <1>6 DEF WellKnownShape
      <4> QED
        BY <3>5, <4>3, <4>4
    <3> QED
      BY <1>1, <1>6, <2>5, <3>1, <3>2, <3>3, <3>4, <3>5 DEF WellKnown
  <2> QED
    BY <2>3, <2>4, <2>5
<1>7. CASE type = "message"
  <2>1. type \notin WellKnown \cup Scalars
    BY <1>7 DEF WellKnown, Wrapped, Scalars
  <2>2. json = Obj(<<>>) /\ TypeShape(type, sc) = "object"
    BY <1>7, <2>1 DEF ValueJSON, TypeShape
  <2> QED
    BY <1>2, <2>2, ShapeNames DEF Shaped, type
<1> QED
  BY <1>3, <1>4, <1>5, <1>6, <1>7

(* An array or object fails with a part of its, or is what it is.          *)
LEMMA PartsShaped ==
    ASSUME NEW jsons, DOMAIN jsons \in SUBSET Nat
    PROVE  /\ Shaped(Array(jsons), "array")
           /\ \A keys : Shaped(Object(keys, jsons), "object")
<1>1. CASE Failures(jsons) # {}
  <2>1. Failures(jsons) \in SUBSET Nat
    BY DEF Failures
  <2>2. Min(Failures(jsons)) \in Failures(jsons)
    BY <1>1, <2>1, MinMember
  <2>3. IsFailed(jsons[Min(Failures(jsons))])
    BY <2>2 DEF Failures
  <2> QED
    BY <1>1, <2>3 DEF Array, Object, Shaped
<1>2. CASE Failures(jsons) = {}
  <2>1. Array(jsons)[1] = "array" /\ \A keys : Object(keys, jsons)[1] = "object"
    BY <1>2, ShapeNames DEF Array, Object
  <2> QED
    BY <2>1 DEF Shaped
<1> QED
  BY <1>1, <1>2

LEMMA SourceShaped ==
    ASSUME Consistent(held), NEW e, NEW path, LegalPath(held, path), path # <<>>,
           e.pick = "none", ~Misjudged(LeafOf(path), e.sc), NEW ord \in MapOrders,
           e.sc.time \in TimeFormats, e.sc.duration \in DurationFormats
    PROVE  Shaped(SourceJSON(e, held, path, ord), JSONShape(LeafOf(path), e.sc))
<1> DEFINE f == LeafOf(path)
           v == Get(held, path)
<1>1. f.type \in Scalars \cup WellKnown \cup {"message"} /\ f.card \in {"one", "list", "map"}
  <2>1. Len(path) \in DOMAIN path /\ path \in Seq(DOMAIN Info) /\ f = Info[path[Len(path)]]
    BY LeafFacts DEF LegalPath
  <2>2. path[Len(path)] \in DOMAIN Info
    BY <2>1
  <2> QED
    BY <2>1, <2>2, InfoAssumption
<1>2. CASE IsCollection(f)
  <2>1. Collection(e, f, v)
    BY <1>2, HeldCollection
  <2>2. e.sc.cardinality = "KEEP"
    BY <1>2 DEF Misjudged
  <2>3. SourceJSON(e, held, path, ord) = KeepJSON(e, f, v, ord)
    BY <1>2, <2>2 DEF SourceJSON, CollectionJSON
  <2>4. PICK m \in Nat : DOMAIN ElementJSONs(e, f, v, ord) = 1..m
    BY <2>1, ElementJSONsSound
  <2>5. DOMAIN ElementJSONs(e, f, v, ord) \in SUBSET Nat
    BY <2>4
  <2>6. f.card = "list" \/ f.card = "map"
    BY <1>1, <1>2 DEF IsCollection
  <2>7. /\ f.card = "list" => JSONShape(f, e.sc) = "array"
        /\ f.card = "map" => JSONShape(f, e.sc) = "object"
    BY <2>2 DEF JSONShape
  <2> HIDE DEF f, v
  <2>8. Shaped(KeepJSON(e, f, v, ord), JSONShape(f, e.sc))
    BY <2>5, <2>6, <2>7, PartsShaped DEF KeepJSON
  <2> QED
    BY <2>3, <2>8 DEF f
<1>3. CASE ~IsCollection(f)
  <2>1. Allowed(f.type, v)
    BY <1>3, HeldAllowed
  <2>2. f.card = "one"
    BY <1>3 DEF IsCollection
  <2>3. SourceJSON(e, held, path, ord) = ValueJSON(f.type, v, e.sc, ord)
    BY <1>3 DEF SourceJSON
  <2> HIDE DEF f, v
  <2>4. Shaped(ValueJSON(f.type, v, e.sc, ord), JSONShape(f, e.sc))
    BY <1>1, <2>1, <2>2, ValueShaped DEF f
  <2> QED
    BY <2>3, <2>4 DEF f
<1> QED
  BY <1>2, <1>3

-----------------------------------------------------------------------------
(* Nothing that has been written failed.                                   *)
WholeInv == \A a \in DOMAIN out : \A n \in DOMAIN out[a] : ~IsFailed(out[a][n][2])

LEMMA WholeInit == Init => WholeInv
<1>1. Init => DOMAIN out = {}
  BY DEF Init
<1> QED
  BY <1>1 DEF WholeInv

LEMMA BeforeFailing ==
    ASSUME NEW offers, NEW n \in Nat, n <= Len(offers), Len(offers) \in Nat,
           Failing(offers) = 0 \/ n < Failing(offers)
    PROVE  \A k \in 1..n : ~IsFailed(offers[k][2])
<1> DEFINE I == {i \in 1..Len(offers) : IsFailed(offers[i][2])}
<1>1. Failing(offers) = IF I # {} THEN Min(I) ELSE 0
  BY DEF Failing, SelectInSeq
<1>2. I \in SUBSET Nat /\ 0 \notin I
  OBVIOUS
<1> SUFFICES ASSUME NEW k \in 1..n, k \in I PROVE FALSE
  OBVIOUS
<1> HIDE DEF I
<1>3. Min(I) \in I /\ Min(I) <= k
  BY <1>2, MinMember
<1>4. Failing(offers) = Min(I) /\ Min(I) # 0 /\ Min(I) \in Nat
  BY <1>1, <1>2, <1>3
<1> QED
  BY <1>3, <1>4

LEMMA WholeAppend ==
    ASSUME ActiveInv, WholeInv, NEW some, out' = Append(out, some),
           \A n \in DOMAIN some : ~IsFailed(some[n][2])
    PROVE  WholeInv'
<1>1. PICK n \in Nat : out = [a \in 1..n |-> out[a]]
  BY DEF ActiveInv
<1>2. Len(out) = n /\ DOMAIN out = 1..n
  BY <1>1
<1>3. out' = [a \in 1..(n + 1) |-> IF a = n + 1 THEN some ELSE out[a]]
  BY <1>1, <1>2
<1>4. ASSUME NEW a \in DOMAIN out' PROVE out'[a] = some \/ (a \in DOMAIN out /\ out'[a] = out[a])
  BY <1>2, <1>3
<1> QED
  BY <1>4 DEF WholeInv

LEMMA WholeStep == ActiveInv /\ WholeInv /\ [Next]_vars => WholeInv'
<1> SUFFICES ASSUME ActiveInv, WholeInv, [Next]_vars PROVE WholeInv'
  OBVIOUS
<1>1. CASE UNCHANGED vars \/ MergeFails
  BY <1>1 DEF vars, MergeFails, WholeInv
<1>2. CASE SkipInactive
  <2>1. out' = Append(out, <<>>)
    BY <1>2 DEF SkipInactive
  <2> QED
    BY <2>1, WholeAppend
<1>3. CASE Emit \/ EmitFails
  <2> DEFINE offers == Offers(plan[at], held, order)
             some   == SubSeq(offers, 1, Failing(offers) - 1)
  <2>1. Running
    BY <1>3 DEF Emit, EmitFails, Emitting
  <2>2. LegalEntry(held, plan[at])
    BY <2>1, LegalEntries DEF ActiveInv, Running
  <2>3. offers \in Seq(Range(offers))
    BY <2>2, OffersCaused DEF ActiveInv, Caused
  <2>4. \/ Failing(offers) = 0 /\ out' = Append(out, offers)
        \/ Failing(offers) # 0 /\ out' = Append(out, some)
    BY <1>3 DEF Emit, EmitFails
  <2> HIDE DEF offers
  <2>5. Len(offers) \in Nat /\ DOMAIN offers = 1..Len(offers)
    BY <2>3
  <2>6. CASE Failing(offers) = 0 /\ out' = Append(out, offers)
    <3>1. \A n \in DOMAIN offers : ~IsFailed(offers[n][2])
      BY <2>5, <2>6, BeforeFailing
    <3> QED
      BY <2>6, <3>1, WholeAppend
  <2>7. CASE Failing(offers) # 0 /\ out' = Append(out, some)
    <3> DEFINE m == Failing(offers) - 1
    <3>1. m \in Nat /\ m <= Len(offers) /\ m < Failing(offers)
      BY <2>5, <2>7, FailingFails
    <3>2. DOMAIN some = 1..m /\ \A k \in 1..m : some[k] = offers[k]
      BY <2>3, <2>5, <3>1
    <3> HIDE DEF m, some
    <3>3. \A k \in 1..m : ~IsFailed(offers[k][2])
      BY <2>5, <3>1, BeforeFailing
    <3>4. \A k \in DOMAIN some : ~IsFailed(some[k][2])
      BY <3>2, <3>3
    <3> QED
      BY <2>7, <3>4, WholeAppend
  <2> QED
    BY <2>4, <2>6, <2>7
<1> QED
  BY <1>1, <1>2, <1>3 DEF Next

(* Whichever source of a merge wins, its key has the JSON type that was    *)
(* checked for all of them, or null (checkMergeSourceTypes, jsonShape).    *)
THEOREM ShapesAsChecked == Spec => []ShapeAsChecked
<1>1. ActiveInv /\ PartsInv /\ WholeInv => ShapeAsChecked
  <2> SUFFICES ASSUME ActiveInv, PartsInv, WholeInv, NEW a \in DOMAIN out,
                      plan[a].kind = "merge",
                      \A p \in Range(plan[a].sources) : ~Misjudged(LeafOf(p), plan[a].sc),
                      NEW json \in Written(a) \ {Null}, NEW p \in Range(plan[a].sources)
               PROVE  JSONShape(LeafOf(p), plan[a].sc) \in {json[1], "any"}
    BY DEF ShapeAsChecked
  <2> DEFINE e      == plan[a]
             offers == Offers(e, held, order)
  <2>1. /\ a \in DOMAIN plan /\ \E n \in DOMAIN offers : json = offers[n][2]
        /\ ~IsFailed(json)
    <3>1. ~IsFailed(json)
      BY DEF Written, Writes, Range, WholeInv
    <3> QED
      BY <3>1, WrittenOffer
  <2>2. LegalSources(held, e)
    BY <2>1, LegalEntries DEF ActiveInv, LegalEntry
  <2>3. offers = MergeOffers(e, held, order)
    BY DEF Offers
  <2>4. PICK one : /\ offers \in {<<>>, Pair(e, one)}
                   /\ \/ one = Null
                      \/ \E path \in Range(e.sources) : one = SourceJSON(e, held, path, order)
    BY <2>2, <2>3, MergeChoice
  <2>5. json = one
    BY <2>1, <2>4 DEF Pair
  <2>6. PICK path \in Range(e.sources) : json = SourceJSON(e, held, path, order)
    BY <2>4, <2>5
  <2>7. LegalPath(held, path) /\ path # <<>> /\ e.pick = "none" /\ ~Misjudged(LeafOf(path), e.sc)
        /\ e.sc.time \in TimeFormats /\ e.sc.duration \in DurationFormats
    BY <2>2, <2>6 DEF LegalSources
  <2>8. JSONShape(LeafOf(p), e.sc) = JSONShape(LeafOf(path), e.sc)
    BY <2>2, <2>6 DEF LegalSources
  <2> HIDE DEF e, offers
  <2>9. Shaped(json, JSONShape(LeafOf(path), e.sc))
    BY <2>6, <2>7, SourceShaped DEF ActiveInv
  <2> QED
    BY <2>1, <2>8, <2>9 DEF Shaped, e
<1> QED
  BY <1>1, InitActive, StepActive, PartsInit, PartsStep, WholeInit, WholeStep, PTL DEF Spec

-----------------------------------------------------------------------------
(* The way into an object that is written                                  *)

InwardsStep(json, path, way, n) == IF n = 0 THEN json ELSE Inside(way[n - 1], path[n])

LEMMA InwardsSteps ==
    ASSUME NEW json, NEW path, Len(path) \in Nat
    PROVE  \A n \in 0..Len(path) : Inwards(json, path)[n] = InwardsStep(json, path, Inwards(json, path), n)
<1> DEFINE N == Len(path)
           Solves(way) == way = [n \in 0..N |-> InwardsStep(json, path, way, n)]
           Known(k) == \E way : \A n \in 0..N : n <= k => way[n] = InwardsStep(json, path, way, n)
           Bad == {k \in Nat : ~Known(k)}
<1>1. Inwards(json, path) = CHOOSE way : Solves(way)
  BY Zenon DEF Inwards, InwardsStep
<1>2. Bad = {}
  <2> SUFFICES ASSUME Bad # {} PROVE FALSE
    OBVIOUS
  <2>1. Min(Bad) \in Bad /\ \A k \in Bad : Min(Bad) <= k
    BY MinMember
  <2> DEFINE k == Min(Bad)
  <2>2. k \in Nat /\ ~Known(k)
    BY <2>1
  <2>3. k # 0
    <3>1. Known(0)
      <4> DEFINE way == [n \in 0..N |-> json]
      <4>1. \A n \in 0..N : n <= 0 => way[n] = InwardsStep(json, path, way, n)
        BY DEF InwardsStep
      <4> QED
        BY <4>1
    <3> QED
      BY <2>2, <3>1
  <2>4. Known(k - 1)
    <3>1. k - 1 \in Nat /\ ~(k <= k - 1)
      BY <2>2, <2>3
    <3>2. k - 1 \notin Bad
      BY <2>1, <3>1
    <3> QED
      BY <3>1, <3>2
  <2>5. PICK old : \A n \in 0..N : n <= k - 1 => old[n] = InwardsStep(json, path, old, n)
    BY <2>4
  <2> DEFINE new == [n \in 0..N |-> InwardsStep(json, path, old, n)]
  <2>6. ASSUME NEW n \in 0..N, n <= k PROVE new[n] = InwardsStep(json, path, new, n)
    <3>1. CASE n = 0
      BY <3>1 DEF InwardsStep
    <3>2. CASE n # 0
      <4>1. n - 1 \in 0..N /\ n - 1 <= k - 1
        BY <2>2, <2>6, <3>2
      <4>2. new[n - 1] = old[n - 1]
        BY <2>5, <4>1
      <4>3. new[n] = InwardsStep(json, path, old, n)
        OBVIOUS
      <4> HIDE DEF new
      <4> QED
        BY <3>2, <4>2, <4>3 DEF InwardsStep
    <3> QED
      BY <3>1, <3>2
  <2>7. Known(k)
    <3> HIDE DEF new
    <3> QED
      BY <2>6
  <2> QED
    BY <2>2, <2>7
<1>3. Known(N)
  BY <1>2
<1>4. PICK way : \A n \in 0..N : n <= N => way[n] = InwardsStep(json, path, way, n)
  BY <1>3
<1> DEFINE found == [n \in 0..N |-> way[n]]
<1>5. ASSUME NEW n \in 0..N PROVE InwardsStep(json, path, found, n) = way[n]
  <2>1. way[n] = InwardsStep(json, path, way, n)
    BY <1>4
  <2>2. n # 0 => found[n - 1] = way[n - 1]
    OBVIOUS
  <2> HIDE DEF found
  <2> QED
    BY <2>1, <2>2 DEF InwardsStep
<1>6. Solves(found)
  <2> DEFINE F == [n \in 0..N |-> InwardsStep(json, path, found, n)]
  <2>1. F = [n \in 0..N |-> way[n]]
    BY <1>5
  <2> QED
    BY <2>1
<1>7. Solves(Inwards(json, path))
  <2> HIDE DEF Solves
  <2> QED
    BY <1>1, <1>6, Zenon
<1> QED
  <2> DEFINE T == Inwards(json, path)
  <2>1. T = [n \in 0..N |-> InwardsStep(json, path, T, n)]
    BY <1>7
  <2> HIDE DEF T
  <2> SUFFICES \A n \in 0..N : T[n] = InwardsStep(json, path, T, n)
    BY DEF T
  <2>2. ASSUME NEW n \in 0..N PROVE T[n] = InwardsStep(json, path, T, n)
    <3> DEFINE B(i) == InwardsStep(json, path, T, i)
    <3>1. T = [i \in 0..N |-> B(i)]
      BY <2>1
    <3> HIDE DEF B
    <3>2. T[n] = B(n)
      BY <3>1
    <3> QED
      BY <3>2 DEF B
  <2> QED
    BY <2>2

(* Only a Struct is written as an object, with the values of its members   *)
(* under their names.                                                      *)
LEMMA PbObject ==
    ASSUME NEW ord \in MapOrders, NEW v \in PbValues
    PROVE  /\ v[1] # "struct" => PbJSON(ord)[v][1] # "object"
           /\ v[1] = "struct" =>
                 PbJSON(ord)[v] = Obj([n \in DOMAIN SortedKeys(v[2], ord) |->
                     <<KeyString(SortedKeys(v[2], ord)[n]),
                       PbJSON(ord)[v[2][SortedKeys(v[2], ord)[n]]]>>])
<1> DEFINE T == PbJSON(ord)
<1>1. T[v] = PbFromParts(v, T, ord)
  BY PbFixed
<1>2. v[1] = "list" => T[v][1] = "array"
  BY PbSolid
<1>3. v[1] = "struct" => DOMAIN v[2] \in KeySets
  BY PbSolid
<1>4. ~IsFailed(T[v])
  BY PbSolid DEF Solid
<1> HIDE DEF T
<1>5. CASE v[1] \notin {"struct", "list"}
  <2>1. \E x : PbFromParts(v, T, ord) \in {Num(x), Str(x), Bool(x), Null}
    BY <1>5 DEF PbFromParts, FloatJSON
  <2>2. Null[1] = "null"
    BY DEF Null
  <2> QED
    BY <1>1, <1>5, <2>1, <2>2, ShapeNames DEF T
<1>6. CASE v[1] = "list"
  BY <1>2, <1>6 DEF T
<1>7. CASE v[1] = "struct"
  <2> DEFINE keys  == SortedKeys(v[2], ord)
             m     == Cardinality(DOMAIN v[2])
             names == [n \in DOMAIN keys |-> KeyString(keys[n])]
             jsons == [n \in DOMAIN keys |-> T[v[2][keys[n]]]]
  <2>1. T[v] = Object(names, jsons)
    BY <1>1, <1>7 DEF PbFromParts
  <2>2. DOMAIN keys = 1..m /\ m \in Nat
    BY <1>3, <1>7, SortedFacts
  <2>3. Failures(jsons) = {}
    <3> SUFFICES ASSUME Failures(jsons) # {} PROVE FALSE
      OBVIOUS
    <3>1. Failures(jsons) \in SUBSET Nat
      BY <2>2 DEF Failures
    <3>2. Min(Failures(jsons)) \in Failures(jsons)
      BY <3>1, MinMember
    <3>3. Object(names, jsons) = jsons[Min(Failures(jsons))]
      BY DEF Object
    <3> HIDE DEF jsons
    <3> QED
      BY <1>4, <2>1, <3>2, <3>3 DEF Failures
  <2>4. Object(names, jsons) = Obj([n \in DOMAIN jsons |-> <<names[n], jsons[n]>>])
    BY <2>3, Zenon DEF Object
  <2> DEFINE pairs == [n \in DOMAIN keys |-> <<KeyString(keys[n]), T[v[2][keys[n]]]>>]
  <2>5. [n \in DOMAIN jsons |-> <<names[n], jsons[n]>>] = pairs
    <3> HIDE DEF keys
    <3> QED
      OBVIOUS
  <2>6. T[v] = Obj(pairs)
    BY <2>1, <2>4, <2>5
  <2> QED
    BY <1>7, <2>6 DEF T
<1> QED
  BY <1>5, <1>6, <1>7

(* A member that is written is found under its name, and no other is.      *)
LEMMA InsideStruct ==
    ASSUME NEW ord \in MapOrders, NEW v \in PbValues, NEW part \in {"text"} \X Int
    PROVE  IF v[1] = "struct" /\ part \in DOMAIN v[2]
           THEN Inside(PbJSON(ord)[v], part) = PbJSON(ord)[v[2][part]]
           ELSE Inside(PbJSON(ord)[v], part) = Failed("no member")
<1> DEFINE T    == PbJSON(ord)
           keys == SortedKeys(v[2], ord)
           m    == Cardinality(DOMAIN v[2])
           pairs == [n \in DOMAIN keys |-> <<KeyString(keys[n]), T[v[2][keys[n]]]>>]
<1>1. CASE v[1] # "struct"
  <2>1. T[v][1] # "object"
    BY <1>1, PbObject
  <2> QED
    BY <1>1, <2>1 DEF Inside, Named
<1>2. CASE v[1] = "struct"
  <2>1. T[v] = Obj(pairs)
    BY <1>2, PbObject
  <2>2. DOMAIN v[2] \in KeySets /\ DOMAIN v[2] \subseteq {"text"} \X Int
    <3>1. PICK k \in DOMAIN PbLevels : v \in PbLevels[k]
      BY DEF PbValues, Range
    <3> QED
      BY <1>2, <3>1, PbAssumption
  <2>3. \A k \in {"text"} \X Int : KeyString(k) = k
    BY DEF KeyString
  <2>4. /\ keys \in [1..m -> DOMAIN v[2]] /\ m \in Nat
        /\ \A x, y \in 1..m : keys[x] = keys[y] => x = y
        /\ \A k \in DOMAIN v[2] : \E n \in 1..m : keys[n] = k
    <3>1. /\ keys \in [1..m -> DOMAIN v[2]] /\ m \in Nat
          /\ IsInjective(keys) /\ Range(keys) = DOMAIN v[2]
      BY <2>2, SortedFacts
    <3> HIDE DEF keys, m
    <3>2. DOMAIN keys = 1..m
      BY <3>1
    <3>3. \A x, y \in 1..m : keys[x] = keys[y] => x = y
      BY <3>1, <3>2 DEF IsInjective
    <3>4. \A k \in DOMAIN v[2] : \E n \in 1..m : keys[n] = k
      BY <3>1, <3>2 DEF Range
    <3> QED
      BY <3>1, <3>3, <3>4
  <2> HIDE DEF keys, m, T
  <2>5. DOMAIN pairs = 1..m
    BY <2>4
  <2>6. \A n \in 1..m : pairs[n][1] = keys[n] /\ pairs[n][2] = T[v[2][keys[n]]]
    <3>1. \A n \in 1..m : pairs[n] = <<KeyString(keys[n]), T[v[2][keys[n]]]>>
      BY <2>5
    <3>2. \A n \in 1..m : KeyString(keys[n]) = keys[n]
      BY <2>2, <2>3, <2>4
    <3> HIDE DEF pairs
    <3> QED
      BY <3>1, <3>2
  <2> HIDE DEF pairs
  <2>7. T[v][1] = "object" /\ T[v][2] = pairs
    BY <2>1 DEF Obj
  <2> DEFINE named == {n \in 1..m : keys[n] = part}
  <2>8. Named(T[v], KeyString(part)) = named
    <3>1. Named(T[v], part) = {n \in DOMAIN pairs : pairs[n][1] = part}
      BY <2>7 DEF Named
    <3>2. KeyString(part) = part
      BY <2>3
    <3> QED
      BY <2>5, <2>6, <3>1, <3>2
  <2>9. CASE part \in DOMAIN v[2]
    <3>1. PICK n \in 1..m : keys[n] = part
      BY <2>4, <2>9
    <3>2. named # {} /\ named \in SUBSET Nat /\ \A k \in named : k = n
      BY <2>4, <3>1
    <3> HIDE DEF named
    <3>3. Min(named) = n
      BY <3>2, MinMember
    <3>4. Inside(T[v], part) = pairs[n][2]
      BY <2>7, <2>8, <3>2, <3>3 DEF Inside
    <3>5. pairs[n][2] = T[v[2][part]]
      BY <2>6, <3>1
    <3> QED
      BY <1>2, <2>9, <3>4, <3>5 DEF T
  <2>10. CASE part \notin DOMAIN v[2]
    <3>1. named = {}
      BY <2>4, <2>10
    <3> QED
      BY <2>8, <2>10, <3>1 DEF Inside, T
  <2> QED
    BY <2>9, <2>10
<1> QED
  BY <1>1, <1>2

(* Down a path, the Values and what is written of them go together, until  *)
(* there is nothing on either side.                                        *)
Together(w, json, ord) == \/ w \in PbValues /\ json = PbJSON(ord)[w]
                          \/ w = Nil /\ IsFailed(json)

LEMMA TogetherStep ==
    ASSUME NEW ord \in MapOrders, NEW w, NEW json, Together(w, json, ord),
           NEW part \in {"text"} \X Int
    PROVE  Together(Member(w, part), Inside(json, part), ord)
<1>1. IsFailed(Failed("no member"))
  BY DEF IsFailed, Failed
<1>2. CASE w \in PbValues /\ json = PbJSON(ord)[w]
  <2>1. CASE w[1] = "struct" /\ part \in DOMAIN w[2]
    <3>1. Member(w, part) = w[2][part] /\ w[2][part] \in PbValues
      BY <1>2, <2>1, MemberIsValue
    <3>2. Inside(json, part) = PbJSON(ord)[w[2][part]]
      BY <1>2, <2>1, InsideStruct
    <3> QED
      BY <3>1, <3>2 DEF Together
  <2>2. CASE ~(w[1] = "struct" /\ part \in DOMAIN w[2])
    <3>1. Member(w, part) = Nil
      BY <2>2 DEF Member
    <3>2. Inside(json, part) = Failed("no member")
      BY <1>2, <2>2, InsideStruct
    <3> QED
      BY <1>1, <3>1, <3>2 DEF Together
  <2> QED
    BY <2>1, <2>2
<1>3. CASE w = Nil /\ IsFailed(json)
  <2>1. Member(w, part) = Nil
    BY <1>3 DEF Member, Nil
  <2>2. Named(json, KeyString(part)) = {}
    BY <1>3 DEF Named, IsFailed
  <2>3. Inside(json, part) = Failed("no member")
    BY <2>2 DEF Inside
  <2> QED
    BY <1>1, <2>1, <2>3 DEF Together
<1> QED
  BY <1>2, <1>3 DEF Together

LEMMA TogetherDown ==
    ASSUME NEW ord \in MapOrders, NEW v \in PbValues, NEW path \in Seq({"text"} \X Int)
    PROVE  Together(Down(v, path)[Len(path)], JSONAt(PbJSON(ord)[v], path), ord)
<1> DEFINE N    == Len(path)
           json == PbJSON(ord)[v]
           T    == Down(v, path)
           J    == Inwards(json, path)
           Bad  == {n \in 0..N : ~Together(T[n], J[n], ord)}
<1>0. N \in Nat /\ \A n \in 1..N : path[n] \in {"text"} \X Int
  OBVIOUS
<1>1. \A n \in 0..N : T[n] = DownStep(v, path, T, n)
  BY <1>0, DownSteps
<1>2. \A n \in 0..N : J[n] = InwardsStep(json, path, J, n)
  BY <1>0, InwardsSteps
<1>3. Together(v, json, ord)
  BY DEF Together
<1>4. JSONAt(json, path) = J[N]
  BY DEF JSONAt
<1> HIDE DEF T, J, N, json
<1>5. Bad = {}
  <2> SUFFICES ASSUME Bad # {} PROVE FALSE
    OBVIOUS
  <2>1. Bad \in SUBSET Nat
    BY <1>0
  <2> DEFINE n == Min(Bad)
  <2>2. n \in Bad /\ \A i \in Bad : n <= i
    <3> HIDE DEF Bad
    <3> QED
      BY <2>1, MinMember
  <2> HIDE DEF n
  <2>3. n \in 0..N
    BY <2>2
  <2>4. n # 0
    <3>1. CASE n = 0
      BY <1>1, <1>2, <1>3, <2>2, <3>1 DEF DownStep, InwardsStep
    <3> QED
      BY <3>1
  <2>5. n - 1 \in 0..N /\ ~(n <= n - 1) /\ n \in 1..N
    BY <1>0, <2>3, <2>4
  <2>6. Together(T[n - 1], J[n - 1], ord)
    <3>1. n - 1 \notin Bad
      BY <2>2, <2>5
    <3> QED
      BY <2>5, <3>1
  <2>7. T[n] = Member(T[n - 1], path[n]) /\ J[n] = Inside(J[n - 1], path[n])
    BY <1>1, <1>2, <2>3, <2>4 DEF DownStep, InwardsStep
  <2>8. Together(T[n], J[n], ord)
    BY <1>0, <2>5, <2>6, <2>7, TogetherStep
  <2> QED
    BY <2>2, <2>8
<1>6. N \in 0..N
  BY <1>0
<1>7. Together(T[N], J[N], ord)
  BY <1>5, <1>6
<1> QED
  BY <1>4, <1>7 DEF T, N, json

(* Nothing is inside what is null.                                         *)
LEMMA NothingInside ==
    ASSUME NEW path \in Seq({"text"} \X Int)
    PROVE  IsFailed(JSONAt(Null, path)) \/ JSONAt(Null, path) = Null
<1> DEFINE N == Len(path)
           J == Inwards(Null, path)
<1>0. N \in Nat
  OBVIOUS
<1>1. \A n \in 0..N : J[n] = InwardsStep(Null, path, J, n)
  BY <1>0, InwardsSteps
<1>2. JSONAt(Null, path) = J[N]
  BY DEF JSONAt
<1> HIDE DEF J, N
<1>3. CASE N = 0
  BY <1>1, <1>2, <1>3 DEF InwardsStep
<1>4. CASE N # 0
  <2>0. N - 1 \in 0..N /\ N \in 0..N
    BY <1>0, <1>4
  <2> DEFINE Bad == {n \in 0..N : J[n][1] = "object"}
  <2>1. \A n \in 0..N : n # 0 => J[n] = Inside(J[n - 1], path[n])
    BY <1>1 DEF InwardsStep
  <2>2. J[0] = Null
    BY <1>0, <1>1 DEF InwardsStep
  <2>3. \A json, part : json[1] # "object" => Inside(json, part) = Failed("no member")
    BY DEF Inside, Named
  <2>4. Failed("no member")[1] = "failed" /\ Null[1] = "null"
    BY DEF Failed, Null
  <2>5. Bad = {}
    <3> SUFFICES ASSUME Bad # {} PROVE FALSE
      OBVIOUS
    <3>1. Bad \in SUBSET Nat
      BY <1>0
    <3> DEFINE n == Min(Bad)
    <3>2. n \in Bad /\ \A i \in Bad : n <= i
      <4> HIDE DEF Bad
      <4> QED
        BY <3>1, MinMember
    <3> HIDE DEF n
    <3>3. n # 0
      <4>1. CASE n = 0
        BY <2>2, <2>4, <3>2, <4>1
      <4> QED
        BY <4>1
    <3>4. n \in 0..N /\ n - 1 \in 0..N /\ ~(n <= n - 1)
      BY <1>0, <3>2, <3>3
    <3>5. J[n - 1][1] # "object"
      BY <3>2, <3>4
    <3>6. J[n] = Failed("no member")
      BY <2>1, <2>3, <3>3, <3>4, <3>5
    <3> QED
      BY <2>4, <3>2, <3>6
  <2>6. J[N - 1][1] # "object"
    BY <2>0, <2>5
  <2>7. J[N] = Failed("no member")
    BY <1>4, <2>0, <2>1, <2>3, <2>6
  <2> QED
    BY <1>2, <2>4, <2>7 DEF IsFailed
<1> QED
  BY <1>3, <1>4

(* A pick into a Struct writes what the whole Struct, written, has at that *)
(* path, and nothing when it has nothing there (structPick, PickStruct).   *)
THEOREM PicksReadStructs == Spec => []PickReadsStruct
<1>1. ActiveInv /\ OfferedInv => PickReadsStruct
  <2> SUFFICES ASSUME ActiveInv, OfferedInv, Ended, NEW a \in DOMAIN plan,
                      plan[a].kind = "structPick",
                      NEW json,
                      json = ValueJSON("Struct", Get(held, plan[a].path), plan[a].sc, order),
                      NEW found, found = JSONAt(json, plan[a].structPath)
               PROVE  IF Writes(a) = <<>> THEN IsFailed(found) \/ found = Null
                      ELSE found = Writes(a)[1][2]
    BY DEF PickReadsStruct
  <2> DEFINE e      == plan[a]
             v      == Get(held, e.path)
             path   == e.structPath
             picked == PickStruct(v, path)
  <2>1. /\ LegalPath(held, e.path) /\ e.path # <<>> /\ LeafOf(e.path).type = "Struct"
        /\ ~IsCollection(LeafOf(e.path)) /\ path \in Seq({"text"} \X Int)
    BY LegalEntries DEF ActiveInv, LegalEntry
  <2>2. Writes(a) = IF Reached(e, held) THEN Offers(e, held, order) ELSE <<>>
    BY EndedOffers DEF Writes, Offered
  <2>3. Offers(e, held, order) = IF picked = Nil THEN <<>> ELSE Pair(e, PbJSON(order)[picked])
    BY DEF Offers, StructPickOffers
  <2>4. /\ "Struct" \notin Scalars /\ "Struct" \in WellKnown /\ "Struct" \notin DOMAIN Wrapped
    BY DEF Scalars, WellKnown, Wrapped
  <2>5. json = IF v = Nil THEN Null ELSE PbJSON(order)[v[2]]
    BY <2>4 DEF ValueJSON, WellKnownJSON, ContentJSON
  <2>6. v # Nil => Reached(e, held)
    <3> SUFFICES ASSUME v # Nil PROVE Reached(e, held)
      OBVIOUS
    <3>1. ZeroOfField(LeafOf(e.path)) = Nil
      BY <2>1 DEF ZeroOfField, ZeroOf
    <3>2. held[e.path] # Unset /\ held[e.path][2] # Nil
      BY <3>1 DEF Get
    <3>3. HoldsValue(e.path)
      BY <2>1, <2>4, <3>2 DEF HoldsValue, Holds, IsMessage
    <3> QED
      BY <2>1, <3>3, ValueIsReached DEF ActiveInv
  <2>7. Allowed("Struct", v)
    BY <2>1, HeldAllowed DEF ActiveInv
  <2> HIDE DEF v, path, e
  <2>8. CASE v = Nil
    <3>1. picked = Nil
      BY <2>8 DEF PickStruct
    <3>2. Writes(a) = <<>>
      BY <2>2, <2>3, <3>1
    <3>3. found = JSONAt(Null, path)
      BY <2>5, <2>8 DEF path, e
    <3> QED
      BY <2>1, <3>2, <3>3, NothingInside
  <2>9. CASE v # Nil
    <3>1. v[2] \in PbValues
      BY <2>4, <2>7, <2>9 DEF Allowed
    <3>2. picked = Down(v[2], path)[Len(path)]
      BY <2>9 DEF PickStruct
    <3>3. found = JSONAt(PbJSON(order)[v[2]], path)
      BY <2>5, <2>9 DEF path, e
    <3>4. Together(picked, found, order)
      BY <2>1, <3>1, <3>2, <3>3, TogetherDown DEF ActiveInv
    <3> HIDE DEF picked
    <3>5. CASE picked = Nil
      <4>1. Writes(a) = <<>>
        BY <2>2, <2>3, <3>5
      <4>2. ASSUME Nil \in PbValues PROVE PbJSON(order)[Nil] = Null
        <5>1. PbJSON(order)[Nil] = PbFromParts(Nil, PbJSON(order), order)
          BY <4>2, PbFixed DEF ActiveInv
        <5>2. Nil[1] = "nil"
          BY DEF Nil
        <5> QED
          BY <5>1, <5>2 DEF PbFromParts
      <4> QED
        BY <3>4, <3>5, <4>1, <4>2 DEF Together
    <3>6. CASE picked # Nil
      <4>1. Writes(a) = Pair(e, PbJSON(order)[picked])
        BY <2>2, <2>3, <2>6, <2>9, <3>6
      <4>2. Writes(a) # <<>> /\ Writes(a)[1][2] = PbJSON(order)[picked]
        BY <4>1 DEF Pair
      <4>3. found = PbJSON(order)[picked]
        BY <3>4, <3>6 DEF Together
      <4> QED
        BY <4>2, <4>3
    <3> QED
      BY <3>5, <3>6
  <2> QED
    BY <2>8, <2>9
<1> QED
  BY <1>1, InitActive, StepActive, OfferedInit, OfferedStep, PTL DEF Spec
=============================================================================
