--------------------------- MODULE EditReviewProofs ---------------------------
(***************************************************************************)
(* What editing a disc, posting a new one and reviewing do to the disc,    *)
(* for every number of clients, submissions, ring entries and values.      *)
(*                                                                         *)
(* A form is posted, its changes against the disc are stored, a reviewer   *)
(* sees them on the disc as it is by then, posts the reviewed form, and    *)
(* the changes against the disc of that moment are resolved and written    *)
(* (ContentRestored, WrittenIs).  EditInv says where each content on a     *)
(* page or in a submission comes from; DraftInv what the changes of a      *)
(* submission of Add Disc can say, so that a Draft says it again and a     *)
(* verification takes nothing from its disc.                               *)
(***************************************************************************)
EXTENDS EditReview, ChangeSetProofs

-----------------------------------------------------------------------------
(* What is posted is what is stored.                                       *)

LEMMA FormOfIs ==
    ASSUME NEW x, IsRecord(x)
    PROVE  LET y == FormOf(x) IN
           /\ IsRecord(y) /\ Same(y, x, Keys \ {"breaks", "edc"})
           /\ y.breaks = IF x.breaks = Null THEN <<>> ELSE x.breaks
           /\ y.edc = IF x.edc = Null THEN FALSE ELSE x.edc
<1>1. x = [f \in Keys |-> x[f]] /\ DOMAIN x = Keys
    BY DEF IsRecord
<1>2. "breaks" \in Keys /\ "edc" \in Keys
    BY DEF Keys, ScalarFields
<1> QED BY <1>1, <1>2 DEF FormOf, IsRecord, Same

LEMMA StoredEntries ==
    ASSUME NEW rs, RingList(rs), NEW m \in Media, NEW nextId \in Nat
    PROVE  EntriesOf(StoredRings(rs, m, nextId)) = {Unnamed(r, m) : r \in ToSet(rs)}
<1> DEFINE u == Numbered(rs, m, nextId)
           t == SortRings(u)
           N == Len(rs)
<1>1. StoredRings(rs, m, nextId) = t
    BY DEF StoredRings, Numbered, FreshId
<1>2. N \in Nat /\ DOMAIN rs = 1 .. N /\ \A k \in DOMAIN rs : rs[k] \in Rings /\ rs[k] \in ToSet(rs)
    BY DEF RingList, IsList, ToSet
<1>3. \A k \in DOMAIN rs : FreshId(rs, k, nextId) \in Nat
    BY FreshIds
<1>4. DOMAIN u = 1 .. N /\ IsList(u)
  <2>1. DOMAIN u = 1 .. N /\ u = [i \in 1 .. N |-> u[i]]
      BY <1>2 DEF Numbered
  <2> HIDE DEF u
  <2> QED BY <1>2, <2>1, IsNumbered
<1>5. ASSUME NEW k \in 1 .. N PROVE u[k] \in Rings /\ [u[k] EXCEPT !.id = NoId] = Unnamed(rs[k], m)
  <2> DEFINE r == rs[k]
             id == FreshId(rs, k, nextId)
  <2>1. u[k] = StoredRing(r, m, id)
      BY <1>2 DEF Numbered
  <2>2. r \in Rings /\ id \in Nat
      BY <1>2, <1>3
  <2> HIDE DEF u, r, id
  <2>3. u[k] \in Rings /\ [u[k] EXCEPT !.id = NoId] = Unnamed(r, m)
      BY <2>1, <2>2, StoredRingIs
  <2> QED BY <2>3 DEF r, id
<1> HIDE DEF u
<1>6. RingList(u)
    BY <1>4, <1>5 DEF RingList
<1>7. ToSet(t) = ToSet(u)
    BY <1>6, SortedHas
<1> DEFINE E == EntriesOf(t)
           F == {Unnamed(r, m) : r \in ToSet(rs)}
<1> HIDE DEF t
<1>8. ASSUME NEW k \in 1 .. N PROVE u[k] \in ToSet(u) /\ rs[k] \in ToSet(rs)
    BY <1>2, <1>4 DEF ToSet
<1>9. E \subseteq F
  <2> SUFFICES ASSUME NEW q \in ToSet(u) PROVE [q EXCEPT !.id = NoId] \in F
      BY <1>7 DEF EntriesOf
  <2>1. PICK k \in 1 .. N : q = u[k]
      BY <1>4 DEF ToSet
  <2> QED BY <1>5, <1>8, <2>1
<1>10. F \subseteq E
  <2> SUFFICES ASSUME NEW r \in ToSet(rs) PROVE Unnamed(r, m) \in E
      OBVIOUS
  <2>1. PICK k \in 1 .. N : r = rs[k]
      BY <1>2 DEF ToSet
  <2>2. Unnamed(r, m) = [u[k] EXCEPT !.id = NoId] /\ u[k] \in ToSet(t)
      BY <1>5, <1>7, <1>8, <2>1
  <2> QED BY <2>2 DEF EntriesOf
<1> QED BY <1>1, <1>9, <1>10

\* Entries that are alike those of a form are stored as those of the form.
AreStored(t, rs, m) ==
    /\ RingList(t) /\ HasIds(t)
    /\ \A q \in ToSet(t) : q.id \in Nat /\ q.id # NoId /\ ~RingIsEmpty(q) /\ (q.offset # 0 => IsCd[m])
                           /\ Len(q.layers) = Layers[m] + 1
    /\ Len(t) = Len(rs) /\ EntriesOf(t) = EntriesOf(StoredRings(rs, m, 0))

LEMMA EntriesStored ==
    ASSUME NEW rs, NEW new, NEW old, AreEntriesOf(rs, new, old), RingList(new), NEW m \in Media,
           \A r \in ToSet(new) : IsFit(r, m), NEW nextId \in Nat, \A i \in RingIds(old) : i < nextId
    PROVE  LET t == StoredRings(rs, m, nextId) IN
           /\ AreStored(t, new, m)
           /\ NewRings(rs) \in Nat /\ \A q \in ToSet(t) : q.id < nextId + NewRings(rs)
<1> DEFINE t == StoredRings(rs, m, nextId)
<1>1. /\ RingList(rs) /\ HasIds(rs) /\ Len(rs) = Len(new)
      /\ \A q \in ToSet(rs) : q.id = NoId \/ q.id \in RingIds(old)
      /\ \A q \in ToSet(rs) : \E r \in ToSet(new) : Alike(q, r)
      /\ \A r \in ToSet(new) : \E q \in ToSet(rs) : Alike(q, r)
    BY DEF AreEntriesOf
<1>2. IsStored(t, rs, m, nextId)
    BY <1>1, StoredAre
<1>3. NewRings(rs) \in Nat
    BY <1>1, FreshIds
<1>4. EntriesOf(t) = {Unnamed(r, m) : r \in ToSet(rs)} /\ EntriesOf(StoredRings(new, m, 0)) = {Unnamed(r, m) : r \in ToSet(new)}
  <2> DEFINE zero == 0
  <2>1. zero \in Nat
      OBVIOUS
  <2> HIDE DEF zero
  <2>2. EntriesOf(StoredRings(new, m, zero)) = {Unnamed(r, m) : r \in ToSet(new)}
      BY <2>1, StoredEntries
  <2>3. EntriesOf(t) = {Unnamed(r, m) : r \in ToSet(rs)}
      BY <1>1, StoredEntries
  <2> QED BY <2>2, <2>3 DEF zero
<1>5. (\A r \in ToSet(rs) : r \in Rings) /\ (\A r \in ToSet(new) : r \in Rings)
    BY <1>1 DEF RingList, ToSet
<1>6. {Unnamed(r, m) : r \in ToSet(rs)} = {Unnamed(r, m) : r \in ToSet(new)}
  <2> DEFINE A == {Unnamed(r, m) : r \in ToSet(rs)}
             B == {Unnamed(r, m) : r \in ToSet(new)}
  <2>1. ASSUME NEW q \in ToSet(rs) PROVE Unnamed(q, m) \in B
    <3>1. PICK r \in ToSet(new) : Alike(q, r)
        BY <1>1
    <3>2. Unnamed(q, m) = Unnamed(r, m)
        BY <1>5, <3>1, UnnamedAlike
    <3> QED BY <3>2
  <2>2. ASSUME NEW r \in ToSet(new) PROVE Unnamed(r, m) \in A
    <3>1. PICK q \in ToSet(rs) : Alike(q, r)
        BY <1>1
    <3>2. Unnamed(q, m) = Unnamed(r, m)
        BY <1>5, <3>1, UnnamedAlike
    <3> QED BY <3>2
  <2>3. A \subseteq B
      BY <2>1
  <2>4. B \subseteq A
      BY <2>2
  <2> QED BY <2>3, <2>4
<1> HIDE DEF t
<1>7. ASSUME NEW q \in ToSet(t) PROVE ~RingIsEmpty(q) /\ (q.offset # 0 => IsCd[m]) /\ Len(q.layers) = Layers[m] + 1
  <2>1. PICK r \in ToSet(rs) : q.offset = r.offset /\ q.comment = r.comment /\ q.layers = MediaLayers(r, m)
      BY <1>2 DEF IsStored
  <2>2. PICK p \in ToSet(new) : Alike(r, p)
      BY <1>1
  <2>3. p \in Rings /\ r \in Rings /\ IsFit(p, m) /\ Layers[m] + 1 \in Nat
      BY <1>5, ReferenceAssumption
  <2>4. /\ Len(q.layers) = Layers[m] + 1 /\ DOMAIN q.layers = 1 .. Layers[m] + 1
        /\ \A i \in 1 .. Layers[m] + 1 : q.layers[i] = LayerAt(r, i)
      BY <2>1, <2>3, MediaLayersAre
  <2>5. q.offset = p.offset /\ q.comment = p.comment
      BY <2>1, <2>2 DEF Alike
  <2>6. ASSUME RingIsEmpty(q) PROVE FALSE
    <3>1. q.offset = 0 /\ q.comment = 0 /\ \A i \in 1 .. Layers[m] + 1 : LayerAt(r, i) = EmptyLayer
        BY <2>4, <2>6 DEF RingIsEmpty
    <3>2. DOMAIN p.layers = 1 .. Len(p.layers) /\ Len(p.layers) \in Nat /\ Len(p.layers) <= Layers[m] + 1
        BY <2>3, RingLayers DEF IsFit, IsList
    <3>3. ASSUME NEW i \in DOMAIN p.layers PROVE p.layers[i] = EmptyLayer
      <4>1. i \in 1 .. Layers[m] + 1 /\ i \in Nat \ {0}
          BY <2>3, <3>2
      <4>2. LayerAt(p, i) = EmptyLayer
          BY <2>2, <3>1, <4>1 DEF Alike
      <4> QED BY <4>2 DEF LayerAt
    <3>4. RingIsEmpty(p)
        BY <2>5, <3>1, <3>3 DEF RingIsEmpty
    <3> QED BY <2>3, <3>4 DEF IsFit
  <2> QED BY <2>3, <2>4, <2>5, <2>6 DEF IsFit
<1>8. AreStored(t, new, m)
  <2>1. RingList(t) /\ HasIds(t) /\ Len(t) = Len(new) /\ \A q \in ToSet(t) : q.id \in Nat /\ q.id # NoId
      BY <1>1, <1>2 DEF IsStored
  <2>2. EntriesOf(t) = EntriesOf(StoredRings(new, m, 0))
      BY <1>4, <1>6
  <2> QED BY <1>7, <2>1, <2>2 DEF AreStored
<1>9. \A q \in ToSet(t) : q.id < nextId + NewRings(rs)
    BY <1>2 DEF IsStored
<1> QED BY <1>3, <1>8, <1>9 DEF t

\* What is written has the fields of the form, and is a content.
Written(y, x, form, nextId) ==
    /\ IsContent(y) /\ AsPosted(y, form)
    /\ NewRings(x.rings) \in Nat /\ \A q \in ToSet(y.rings) : q.id \in Nat /\ q.id < nextId + NewRings(x.rings)

LEMMA WrittenIs ==
    ASSUME NEW form, IsForm(form), Chosen(form), form.title # Null, form.dat # Null,
           NEW base, NEW x, IsRestored(x, NormalForm(form), base),
           NEW nextId \in Nat, \A i \in RingIds(base.rings) : i < nextId, NEW old, old.ranges \in Seq(Nat)
    PROVE  Written(UpdateDisc(old, x, nextId), x, form, nextId)
<1> DEFINE n == NormalForm(form)
           y == UpdateDisc(old, x, nextId)
           m == form.media
           s == form.system
<1>1. IsNormal(n, form) /\ m \in Media
    BY NormalIs DEF Chosen
<1> HIDE DEF n
<1>2. /\ HasTypes(x) /\ AreEntriesOf(x.rings, n.rings, base.rings)
      /\ \A f \in SetFields : x[f] = n[f]
      /\ \A f \in ScalarFields \ {"status", "ranges", "breaks"} : x[f] = n[f]
      /\ \A f \in ListFields : x[f] = n[f] \/ (x[f] \in {Null, <<>>} /\ n[f] \in {Null, <<>>})
    BY DEF IsRestored, n
<1>3. /\ x.system = n.system /\ x.media = n.media /\ x.title = n.title /\ x.version = n.version
      /\ x.comments = n.comments /\ x.errors = n.errors /\ x.edc = n.edc /\ x.bca = n.bca /\ x.dat = n.dat
      /\ x.serial = n.serial /\ x.mastering = n.mastering
      /\ (x.ranges = n.ranges \/ (x.ranges \in {Null, <<>>} /\ n.ranges \in {Null, <<>>}))
      /\ (x.breaks = n.breaks \/ (x.breaks \in {Null, <<>>} /\ n.breaks \in {Null, <<>>}))
    BY <1>2 DEF ScalarFields, SetFields, ListFields
<1>4. IsRecord(x) /\ IsRecord(n) /\ HasTypes(n)
    BY <1>1, <1>2, FormFields DEF IsNormal, IsForm
<1>5. /\ IsRecord(y) /\ Same(y, x, {"system", "media", "title", "version", "comments", "errors", "bca", "dat", "serial"})
      /\ y.ranges = (IF x.ranges = Null THEN old.ranges ELSE x.ranges)
      /\ y.breaks = (IF x.breaks = <<>> THEN Null ELSE x.breaks)
      /\ y.edc = (IF x.edc = Null THEN FALSE ELSE x.edc)
      /\ y.mastering = (IF AllowsMastering[x.media] THEN x.mastering ELSE {})
      /\ y.status = (IF x.status = Null THEN "Unverified" ELSE x.status)
      /\ y.rings = StoredRings(x.rings, x.media, nextId)
    BY <1>4, UpdatedIs
<1> HIDE DEF y
<1>6. /\ y.system = n.system /\ y.media = n.media /\ y.title = n.title /\ y.version = n.version
      /\ y.comments = n.comments /\ y.errors = n.errors /\ y.bca = n.bca /\ y.dat = n.dat /\ y.serial = n.serial
    BY <1>3, <1>5 DEF Same
<1>7. /\ n.system = s /\ n.media = m /\ n.title = form.title /\ n.dat = form.dat
      /\ n.system \in Systems /\ n.media \in MediaOf[n.system] /\ n.edc \in BOOLEAN /\ n.ranges \in Seq(Nat) /\ n.breaks \in Seq(Nat)
      /\ n.mastering = IF AllowsMastering[m] THEN form.mastering ELSE {}
    BY <1>1 DEF IsNormal, Same
<1>8. y.edc = n.edc /\ y.edc # Null
    BY <1>3, <1>5, <1>7, NullIsNone
<1>9. y.mastering = n.mastering
    BY <1>3, <1>5, <1>7
<1>10. /\ n.title \in Texts \cup {Null} /\ n.version \in Texts \cup {Null} /\ n.dat \in Texts \cup {Null}
       /\ n.comments \in Seq(Texts) \cup {Null} /\ n.errors \in Nat \cup {Null}
       /\ n.bca \in Bcas \cup {Null} /\ n.serial \subseteq Texts /\ n.mastering \subseteq Texts /\ RingList(n.rings) /\ HasIds(n.rings)
    BY <1>1, <1>4, FormFields DEF IsNormal, IsForm
<1>11. x.status \in Statuses \cup {Null} /\ x.ranges \in Seq(Nat) \cup {Null} /\ x.breaks \in Seq(Nat) \cup {Null}
    BY <1>2, FormFields
<1>12. y.status \in Statuses /\ y.status # Null
  <2>1. "Unverified" \in Statuses
      BY DEF Statuses
  <2> QED BY <1>5, <1>11, <2>1, NullIsNone
<1>13. y.ranges \in Seq(Nat) /\ y.ranges # Null
    BY <1>5, <1>11, NullIsNone
<1>14. /\ y.breaks \in Seq(Nat) \cup {Null}
       /\ y.breaks # Null => y.breaks = n.breaks /\ y.breaks # <<>>
       /\ y.breaks = Null => n.breaks = <<>>
    BY <1>3, <1>5, <1>7, <1>11, NullIsNone
<1>15. /\ AreStored(y.rings, n.rings, m)
       /\ NewRings(x.rings) \in Nat /\ \A q \in ToSet(y.rings) : q.id < nextId + NewRings(x.rings)
  <2>1. RingList(n.rings) /\ \A r \in ToSet(n.rings) : IsFit(r, m)
    <3>1. RingList(form.rings)
        BY FormFields DEF IsForm
    <3>2. n.rings = FilteredRings(form.rings, m)
        BY <1>1 DEF IsNormal
    <3> QED BY <1>1, <3>1, <3>2, FilteredRingsAre
  <2> DEFINE rs == x.rings
             new == n.rings
             o == base.rings
  <2>2. AreEntriesOf(rs, new, o) /\ RingList(new) /\ (\A r \in ToSet(new) : IsFit(r, m)) /\ \A i \in RingIds(o) : i < nextId
      BY <1>2, <2>1
  <2>3. y.rings = StoredRings(rs, m, nextId)
      BY <1>3, <1>5, <1>7
  <2> HIDE DEF rs, new, o, m
  <2>4. LET t == StoredRings(rs, m, nextId) IN
           /\ AreStored(t, new, m)
           /\ NewRings(rs) \in Nat /\ \A q \in ToSet(t) : q.id < nextId + NewRings(rs)
      BY <1>1, <2>2, EntriesStored
  <2> QED BY <2>3, <2>4 DEF rs, new, m
<1>16. HasTypes(y)
  <2>1. RingList(y.rings)
      BY <1>15 DEF AreStored
  <2>2. y.system \in Systems \cup {Null} /\ y.media \in Media \cup {Null} /\ y.edc \in BOOLEAN \cup {Null}
      BY <1>1, <1>6, <1>7, <1>8
  <2> QED BY <1>5, <1>6, <1>9, <1>10, <1>12, <1>13, <1>14, <2>1, <2>2, FieldsFit
<1>17. IsContent(y)
  <2>1. /\ y["system"] \in Systems /\ y["media"] \in MediaOf[y["system"]]
        /\ Null \notin {y["title"], y["dat"], y["status"], y["edc"], y["ranges"]}
      BY <1>6, <1>7, <1>8, <1>12, <1>13
  <2>2. y["comments"] # <<>>
    <3>1. n.comments = IF form.comments = <<>> THEN Null ELSE form.comments
        BY <1>1 DEF IsNormal
    <3>2. <<>> # Null
      <4>1. <<>> \in Seq(Nat)
          OBVIOUS
      <4> QED BY <4>1, NullIsNone
    <3> QED BY <1>6, <3>1, <3>2
  <2>3. /\ n.version # Null => "version" \in Has[s]
        /\ n.errors # Null => "errors" \in Has[s] /\ IsCd[m] /\ n.errors <= MaxInt
        /\ n.edc = TRUE => "edc" \in Has[s]
        /\ n.bca # Null => "bca" \in Has[s]
        /\ n.mastering # {} => AllowsMastering[m]
        /\ Len(n.breaks) < Layers[m] /\ \A i \in DOMAIN n.breaks : n.breaks[i] <= MaxInt
      BY <1>1, <1>7 DEF IsNormal
  <2>4. /\ y["version"] # Null => "version" \in Has[y["system"]]
        /\ y["errors"] # Null => "errors" \in Has[y["system"]] /\ IsCd[y["media"]] /\ y["errors"] <= MaxInt
        /\ y["edc"] = TRUE => "edc" \in Has[y["system"]]
        /\ y["bca"] # Null => "bca" \in Has[y["system"]]
        /\ y["mastering"] # {} => AllowsMastering[y["media"]]
      BY <1>6, <1>7, <1>8, <1>9, <2>3
  <2>5. y["breaks"] # Null => /\ Len(y["breaks"]) \in 1..Layers[y["media"]] - 1
                              /\ \A i \in DOMAIN y["breaks"] : y["breaks"][i] <= MaxInt
    <3> SUFFICES ASSUME y.breaks # Null
                 PROVE  Len(n.breaks) \in 1 .. Layers[m] - 1
        BY <1>6, <1>7, <1>14, <2>3
    <3>1. n.breaks # <<>> /\ n.breaks \in Seq(Nat)
        BY <1>7, <1>14
    <3>2. Len(n.breaks) \in Nat /\ Len(n.breaks) # 0
        BY <3>1
    <3>3. Layers[m] \in Nat /\ Len(n.breaks) < Layers[m]
        BY <1>1, <2>3, ReferenceAssumption
    <3> QED BY <3>2, <3>3
  <2>6. HasIds(y["rings"])
      BY <1>15 DEF AreStored
  <2>7. \A k \in DOMAIN y["rings"] : LET r == y["rings"][k] IN
           /\ r.id # NoId /\ ~RingIsEmpty(r)
           /\ r.offset # 0 => IsCd[y["media"]]
           /\ Len(r.layers) = Layers[y["media"]] + 1
    <3> SUFFICES ASSUME NEW k \in DOMAIN y.rings
                 PROVE  LET r == y.rings[k] IN
                        r.id # NoId /\ ~RingIsEmpty(r) /\ (r.offset # 0 => IsCd[m]) /\ Len(r.layers) = Layers[m] + 1
        BY <1>6, <1>7
    <3>1. y.rings[k] \in ToSet(y.rings)
        BY DEF ToSet
    <3> QED BY <1>15, <3>1 DEF AreStored
  <2> QED BY <1>16, <2>1, <2>2, <2>4, <2>5, <2>6, <2>7 DEF IsContent
<1>18. AsPosted(y, form)
  <2> DEFINE z == FormOf(y)
  <2>1. /\ Same(z, y, Keys \ {"breaks", "edc"})
        /\ z.breaks = IF y.breaks = Null THEN <<>> ELSE y.breaks
        /\ z.edc = IF y.edc = Null THEN FALSE ELSE y.edc
      BY <1>5, FormOfIs
  <2> HIDE DEF z
  <2>2. z.breaks = n.breaks /\ z.edc = n.edc
      BY <1>8, <1>14, <2>1
  <2>3. /\ z.system = n.system /\ z.media = n.media /\ z.title = n.title /\ z.version = n.version
        /\ z.comments = n.comments /\ z.errors = n.errors /\ z.bca = n.bca /\ z.dat = n.dat /\ z.serial = n.serial
        /\ z.mastering = n.mastering /\ z.ranges = y.ranges /\ z.rings = y.rings
      BY <1>6, <1>9, <2>1 DEF Same, Keys, ScalarFields, SetFields
  <2>4. \A f \in Keys \ {"rings", "status", "ranges"} : z[f] = n[f]
      BY <2>2, <2>3 DEF Keys, ScalarFields, SetFields
  <2>5. n.ranges # <<>> => z.ranges = n.ranges
    <3>1. n.ranges # Null
        BY <1>7, NullIsNone
    <3>2. n.ranges # <<>> => x.ranges = n.ranges
        BY <1>3, <3>1
    <3> QED BY <1>5, <2>3, <3>1, <3>2
  <2>6. EntriesOf(z.rings) = EntriesOf(StoredRings(n.rings, n.media, 0)) /\ Len(z.rings) = Len(n.rings)
      BY <1>7, <1>15, <2>3 DEF AreStored
  <2> QED BY <2>4, <2>5, <2>6 DEF AsPosted, NormalForm, n, z
<1>19. \A q \in ToSet(y.rings) : q.id \in Nat
    BY <1>15 DEF AreStored
<1> QED BY <1>15, <1>17, <1>18, <1>19 DEF Written, y

-----------------------------------------------------------------------------
(* The types of what the pages and the posts hold.                         *)

LEMMA ContentIs ==
    ASSUME NEW x, IsContent(x)
    PROVE  /\ HasTypes(x) /\ IsRecord(x) /\ IsBase(x) /\ x.ranges \in Seq(Nat) /\ x.edc \in BOOLEAN
           /\ x.system \in Systems /\ x.media \in Media /\ x.media \in MediaOf[x.system]
           /\ x.status \in Statuses /\ x.title # Null /\ x.dat # Null
<1>1. HasTypes(x) /\ HasIds(x.rings) /\ \A k \in DOMAIN x.rings : x.rings[k].id # NoId
    BY DEF IsContent
<1>2. /\ x.ranges # Null /\ x.edc # Null /\ x.status # Null /\ x.title # Null /\ x.dat # Null
      /\ x.system \in Systems /\ x.media \in MediaOf[x.system]
    BY DEF IsContent
<1>3. /\ x.ranges \in Seq(Nat) \cup {Null} /\ x.edc \in BOOLEAN \cup {Null} /\ x.status \in Statuses \cup {Null}
      /\ IsRecord(x)
    BY <1>1, FormFields
<1>4. x.media \in Media
    BY <1>2, ReferenceAssumption
<1> QED BY <1>1, <1>2, <1>3, <1>4 DEF IsBase

LEMMA FormOfTypes ==
    ASSUME NEW x, HasTypes(x), HasIds(x.rings)
    PROVE  IsForm(FormOf(x))
<1> DEFINE y == FormOf(x)
<1>1. IsRecord(x) /\ \A f \in Keys : Fits(f, x[f])
    BY TypesAre
<1>2. /\ IsRecord(y) /\ Same(y, x, Keys \ {"breaks", "edc"})
      /\ y.breaks = (IF x.breaks = Null THEN <<>> ELSE x.breaks)
      /\ y.edc = (IF x.edc = Null THEN FALSE ELSE x.edc)
    BY <1>1, FormOfIs
<1> HIDE DEF y
<1>3. x.breaks \in Seq(Nat) \cup {Null} /\ x.edc \in BOOLEAN \cup {Null} /\ <<>> \in Seq(Nat)
    BY FormFields
<1>4. y.breaks \in Seq(Nat) /\ y.edc \in BOOLEAN
    BY <1>2, <1>3
<1>5. Fits("breaks", y.breaks) /\ Fits("edc", y.edc)
    BY <1>4 DEF Fits, ListFields, SetFields
<1>6. HasTypes(y)
    BY <1>1, <1>2, <1>5, TypesAre DEF Same
<1>7. y.rings = x.rings
    BY <1>2 DEF Same, Keys, ScalarFields
<1>8. y.breaks # Null
    BY <1>4, NullIsNone
<1> QED BY <1>6, <1>7, <1>8 DEF IsForm, y

\* A form with another value of a field.
LEMMA FormWith ==
    ASSUME NEW form, IsForm(form), NEW f \in Keys \ {"rings"}, NEW v, Fits(f, v), f = "breaks" => v # Null
    PROVE  IsForm([form EXCEPT ![f] = v])
<1> DEFINE y == [form EXCEPT ![f] = v]
<1>1. HasTypes(y)
    BY WithField DEF IsForm
<1>2. form = [g \in Keys |-> form[g]] /\ DOMAIN form = Keys
    BY TypesAre DEF IsForm, IsRecord
<1>3. y.rings = form.rings /\ y.breaks = IF f = "breaks" THEN v ELSE form.breaks
    BY <1>2 DEF Keys, ScalarFields
<1> HIDE DEF y
<1>4. IsForm(y)
    BY <1>1, <1>3 DEF IsForm
<1> QED BY <1>4 DEF y

LEMMA FormWithRings ==
    ASSUME NEW form, IsForm(form), NEW rs, RingList(rs), HasIds(rs)
    PROVE  IsForm([form EXCEPT !.rings = rs])
<1> DEFINE y == [form EXCEPT !.rings = rs]
<1>1. Fits("rings", rs) /\ "rings" \in Keys
    BY DEF Fits, Keys, ListFields, SetFields
<1>2. HasTypes(y)
    BY <1>1, WithField DEF IsForm
<1>3. form = [g \in Keys |-> form[g]] /\ DOMAIN form = Keys
    BY TypesAre DEF IsForm, IsRecord
<1>4. y.rings = rs /\ y.breaks = form.breaks
    BY <1>3 DEF Keys, ScalarFields
<1> HIDE DEF y
<1>5. IsForm(y)
    BY <1>2, <1>4 DEF IsForm
<1> QED BY <1>5 DEF y

LEMMA SelectedRings ==
    ASSUME NEW rs, RingList(rs), HasIds(rs), NEW K \in SUBSET DOMAIN rs
    PROVE  RingList(Select(rs, K)) /\ HasIds(Select(rs, K))
<1> DEFINE t == Select(rs, K)
           order == Ascending(K)
           n == Cardinality(K)
<1>1. IsList(rs) /\ DOMAIN rs = 1 .. Len(rs) /\ Len(rs) \in Nat
    BY DEF RingList, IsList
<1>2. /\ IsList(t) /\ Len(t) = n /\ n \in Nat /\ order \in [1 .. n -> K]
      /\ \A i \in 1 .. n : t[i] = rs[order[i]]
      /\ \A i, j \in 1 .. n : i < j <=> order[i] < order[j]
    BY <1>1, Selected
<1> HIDE DEF t, order, n
<1>3. DOMAIN t = 1 .. n
    BY <1>2 DEF IsList
<1>4. RingList(t)
    BY <1>2, <1>3 DEF RingList
<1>5. HasIds(t)
  <2> SUFFICES ASSUME NEW i \in 1 .. n, NEW j \in 1 .. n, t[i].id = t[j].id, t[i].id # NoId
               PROVE  i = j
      BY <1>3 DEF HasIds
  <2>1. order[i] = order[j]
      BY <1>2 DEF HasIds
  <2>2. order[i] \in Nat
      BY <1>1, <1>2
  <2>3. ~(i < j) /\ ~(j < i)
      BY <1>2, <2>1, <2>2
  <2> QED BY <1>2, <2>3
<1> QED BY <1>4, <1>5 DEF t

LEMMA AppendedRings ==
    ASSUME NEW rs, RingList(rs), HasIds(rs), NEW r \in Rings, r.id = NoId
    PROVE  RingList(Append(rs, r)) /\ HasIds(Append(rs, r))
<1> DEFINE t == Append(rs, r)
<1>1. IsList(rs) /\ \A i \in DOMAIN rs : rs[i] \in Rings
    BY DEF RingList
<1>2. /\ IsList(t) /\ Len(t) = Len(rs) + 1 /\ (\A i \in DOMAIN t : t[i] \in Rings)
      /\ (\A i \in DOMAIN rs : t[i] = rs[i]) /\ t[Len(rs) + 1] = r
    BY <1>1, Appended
<1> HIDE DEF t
<1>3. DOMAIN t = 1 .. Len(rs) + 1 /\ DOMAIN rs = 1 .. Len(rs) /\ Len(rs) \in Nat
    BY <1>1, <1>2 DEF IsList
<1>4. HasIds(t)
  <2> SUFFICES ASSUME NEW j \in DOMAIN t, NEW k \in DOMAIN t, t[j].id = t[k].id, t[j].id # NoId
               PROVE  j = k
      BY DEF HasIds
  <2>1. j # Len(rs) + 1 /\ k # Len(rs) + 1
      BY <1>2
  <2>2. j \in DOMAIN rs /\ k \in DOMAIN rs
      BY <1>3, <2>1
  <2> QED BY <1>2, <2>2 DEF HasIds
<1> QED BY <1>2, <1>4 DEF RingList, t

LEMMA StrippedTypes ==
    ASSUME NEW x, x \in Seq(Texts) \cup {Null}
    PROVE  WithoutDelimiter(x) \in Seq(Texts) \cup {Null}
<1>1. CASE x = Null
    BY <1>1 DEF WithoutDelimiter
<1>2. CASE x # Null
  <2> DEFINE K == {i \in DOMAIN x : x[i] # Delimiter}
  <2>1. K \subseteq DOMAIN x /\ x \in Seq(Texts)
      BY <1>2
  <2>2. Select(x, K) \in Seq(Texts)
    <3> HIDE DEF K
    <3> QED BY <2>1, SelectedFrom
  <2> QED BY <1>2, <2>2 DEF WithoutDelimiter
<1> QED BY <1>1, <1>2

LEMMA RetouchedTypes ==
    ASSUME NEW form, IsForm(form), NEW new \in Retouched(form)
    PROVE  IsForm(new)
<1>1. IsRecord(form) /\ RingList(form.rings) /\ HasIds(form.rings) /\ form.comments \in Seq(Texts) \cup {Null}
    BY FormFields DEF IsForm
<1>2. ASSUME NEW t \in Typed, new = [form EXCEPT ![t[1]] = t[2]] PROVE IsForm(new)
  <2> DEFINE f == t[1]
             v == t[2]
             x == [EmptyForm EXCEPT ![f] = v]
  <2>1. f \in Keys \ {"rings"} /\ IsForm(x)
      BY FormsAssumption
  <2>2. DOMAIN EmptyForm = Keys
      BY DEF EmptyForm, Blank
  <2>3. x[f] = v
      BY <2>1, <2>2
  <2>4. (\A g \in Keys : Fits(g, x[g])) /\ x.breaks # Null
      BY <2>1, TypesAre DEF IsForm
  <2> HIDE DEF x
  <2>5. Fits(f, v) /\ (f = "breaks" => v # Null)
      BY <2>1, <2>3, <2>4
  <2> HIDE DEF f, v
  <2>6. IsForm([form EXCEPT ![f] = v])
      BY <2>1, <2>5, FormWith
  <2> QED BY <1>2, <2>6 DEF f, v
<1>3. ASSUME NEW r \in TypedRings, new = [form EXCEPT !.rings = Append(@, r)] PROVE IsForm(new)
  <2> DEFINE rs == Append(form.rings, r)
  <2>1. r \in Rings /\ r.id = NoId
      BY FormsAssumption
  <2>2. RingList(rs) /\ HasIds(rs)
      BY <1>1, <2>1, AppendedRings
  <2>3. new = [form EXCEPT !.rings = rs]
      BY <1>3
  <2> HIDE DEF rs
  <2> QED BY <2>2, <2>3, FormWithRings
<1>4. ASSUME NEW k \in DOMAIN form.rings, new = [form EXCEPT !.rings = Select(@, DOMAIN @ \ {k})] PROVE IsForm(new)
  <2> DEFINE K == DOMAIN form.rings \ {k}
             rs == Select(form.rings, K)
  <2>1. K \in SUBSET DOMAIN form.rings
      OBVIOUS
  <2>2. RingList(rs) /\ HasIds(rs)
    <3> HIDE DEF K
    <3> QED BY <1>1, <2>1, SelectedRings
  <2>3. new = [form EXCEPT !.rings = rs]
      BY <1>4
  <2> HIDE DEF rs
  <2> QED BY <2>2, <2>3, FormWithRings
<1>5. ASSUME new = [form EXCEPT !.comments = WithoutDelimiter(@)] PROVE IsForm(new)
  <2> DEFINE v == WithoutDelimiter(form.comments)
             f == "comments"
  <2>1. v \in Seq(Texts) \cup {Null}
      BY <1>1, StrippedTypes
  <2>2. Fits(f, v) /\ f \in Keys \ {"rings"} /\ f # "breaks"
      BY <2>1 DEF Fits, ListFields, SetFields, Keys, ScalarFields
  <2>3. new = [form EXCEPT ![f] = v]
      BY <1>5
  <2> HIDE DEF v, f
  <2> QED BY <2>2, <2>3, FormWith
<1> QED BY <1>2, <1>3, <1>4, <1>5 DEF Retouched

LEMMA ComposedTypes ==
    ASSUME NEW old \in Seq(Texts) \cup {Null}, NEW new \in Seq(Texts) \cup {Null}
    PROVE  ComposedComments(old, new) \in Seq(Texts)
<1> DEFINE a == IF old = Null THEN <<>> ELSE old
           b == <<Delimiter>>
           c == IF new = Null THEN <<>> ELSE new
<1>1. Delimiter \in Texts
    BY ReferenceAssumption
<1>2. a \in Seq(Texts) /\ b \in Seq(Texts) /\ c \in Seq(Texts)
  <2>1. <<>> \in Seq(Texts)
      OBVIOUS
  <2> QED BY <1>1, <2>1
<1>3. ComposedComments(old, new) = a \o b \o c
    BY DEF ComposedComments
<1> HIDE DEF a, b, c
<1>4. \A s, t \in Seq(Texts) : s \o t \in Seq(Texts)
  <2> SUFFICES ASSUME NEW s \in Seq(Texts), NEW t \in Seq(Texts) PROVE s \o t \in Seq(Texts)
      OBVIOUS
  <2>1. IsList(s) /\ IsList(t) /\ (\A i \in DOMAIN s : s[i] \in Texts) /\ (\A i \in DOMAIN t : t[i] \in Texts)
      BY InSeq
  <2>2. IsJoin(s \o t, s, t)
      BY <2>1, Joined
  <2> DEFINE u == s \o t
  <2> HIDE DEF u
  <2>3. IsList(u) /\ ToSet(u) = ToSet(s) \cup ToSet(t)
      BY <2>1, <2>2, JoinedOf DEF IsJoin, u
  <2>4. \A x \in ToSet(u) : x \in Texts
      BY <2>1, <2>3 DEF ToSet
  <2>5. \A i \in DOMAIN u : u[i] \in Texts
      BY <2>4 DEF ToSet
  <2>6. u \in Seq(Texts)
      BY <2>3, <2>5, InSeq
  <2> QED BY <2>6 DEF u
<1>5. a \o b \in Seq(Texts)
    BY <1>2, <1>4
<1>6. a \o b \o c \in Seq(Texts)
    BY <1>2, <1>4, <1>5
<1> QED BY <1>3, <1>6

LEMMA ReviewFormTypes ==
    ASSUME NEW sub, IsChange(sub.changes), sub.target => IsContent(disc)
    PROVE  IsForm(ReviewForm(sub))
<1> DEFINE base == Base(sub)
           yes == TRUE
           x == Resolve(base, sub.changes, yes)
           new == FormOf(x)
           y == ReviewForm(sub)
           old(f) == sub.target /\ sub.type = "Disc" /\ f \in {"system", "media", "title"}
<1>1. IsBase(base)
    BY ContentIs, BlankBase DEF Base
<1> HIDE DEF base
<1>2. HasTypes(x) /\ HasIds(x.rings)
  <2> DEFINE ch == sub.changes
  <2> HIDE DEF yes, ch
  <2>1. IsResolved(Resolve(base, ch, yes), base, ch, yes)
      BY <1>1, ResolveIs DEF ch
  <2> QED BY <2>1 DEF IsResolved, ch
<1> HIDE DEF x
<1>3. IsForm(new)
    BY <1>2, FormOfTypes
<1> HIDE DEF new
<1>4. HasTypes(base) /\ \A f \in Keys : Fits(f, base[f]) /\ Fits(f, new[f])
    BY <1>1, <1>3, TypesAre DEF IsBase, IsForm
<1>5. y = [f \in Keys |->
            IF f = "comments" THEN (IF sub.target /\ base.comments # new.comments
                                    THEN ComposedComments(base.comments, new.comments)
                                    ELSE new.comments)
            ELSE IF f = "status" /\ new.status = Null THEN "Unverified"
            ELSE IF old(f) THEN base[f] ELSE new[f]]
    BY DEF ReviewForm, base, new, x, yes
<1> HIDE DEF y
<1>6. IsRecord(y)
    BY <1>5 DEF IsRecord
<1>7. y.breaks = new.breaks /\ y.rings = new.rings
    BY <1>5 DEF Keys, ScalarFields
<1>8. ASSUME NEW f \in Keys PROVE Fits(f, y[f])
  <2>1. CASE f = "comments"
    <3>1. base.comments \in Seq(Texts) \cup {Null} /\ new.comments \in Seq(Texts) \cup {Null}
        BY <1>3, <1>4, FormFields DEF IsForm
    <3>2. ComposedComments(base.comments, new.comments) \in Seq(Texts)
      <4> DEFINE a == base.comments
                 b == new.comments
      <4> HIDE DEF a, b
      <4> QED BY <3>1, ComposedTypes DEF a, b
    <3>3. y.comments \in Seq(Texts) \cup {Null}
        BY <1>5, <3>1, <3>2 DEF Keys, ScalarFields
    <3> QED BY <2>1, <3>3 DEF Fits, ListFields, SetFields
  <2>2. CASE f = "status"
    <3>1. y.status \in {"Unverified", new.status, base.status}
        BY <1>5 DEF Keys, ScalarFields
    <3>2. Fits("status", "Unverified")
        BY DEF Fits, Statuses, ListFields, SetFields
    <3>3. Fits("status", new.status) /\ Fits("status", base.status)
        BY <1>4 DEF Keys, ScalarFields
    <3> QED BY <2>2, <3>1, <3>2, <3>3
  <2>3. CASE f # "comments" /\ f # "status"
    <3>1. y[f] = IF old(f) THEN base[f] ELSE new[f]
        BY <1>5, <2>3
    <3> QED BY <1>4, <3>1
  <2> QED BY <2>1, <2>2, <2>3
<1>9. HasTypes(y)
    BY <1>6, <1>8, TypesAre
<1> QED BY <1>3, <1>7, <1>9 DEF IsForm, y

LEMMA DraftFormTypes ==
    ASSUME NEW sub, IsChange(sub.changes), sub.target => IsContent(disc)
    PROVE  IsForm(DraftForm(sub))
<1> DEFINE yes == TRUE
           own == Resolve(Blank, sub.changes, yes)
           y == DraftForm(sub)
<1>1. HasTypes(own) /\ HasIds(own.rings)
  <2> DEFINE ch == sub.changes
  <2> HIDE DEF yes, ch
  <2>1. IsResolved(Resolve(Blank, ch, yes), Blank, ch, yes)
      BY BlankBase, ResolveIs DEF ch
  <2> QED BY <2>1 DEF IsResolved, ch
<1>2. y = [own EXCEPT !.breaks = IF @ = Null THEN <<>> ELSE @,
                      !.status = "Unverified",
                      !.system = IF sub.target THEN disc.system ELSE @,
                      !.media = IF sub.target THEN disc.media ELSE @,
                      !.dat = IF sub.target THEN disc.dat ELSE @]
    BY DEF DraftForm
<1> HIDE DEF own, y
<1>3. own = [f \in Keys |-> own[f]] /\ DOMAIN own = Keys /\ \A f \in Keys : Fits(f, own[f])
    BY <1>1, TypesAre DEF IsRecord
<1>4. /\ IsRecord(y)
      /\ y.breaks = (IF own.breaks = Null THEN <<>> ELSE own.breaks)
      /\ y.status = "Unverified"
      /\ y.system \in {own.system, IF sub.target THEN disc.system ELSE own.system}
      /\ y.media \in {own.media, IF sub.target THEN disc.media ELSE own.media}
      /\ y.dat \in {own.dat, IF sub.target THEN disc.dat ELSE own.dat}
      /\ Same(y, own, Keys \ {"breaks", "status", "system", "media", "dat"})
    BY <1>2, <1>3 DEF IsRecord, Same, Keys, ScalarFields, SetFields
<1>5. sub.target => disc.system \in Systems /\ disc.media \in Media /\ disc.dat \in Texts \cup {Null}
    BY ContentIs, FormFields
<1>6. y.breaks \in Seq(Nat)
  <2>1. own.breaks \in Seq(Nat) \cup {Null} /\ <<>> \in Seq(Nat)
      BY <1>1, FormFields
  <2> QED BY <1>4, <2>1
<1>7. ASSUME NEW f \in Keys PROVE Fits(f, y[f])
  <2>1. CASE f = "breaks"
      BY <1>6, <2>1 DEF Fits, ListFields, SetFields
  <2>2. CASE f = "status"
      BY <1>4, <2>2 DEF Fits, ListFields, SetFields, Statuses
  <2>3. CASE f \in {"system", "media", "dat"}
    <3>1. own.system \in Systems \cup {Null} /\ own.media \in Media \cup {Null} /\ own.dat \in Texts \cup {Null}
        BY <1>1, FormFields
    <3>2. y.system \in Systems \cup {Null} /\ y.media \in Media \cup {Null} /\ y.dat \in Texts \cup {Null}
        BY <1>4, <1>5, <3>1
    <3> QED BY <2>3, <3>2 DEF Fits, ListFields, SetFields
  <2>4. CASE f \notin {"breaks", "status", "system", "media", "dat"}
      BY <1>3, <1>4, <2>4 DEF Same
  <2> QED BY <2>1, <2>2, <2>3, <2>4
<1>8. HasTypes(y)
    BY <1>4, <1>7, TypesAre
<1>9. y.rings = own.rings /\ y.breaks # Null
    BY <1>4, <1>6, NullIsNone DEF Same, Keys, ScalarFields
<1> QED BY <1>1, <1>8, <1>9 DEF IsForm, y

\* The form that Add Disc makes its changes from.
AddForm(form, match) ==
    LET media == IF match = Null THEN form.media ELSE match
        reads == media \in Media /\ AllowsMastering[media] /\ form.bca # Null
    IN  [form EXCEPT !.media = media, !.bca = IF reads /\ @.bytes # WholeBca THEN Null ELSE @]

LEMMA AddFormTypes ==
    ASSUME NEW form, IsForm(form), NEW match \in Media \cup {Null}
    PROVE  IsForm(AddForm(form, match))
<1> DEFINE media == IF match = Null THEN form.media ELSE match
           reads == media \in Media /\ AllowsMastering[media] /\ form.bca # Null
           bca == IF reads /\ form.bca.bytes # WholeBca THEN Null ELSE form.bca
           f == "media"
           g == "bca"
           x == [form EXCEPT ![f] = media]
           y == [x EXCEPT ![g] = bca]
<1>1. form = [h \in Keys |-> form[h]] /\ DOMAIN form = Keys /\ form.media \in Media \cup {Null} /\ form.bca \in Bcas \cup {Null}
    BY FormFields DEF IsForm, IsRecord
<1>2. media \in Media \cup {Null} /\ bca \in Bcas \cup {Null}
    BY <1>1
<1>3. Fits(f, media) /\ Fits(g, bca) /\ f \in Keys \ {"rings"} /\ g \in Keys \ {"rings"} /\ f # "breaks" /\ g # "breaks"
    BY <1>2 DEF Fits, ListFields, SetFields, Keys, ScalarFields
<1>4. AddForm(form, match) = y
    BY <1>1 DEF AddForm, Keys, ScalarFields
<1> HIDE DEF f, g, media, bca
<1>5. IsForm(x)
    BY <1>3, FormWith
<1> HIDE DEF x
<1>6. IsForm(y)
    BY <1>3, <1>5, FormWith
<1> QED BY <1>4, <1>6

\* The change set that says nothing but f.
LEMMA NoChangesAre ==
    /\ IsChange(NoChanges) /\ NoChanges.rings = <<>>
    /\ \A f \in ScalarFields \cup SetFields : NoChanges[f] = Absent
<1>1. IsRecord(NoChanges)
    BY DEF IsRecord, NoChanges
<1>2. NoChanges.rings = <<>> /\ \A f \in ScalarFields \cup SetFields : NoChanges[f] = Absent
    BY KindsOfFields DEF NoChanges
<1>3. ChangeList(<<>>)
    BY DEF ChangeList, IsList
<1> QED BY <1>1, <1>2, <1>3 DEF IsChange

\* The form whose history an addition of a new disc is.
Derived(form) ==
    [AddForm(form, Null) EXCEPT
        !.mastering = IF form.bca = Null THEN {}
                      ELSE IF /\ form.media \in Media /\ AllowsMastering[form.media]
                              /\ form.bca.bytes >= ShortestBca
                           THEN {form.bca.tail} ELSE @]

\* The fields of an addition.
Derives(form, match) ==
    LET media == IF match = Null THEN form.media ELSE match
    IN  media \in Media /\ AllowsMastering[media] /\ form.bca # Null /\ form.bca.bytes >= ShortestBca
Unsaid(form, match) ==
    (IF form.bca = Null THEN {"bca", "mastering"} ELSE {})
    \cup (IF match = Null THEN {} ELSE {f \in {"media", "edc", "breaks"} : IsEmpty(f, form[f])})

LEMMA AddChangesAre ==
    ASSUME NEW form, NEW match
    PROVE  LET add == AddChanges(form, match)
               ch == NewDiscChanges(AddForm(form, match))
           IN  /\ IsRecord(add)
               /\ \A f \in Keys : add[f] = IF f \in Unsaid(form, match) THEN NoChanges[f]
                                           ELSE IF f = "mastering" /\ Derives(form, match)
                                           THEN [add |-> {form.bca.tail}, remove |-> {}]
                                           ELSE ch[f]
<1> DEFINE add == AddChanges(form, match)
           ch == NewDiscChanges(AddForm(form, match))
<1>1. add = [f \in Keys |-> IF f \in Unsaid(form, match) THEN NoChanges[f]
                            ELSE IF f = "mastering" /\ Derives(form, match)
                            THEN [add |-> {form.bca.tail}, remove |-> {}]
                            ELSE ch[f]]
    BY DEF AddChanges, AddForm, Unsaid, Derives
<1> HIDE DEF add, ch
<1> QED BY <1>1 DEF IsRecord, add, ch

LEMMA NewHistory ==
    ASSUME NEW form, IsForm(form)
    PROVE  LET ch == NewDiscChanges(form) IN
           IsChange(ch) /\ AreHistory(ch, NormalForm(form), Blank, FALSE) /\ ch.status = Absent
<1> DEFINE no == FALSE
<1>1. NewDiscChanges(form) = HistoryChanges(form, Blank, no, no)
    BY DEF NewDiscChanges
<1>3. HistoryChanges(form, Blank, no, no).status = Absent
    BY DEF HistoryChanges, Keys, ScalarFields, SetFields
<1>4. no = FALSE
    OBVIOUS
<1> HIDE DEF no
<1>2. LET ch == HistoryChanges(form, Blank, no, no) IN
      IsChange(ch) /\ AreHistory(ch, NormalForm(form), Blank, no)
    BY BlankBase, HistoryIs
<1> QED BY <1>1, <1>2, <1>3, <1>4

LEMMA AddChangesTypes ==
    ASSUME NEW form, IsForm(form), NEW match \in Media \cup {Null}
    PROVE  IsChange(AddChanges(form, match))
<1> DEFINE add == AddChanges(form, match)
           ch == NewDiscChanges(AddForm(form, match))
           tail == [add |-> {form.bca.tail}, remove |-> {}]
<1>1. /\ IsRecord(add)
      /\ \A f \in Keys : add[f] \in {NoChanges[f], ch[f]} \/ (f = "mastering" /\ Derives(form, match) /\ add[f] = tail)
    BY AddChangesAre
<1>2. add.rings = ch.rings
  <2>1. "rings" \notin Unsaid(form, match) /\ "rings" \in Keys /\ "rings" # "mastering"
      BY DEF Unsaid, Keys
  <2> QED BY <2>1, AddChangesAre
<1>3. IsChange(ch)
    BY AddFormTypes, NewHistory
<1>4. Derives(form, match) => tail \in SetChanges
    BY FormFields DEF IsForm, Derives, Bcas, SetChanges
<1> HIDE DEF add, ch, tail
<1>5. ASSUME NEW f \in ScalarFields PROVE add[f] = Absent \/ Fits(f, add[f])
  <2>1. f # "mastering" /\ f \in Keys /\ NoChanges[f] = Absent
      BY NoChangesAre, KindsOfFields DEF SetFields
  <2> QED BY <1>1, <1>3, <2>1 DEF IsChange
<1>6. ASSUME NEW f \in SetFields PROVE add[f] = Absent \/ add[f] \in SetChanges
  <2>1. f \in Keys /\ NoChanges[f] = Absent
      BY NoChangesAre, KindsOfFields
  <2> QED BY <1>1, <1>3, <1>4, <2>1 DEF IsChange
<1> QED BY <1>1, <1>2, <1>3, <1>5, <1>6 DEF IsChange, add

LEMMA DerivedTypes ==
    ASSUME NEW form, IsForm(form)
    PROVE  LET x == Derived(form) IN
           /\ IsForm(x) /\ Same(x, AddForm(form, Null), Keys \ {"mastering"})
           /\ x.mastering = IF form.bca = Null THEN {}
                            ELSE IF Derives(form, Null) THEN {form.bca.tail} ELSE form.mastering
<1> DEFINE f == "mastering"
           w == AddForm(form, Null)
           v == IF form.bca = Null THEN {}
                ELSE IF Derives(form, Null) THEN {form.bca.tail} ELSE form.mastering
<1>1. IsForm(w)
    BY AddFormTypes
<1>2. w.mastering = form.mastering
  <2>1. form = [h \in Keys |-> form[h]] /\ DOMAIN form = Keys
      BY FormFields DEF IsForm, IsRecord
  <2> QED BY <2>1 DEF AddForm, Keys, SetFields
<1>3. Derived(form) = [w EXCEPT ![f] = v]
    BY <1>2 DEF Derived, Derives
<1>4. Fits(f, v)
    BY FormFields DEF Fits, IsForm, Derives, Bcas, SetFields, ListFields
<1>5. f \in Keys \ {"rings"} /\ f # "breaks"
    BY DEF Keys, SetFields
<1>6. w = [h \in Keys |-> w[h]] /\ DOMAIN w = Keys
    BY <1>1, FormFields DEF IsForm, IsRecord
<1> HIDE DEF f, w, v
<1>7. IsForm([w EXCEPT ![f] = v])
    BY <1>1, <1>4, <1>5, FormWith
<1>8. [w EXCEPT ![f] = v][f] = v /\ \A h \in Keys \ {f} : [w EXCEPT ![f] = v][h] = w[h]
    BY <1>5, <1>6
<1> QED BY <1>3, <1>7, <1>8 DEF Same, f, w, v

\* An addition of a new disc is the history of a form.
LEMMA AddIsHistory ==
    ASSUME NEW form, IsForm(form), Chosen(form)
    PROVE  AreHistory(AddChanges(form, Null), NormalForm(Derived(form)), Blank, FALSE)
<1> DEFINE add == AddChanges(form, Null)
           w == AddForm(form, Null)
           x == Derived(form)
           ch == NewDiscChanges(w)
           n == NormalForm(w)
           m == NormalForm(x)
           unsaid == Unsaid(form, Null)
           derives == Derives(form, Null)
<1>1. IsForm(w) /\ IsForm(x) /\ Same(x, w, Keys \ {"mastering"})
      /\ x.mastering = IF form.bca = Null THEN {} ELSE IF derives THEN {form.bca.tail} ELSE form.mastering
    BY AddFormTypes, DerivedTypes
<1>2. w.mastering = form.mastering /\ w.system = form.system /\ w.media = form.media
      /\ (form.bca = Null => w.bca = Null)
  <2>1. form = [h \in Keys |-> form[h]] /\ DOMAIN form = Keys
      BY FormFields DEF IsForm, IsRecord
  <2> QED BY <2>1 DEF AddForm, Keys, SetFields, ScalarFields
<1>3. \A f \in Keys : add[f] = IF f \in unsaid THEN NoChanges[f]
                               ELSE IF f = "mastering" /\ derives
                               THEN [add |-> {form.bca.tail}, remove |-> {}] ELSE ch[f]
    BY AddChangesAre
<1>4. AreHistory(ch, n, Blank, FALSE)
    BY <1>1, NewHistory
<1>5. unsaid = IF form.bca = Null THEN {"bca", "mastering"} ELSE {}
    BY DEF Unsaid
<1>6. derives => form.bca # Null /\ form.media \in Media /\ AllowsMastering[form.media]
    BY DEF Derives
<1>14. {"system", "media", "comments", "version", "bca", "title", "dat", "serial", "rings", "ranges", "breaks", "errors", "edc"}
          \subseteq Keys \ {"mastering"}
    BY DEF Keys, ScalarFields, SetFields
<1> HIDE DEF add, w, x, ch, n, m, unsaid, derives
<1>7. Chosen(w) /\ Chosen(x)
  <2>1. x.system = w.system /\ x.media = w.media
      BY <1>1, <1>14 DEF Same
  <2> QED BY <1>2, <2>1 DEF Chosen
<1>8. \A f \in Keys \ {"mastering"} : m[f] = n[f]
  <2>1. Filtered(x) = [Filtered(w) EXCEPT !.mastering = Filtered(x).mastering]
        /\ IsRecord(Filtered(w))
    <3>1. IsRecord(x) /\ IsRecord(w)
        BY <1>1, FormFields DEF IsForm
    <3>2. /\ IsRecord(Filtered(x)) /\ IsRecord(Filtered(w))
          /\ \A f \in Keys \ {"mastering"} : Filtered(x)[f] = Filtered(w)[f]
      <4>1. \A f \in {"system", "media", "title", "comments", "dat", "serial", "status"} : Filtered(x)[f] = Filtered(w)[f]
          BY <1>1, <1>7, <3>1, FilteredIs DEF Same, Keys, ScalarFields, SetFields
      <4>2. \A f \in {"version", "errors", "edc", "ranges", "bca"} : Filtered(x)[f] = Filtered(w)[f]
        <5>1. x.version = w.version /\ x.errors = w.errors /\ x.edc = w.edc /\ x.ranges = w.ranges /\ x.bca = w.bca
              /\ x.media = w.media /\ x.system = w.system
            BY <1>1, <1>14 DEF Same
        <5> DEFINE Kept(y, u) ==
                     /\ y.version = IF "version" \in Has[u.system] THEN u.version ELSE Null
                     /\ y.errors = IF "errors" \in Has[u.system] /\ IsCd[u.media] THEN u.errors ELSE Null
                     /\ y.edc = IF "edc" \in Has[u.system] THEN u.edc ELSE Null
                     /\ y.ranges = IF "ranges" \in Has[u.system] THEN u.ranges ELSE Null
                     /\ y.bca = IF "bca" \in Has[u.system] THEN u.bca ELSE Null
        <5>2. Kept(Filtered(x), x)
            BY <1>7, <3>1, FilteredIs
        <5>3. Kept(Filtered(w), w)
            BY <1>7, <3>1, FilteredIs
        <5> QED BY <5>1, <5>2, <5>3
      <4>3. \A f \in {"breaks", "rings"} : Filtered(x)[f] = Filtered(w)[f]
        <5>1. x.breaks = w.breaks /\ x.rings = w.rings /\ x.media = w.media
            BY <1>1, <1>14 DEF Same
        <5> DEFINE Cut(s, k) == Select(s, {i \in DOMAIN s : i < Layers[k]})
        <5>2. Filtered(x).breaks = Cut(x.breaks, x.media) /\ Filtered(x).rings = FilteredRings(x.rings, x.media)
            BY <1>7, <3>1, FilteredIs
        <5>3. Filtered(w).breaks = Cut(w.breaks, w.media) /\ Filtered(w).rings = FilteredRings(w.rings, w.media)
            BY <1>7, <3>1, FilteredIs
        <5> HIDE DEF Cut
        <5>4. Filtered(x).breaks = Filtered(w).breaks /\ Filtered(x).rings = Filtered(w).rings
            BY <5>1, <5>2, <5>3
        <5> QED BY <5>4
      <4>4. Keys \ {"mastering"} = {"system", "media", "title", "comments", "dat", "serial", "status"}
                \cup {"version", "errors", "edc", "ranges", "bca"} \cup {"breaks", "rings"}
          BY DEF Keys, ScalarFields, SetFields
      <4>5. IsRecord(Filtered(x)) /\ IsRecord(Filtered(w))
          BY <1>7, <3>1, FilteredIs
      <4> QED BY <4>1, <4>2, <4>3, <4>4, <4>5
    <3> DEFINE a == Filtered(x)
               b == Filtered(w)
    <3> HIDE DEF a, b
    <3>3. a = [h \in Keys |-> a[h]] /\ b = [h \in Keys |-> b[h]] /\ DOMAIN b = Keys /\ \A f \in Keys \ {"mastering"} : a[f] = b[f]
        BY <3>2 DEF IsRecord, a, b
    <3>4. a = [b EXCEPT !.mastering = a.mastering]
        BY <3>3
    <3> QED BY <3>2, <3>4 DEF a, b
  <2> DEFINE b == Filtered(w)
             t == Filtered(x).mastering
  <2>2. m = FlatForm([b EXCEPT !.mastering = t]) /\ n = FlatForm(b)
      BY <2>1 DEF NormalForm, m, n
  <2>3. IsRecord(b)
      BY <2>1
  <2> HIDE DEF b, t
  <2> DEFINE a == [b EXCEPT !.mastering = t]
  <2>4. IsRecord(a) /\ Same(a, b, Keys \ {"mastering"})
      BY <2>3 DEF IsRecord, Same
  <2> HIDE DEF a
  <2>5. \A f \in {"system", "media", "title", "version", "bca", "dat", "serial", "status", "rings"} : FlatForm(a)[f] = FlatForm(b)[f]
      BY <2>3, <2>4, FlatIs DEF Same, Keys, ScalarFields, SetFields
  <2>6. a.errors = b.errors /\ a.edc = b.edc /\ a.ranges = b.ranges /\ a.breaks = b.breaks /\ a.comments = b.comments
      BY <2>4, <1>14 DEF Same
  <2>7. \A f \in {"errors", "edc", "ranges", "breaks", "comments"} : FlatForm(a)[f] = FlatForm(b)[f]
    <3> DEFINE Cut(s) == Select(s, {i \in DOMAIN s : s[i] <= MaxInt})
    <3>1. FlatForm(a).breaks = Cut(a.breaks) /\ FlatForm(b).breaks = Cut(b.breaks)
        BY <2>3, <2>4, FlatIs
    <3> HIDE DEF Cut
    <3>2. FlatForm(a).breaks = FlatForm(b).breaks
        BY <2>6, <3>1
    <3>3. FlatForm(a).errors = FlatForm(b).errors /\ FlatForm(a).edc = FlatForm(b).edc
        BY <2>3, <2>4, <2>6, FlatIs
    <3>4. FlatForm(a).ranges = FlatForm(b).ranges /\ FlatForm(a).comments = FlatForm(b).comments
        BY <2>3, <2>4, <2>6, FlatIs
    <3> QED BY <3>2, <3>3, <3>4
  <2>8. Keys \ {"mastering"} = {"system", "media", "title", "version", "bca", "dat", "serial", "status", "rings"}
                               \cup {"errors", "edc", "ranges", "breaks", "comments"}
      BY DEF Keys, ScalarFields, SetFields
  <2> QED BY <2>2, <2>5, <2>7, <2>8 DEF a
<1>9. IsNormal(m, x) /\ IsNormal(n, w)
    BY <1>1, <1>7, NormalIs DEF m, n
<1>10. /\ n.mastering = IF AllowsMastering[form.media] THEN form.mastering ELSE {}
       /\ m.mastering = IF AllowsMastering[form.media] THEN x.mastering ELSE {}
       /\ n.bca = IF "bca" \in Has[form.system] THEN w.bca ELSE Null
  <2>1. n.media = w.media /\ m.media = x.media /\ x.media = w.media
      BY <1>1, <1>9, <1>14 DEF IsNormal, Same
  <2> QED BY <1>2, <1>9, <2>1 DEF IsNormal
<1>11. add.rings = RingChanges(Blank.rings, m.rings, FALSE)
  <2>1. "rings" \notin unsaid /\ "rings" \in Keys /\ "rings" # "mastering"
      BY <1>5 DEF Keys
  <2>2. add.rings = ch.rings /\ m.rings = n.rings
      BY <1>3, <1>8, <2>1
  <2> QED BY <1>4, <2>2 DEF AreHistory
<1>12. ASSUME NEW f \in SetFields PROVE add[f] = SetChange(Blank[f], m[f], FALSE)
  <2>1. f \in Keys /\ Blank[f] = {} /\ ch[f] = SetChange({}, n[f], FALSE) /\ NoChanges[f] = Absent
      BY <1>4, BlankIs, KindsOfFields, NoChangesAre DEF AreHistory
  <2>2. CASE f # "mastering"
      BY <1>3, <1>5, <1>8, <2>1, <2>2 DEF SetFields
  <2>3. CASE f = "mastering" /\ form.bca = Null
    <3>1. add[f] = Absent /\ m[f] = {}
        BY <1>1, <1>3, <1>5, <1>10, <2>1, <2>3
    <3> QED BY <2>1, <3>1 DEF SetChange
  <2>4. CASE f = "mastering" /\ form.bca # Null /\ derives
    <3>1. add[f] = [add |-> {form.bca.tail}, remove |-> {}] /\ m[f] = {form.bca.tail}
        BY <1>1, <1>3, <1>5, <1>6, <1>10, <2>1, <2>4
    <3>2. SetChange({}, {form.bca.tail}, FALSE) = [add |-> {form.bca.tail}, remove |-> {}]
        BY DEF SetChange
    <3> QED BY <2>1, <3>1, <3>2
  <2>5. CASE f = "mastering" /\ form.bca # Null /\ ~derives
    <3>1. add[f] = ch[f] /\ m[f] = n[f]
        BY <1>1, <1>3, <1>5, <1>10, <2>1, <2>5
    <3> QED BY <2>1, <3>1
  <2> QED BY <2>2, <2>3, <2>4, <2>5
<1>13. ASSUME NEW f \in ScalarFields \ {"status"} PROVE add[f] = ScalarChange(f, Blank[f], m[f])
  <2>1. f \in Keys \ {"mastering"} /\ Blank[f] = Null /\ NoChanges[f] = Absent /\ f # "mastering"
      BY BlankIs, NoChangesAre, KindsOfFields DEF SetFields
  <2>2. CASE f \notin unsaid
      BY <1>3, <1>4, <1>8, <2>1, <2>2 DEF AreHistory
  <2>3. CASE f \in unsaid
    <3>1. f = "bca" /\ form.bca = Null
        BY <1>5, <2>1, <2>3
    <3>2. m[f] = Null /\ add[f] = Absent
        BY <1>2, <1>3, <1>8, <1>10, <2>1, <2>3, <3>1
    <3> QED BY <2>1, <3>2 DEF ScalarChange
  <2> QED BY <2>2, <2>3
<1> QED BY <1>11, <1>12, <1>13 DEF AreHistory, add, m, x

\* What a valid form has.
LEMMA ValidFormHas ==
    ASSUME NEW form, IsForm(form), NEW add, ValidForm(form, add, FALSE)
    PROVE  Chosen(form) /\ form.title # Null /\ form.dat # Null
<1>1. form.system \in Systems \cup {Null} /\ form.media \in Media \cup {Null}
    BY FormFields DEF IsForm
<1>2. ~SelectionErrors(form, FALSE) /\ form.title # Null /\ form.dat # Null
    BY DEF ValidForm
<1> QED BY <1>1, <1>2 DEF SelectionErrors, Chosen

\* An approval changes the status only.
LEMMA ApprovalIs ==
    ASSUME NEW type, NEW current, IsBase(current), NEW submitted, IsChange(submitted),
           NEW ch, IsChange(ch), NEW n, NEW base, NEW allow, AreHistory(ch, n, base, allow)
    PROVE  LET y == ApprovalChanges(type, current, submitted, ch) IN
           IsChange(y) /\ AreHistory(y, n, base, allow)
<1> DEFINE y == ApprovalChanges(type, current, submitted, ch)
           v == y.status
<1>1. DOMAIN ch = Keys /\ ch = [f \in Keys |-> ch[f]] /\ "status" \in ScalarFields /\ ScalarFields \subseteq Keys
    BY DEF IsChange, IsRecord, Keys, ScalarFields
<1>2. IsRecord(y) /\ \A f \in Keys \ {"status"} : y[f] = ch[f]
    BY <1>1 DEF ApprovalChanges, IsRecord
<1>3. v \in {ch.status, submitted.status, AutomaticStatus(current.status)}
    BY <1>1 DEF ApprovalChanges
<1>4. AutomaticStatus(current.status) \in Statuses \cup {Absent}
    BY DEF AutomaticStatus, Statuses
<1>5. v = Absent \/ Fits("status", v)
  <2>1. \A w \in Statuses : Fits("status", w)
      BY DEF Fits, ListFields, SetFields
  <2>2. (ch.status = Absent \/ Fits("status", ch.status)) /\ (submitted.status = Absent \/ Fits("status", submitted.status))
      BY <1>1 DEF IsChange
  <2> QED BY <1>3, <1>4, <2>1, <2>2
<1> HIDE DEF y
<1>6. IsChange(y)
  <2>1. \A f \in ScalarFields : y[f] = Absent \/ Fits(f, y[f])
    <3>1. ASSUME NEW f \in ScalarFields PROVE y[f] = Absent \/ Fits(f, y[f])
      <4>1. CASE f = "status"
          BY <1>5, <4>1
      <4>2. CASE f # "status"
          BY <1>1, <1>2, <4>2 DEF IsChange
      <4> QED BY <4>1, <4>2
    <3> QED BY <3>1
  <2>2. \A f \in SetFields : y[f] = Absent \/ y[f] \in SetChanges
    <3>1. \A f \in SetFields : f \in Keys \ {"status"}
        BY DEF SetFields, Keys
    <3> QED BY <1>2, <3>1 DEF IsChange
  <2>3. y.rings = ch.rings
      BY <1>2 DEF Keys
  <2> QED BY <1>2, <2>1, <2>2, <2>3 DEF IsChange
<1>7. AreHistory(y, n, base, allow)
  <2>1. y.rings = ch.rings /\ (\A f \in SetFields : y[f] = ch[f]) /\ \A f \in ScalarFields \ {"status"} : y[f] = ch[f]
      BY <1>2 DEF Keys, SetFields
  <2> QED BY <2>1 DEF AreHistory
<1> QED BY <1>6, <1>7 DEF y

\* A content on the disc, with the ids that have been given.
OnDisc(x, next) == IsContent(x) /\ \A q \in ToSet(x.rings) : q.id \in Nat /\ q.id < next

LEMMA StoredAsPosted ==
    ASSUME nextRing \in Nat, NEW sub, sub.target \in BOOLEAN, sub.target => OnDisc(disc, nextRing),
           NEW form, IsForm(form), Chosen(form), form.title # Null, form.dat # Null,
           NEW ch, IsChange(ch), NEW allow, allow \/ ~sub.target,
           AreHistory(ch, NormalForm(form), Base(sub), allow), StoreDisc(sub, ch)
    PROVE  OnDisc(disc', nextRing') /\ AsPosted(disc', form) /\ nextRing' \in Nat /\ nextRing <= nextRing'
<1> DEFINE no == FALSE
           base == Base(sub)
           data == Resolve(base, ch, no)
           old == IF sub.target THEN disc ELSE [Blank EXCEPT !.ranges = <<>>]
<1>1. disc' = UpdateDisc(old, data, nextRing) /\ nextRing' = nextRing + NewRings(data.rings)
    BY DEF StoreDisc
<1>2. IsBase(base) /\ (allow \/ base = Blank)
    BY ContentIs, BlankBase DEF Base, OnDisc
<1>3. old.ranges \in Seq(Nat)
  <2>1. CASE sub.target
      BY <2>1, ContentIs DEF OnDisc
  <2>2. CASE ~sub.target
    <3>1. Blank = [f \in Keys |-> Blank[f]] /\ DOMAIN Blank = Keys
        BY DEF Blank
    <3>2. old.ranges = <<>> /\ <<>> \in Seq(Nat)
        BY <2>2, <3>1 DEF Keys, ScalarFields
    <3> QED BY <3>2
  <2> QED BY <2>1, <2>2
<1>4. \A i \in RingIds(base.rings) : i < nextRing
  <2>1. CASE sub.target
      BY <2>1 DEF OnDisc, Base, RingIds
  <2>2. CASE ~sub.target
    <3>1. base.rings = <<>> /\ ToSet(<<>>) = {}
        BY <2>2, BlankIs DEF Base, ToSet
    <3> QED BY <3>1 DEF RingIds
  <2> QED BY <2>1, <2>2
<1>5. AreHistory(ch, NormalForm(form), base, allow)
    OBVIOUS
<1>6. no = FALSE
    OBVIOUS
<1> HIDE DEF no, base, old
<1>7. IsRestored(data, NormalForm(form), base)
    BY <1>2, <1>5, <1>6, ContentRestored
<1> HIDE DEF data
<1>8. Written(UpdateDisc(old, data, nextRing), data, form, nextRing)
    BY <1>3, <1>4, <1>7, WrittenIs
<1>9. /\ IsContent(disc') /\ AsPosted(disc', form) /\ NewRings(data.rings) \in Nat
      /\ \A q \in ToSet(disc'.rings) : q.id \in Nat /\ q.id < nextRing + NewRings(data.rings)
    BY <1>1, <1>8 DEF Written
<1> QED BY <1>1, <1>9 DEF OnDisc

-----------------------------------------------------------------------------
(* The invariant.                                                          *)

IsSubmission(sub, x, next) ==
    /\ sub = [type |-> sub.type, submitter |-> sub.submitter, target |-> sub.target,
              changes |-> sub.changes, status |-> sub.status]
    /\ sub.type \in {"Edit", "Disc"} /\ sub.target \in BOOLEAN
    /\ sub.type = "Edit" => sub.target
    /\ sub.target => OnDisc(x, next)
    /\ sub.status = "Draft" => sub.type = "Disc"
    /\ IsChange(sub.changes)

IsPage(page, x, next, all) ==
    /\ page = [kind |-> page.kind, sub |-> page.sub, seen |-> page.seen, form |-> page.form]
    /\ page.kind \in {"none", "edit", "review", "draft"}
    /\ page.kind = "none" => page = NoPage
    /\ page.kind # "none" => IsForm(page.form)
    /\ page.kind = "edit" => IsContent(page.seen) /\ OnDisc(x, next)
    /\ page.kind \in {"review", "draft"} => page.sub \in SubIds /\ IsSubmission(all[page.sub], x, next)

EditInv ==
    /\ nextRing \in Nat
    /\ disc = Null \/ OnDisc(disc, nextRing)
    /\ DOMAIN subs = SubIds /\ subs = [s \in SubIds |-> subs[s]]
    /\ \A s \in SubIds : subs[s] = Null \/ IsSubmission(subs[s], disc, nextRing)
    /\ DOMAIN pages = Clients /\ pages = [c \in Clients |-> pages[c]]
    /\ \A c \in Clients : IsPage(pages[c], disc, nextRing, subs)

\* What a step may do with the disc, a submission and a page.
LEMMA InvKept ==
    ASSUME EditInv, nextRing' \in Nat, disc' = Null \/ OnDisc(disc', nextRing'),
           OnDisc(disc, nextRing) => OnDisc(disc', nextRing'),
           subs' = subs \/ \E s \in SubIds : \E sub \in {subs'[s]} :
               subs' = [subs EXCEPT ![s] = sub] /\ IsSubmission(sub, disc', nextRing'),
           pages' = pages \/ \E c \in Clients : \E page \in {pages'[c]} :
               pages' = [pages EXCEPT ![c] = page] /\ IsPage(page, disc', nextRing', subs')
    PROVE  EditInv'
<1>1. DOMAIN subs' = SubIds /\ subs' = [s \in SubIds |-> subs'[s]]
    BY DEF EditInv
<1>2. DOMAIN pages' = Clients /\ pages' = [c \in Clients |-> pages'[c]]
    BY DEF EditInv
<1>3. \A s \in SubIds : subs'[s] = subs[s] \/ IsSubmission(subs'[s], disc', nextRing')
    BY DEF EditInv
<1>4. \A c \in Clients : pages'[c] = pages[c] \/ IsPage(pages'[c], disc', nextRing', subs')
    BY DEF EditInv
<1>5. ASSUME NEW s \in SubIds, IsSubmission(subs[s], disc, nextRing)
      PROVE  IsSubmission(subs'[s], disc', nextRing')
    BY <1>3, <1>5 DEF IsSubmission
<1>6. \A s \in SubIds : subs'[s] = Null \/ IsSubmission(subs'[s], disc', nextRing')
    BY <1>3, <1>5 DEF EditInv
<1>7. ASSUME NEW c \in Clients PROVE IsPage(pages'[c], disc', nextRing', subs')
  <2>1. CASE pages'[c] = pages[c]
    <3>1. IsPage(pages[c], disc, nextRing, subs)
        BY DEF EditInv
    <3> QED BY <1>5, <2>1, <3>1 DEF IsPage
  <2> QED BY <1>4, <2>1
<1> QED BY <1>1, <1>2, <1>6, <1>7 DEF EditInv

LEMMA InvInit == Init => EditInv
<1> SUFFICES ASSUME Init PROVE EditInv
    OBVIOUS
<1>1. disc = Null \/ (IsContent(disc) /\ \A k \in DOMAIN disc.rings : disc.rings[k].id \in 1 .. Len(disc.rings))
    BY FormsAssumption DEF Init
<1>2. CASE disc = Null
  <2>1. nextRing \in Nat
      BY <1>2 DEF Init
  <2> QED BY <1>2, <2>1 DEF Init, EditInv, IsPage, NoPage
<1>3. CASE disc # Null
  <2>1. IsContent(disc) /\ \A k \in DOMAIN disc.rings : disc.rings[k].id \in 1 .. Len(disc.rings)
      BY <1>1, <1>3
  <2>2. RingList(disc.rings)
      BY <2>1, ContentIs, FormFields
  <2>3. Len(disc.rings) \in Nat
      BY <2>2 DEF RingList, IsList
  <2>4. nextRing = 1 + Len(disc.rings)
      BY <1>3 DEF Init
  <2>5. OnDisc(disc, nextRing) /\ nextRing \in Nat
      BY <2>1, <2>3, <2>4 DEF OnDisc, ToSet
  <2> QED BY <2>5 DEF Init, EditInv, IsPage, NoPage
<1> QED BY <1>2, <1>3

LEMMA PageShown ==
    ASSUME EditInv, UNCHANGED <<disc, subs, nextRing>>, NEW c \in Clients, NEW page,
           Show(c, page), IsPage(page, disc, nextRing, subs)
    PROVE  EditInv'
<1>1. nextRing' \in Nat /\ (disc' = Null \/ OnDisc(disc', nextRing')) /\ (OnDisc(disc, nextRing) => OnDisc(disc', nextRing'))
    BY DEF EditInv
<1>2. subs' = subs /\ pages' = [pages EXCEPT ![c] = page] /\ pages'[c] = page
    BY DEF EditInv, Show
<1>3. \E d \in Clients : \E p \in {pages'[d]} : pages' = [pages EXCEPT ![d] = p] /\ IsPage(p, disc', nextRing', subs')
    BY <1>2
<1> QED BY <1>1, <1>2, <1>3, InvKept

LEMMA EmptyPage == \A x, next, all : IsPage(NoPage, x, next, all)
    BY DEF IsPage, NoPage

\* A submission is stored, the page is closed or there is none.
LEMMA SubmissionStored ==
    ASSUME EditInv, nextRing' \in Nat, disc' = Null \/ OnDisc(disc', nextRing'),
           OnDisc(disc, nextRing) => OnDisc(disc', nextRing'),
           NEW s \in SubIds, NEW sub, subs' = [subs EXCEPT ![s] = sub], IsSubmission(sub, disc', nextRing'),
           pages' = pages \/ \E c \in Clients : Close(c)
    PROVE  EditInv'
<1>1. subs'[s] = sub
    BY DEF EditInv
<1>2. \E t \in SubIds : \E u \in {subs'[t]} : subs' = [subs EXCEPT ![t] = u] /\ IsSubmission(u, disc', nextRing')
    BY <1>1
<1>3. pages' = pages \/ \E c \in Clients : \E p \in {pages'[c]} : pages' = [pages EXCEPT ![c] = p] /\ IsPage(p, disc', nextRing', subs')
  <2>1. ASSUME NEW c \in Clients, Close(c)
        PROVE  pages' = [pages EXCEPT ![c] = NoPage] /\ pages'[c] = NoPage
      BY <2>1 DEF EditInv, Close, Show
  <2> QED BY <2>1, EmptyPage
<1> QED BY <1>2, <1>3, InvKept

LEMMA OpensKeep ==
    ASSUME EditInv, NEW c \in Clients,
           OpenEdit(c) \/ (\E s \in SubIds : OpenReview(c, s) \/ OpenDraft(c, s)) \/ Fill(c) \/ RefreshReview(c)
    PROVE  EditInv'
<1>1. CASE OpenEdit(c)
  <2>1. OnDisc(disc, nextRing) /\ IsContent(disc)
      BY <1>1 DEF OpenEdit, EditInv, OnDisc
  <2>2. IsForm(FormOf(disc))
      BY <2>1, ContentIs, FormOfTypes DEF IsBase
  <2> DEFINE page == EditPage
  <2>3. IsPage(page, disc, nextRing, subs)
      BY <2>1, <2>2 DEF IsPage, EditPage
  <2>4. Show(c, page) /\ UNCHANGED <<disc, subs, nextRing>>
      BY <1>1 DEF OpenEdit
  <2> HIDE DEF page
  <2> QED BY <2>3, <2>4, PageShown
<1>2. ASSUME NEW s \in SubIds, IsSubmission(subs[s], disc, nextRing)
      PROVE  IsPage(ReviewPage(s, subs[s]), disc, nextRing, subs)
  <2>1. IsForm(ReviewForm(subs[s]))
      BY <1>2, ReviewFormTypes DEF IsSubmission, OnDisc
  <2> DEFINE form == ReviewForm(subs[s])
             seen == IF subs[s].target THEN disc ELSE Null
             page == ReviewPage(s, subs[s])
  <2>2. page = [kind |-> "review", sub |-> s, seen |-> seen, form |-> form]
      BY DEF ReviewPage
  <2> HIDE DEF form, seen, page
  <2> QED BY <1>2, <2>1, <2>2 DEF IsPage, page, form
<1>3. ASSUME NEW s \in SubIds, OpenReview(c, s) PROVE EditInv'
  <2> DEFINE page == ReviewPage(s, subs[s])
  <2>1. IsPage(page, disc, nextRing, subs)
      BY <1>2, <1>3 DEF OpenReview, EditInv
  <2>2. Show(c, page) /\ UNCHANGED <<disc, subs, nextRing>>
      BY <1>3 DEF OpenReview
  <2> HIDE DEF page
  <2> QED BY <2>1, <2>2, PageShown
<1>4. ASSUME NEW s \in SubIds, OpenDraft(c, s) PROVE EditInv'
  <2> DEFINE form == DraftForm(subs[s])
             page == [kind |-> "draft", sub |-> s, seen |-> Null, form |-> form]
  <2>1. IsSubmission(subs[s], disc, nextRing)
      BY <1>4 DEF OpenDraft, EditInv
  <2>2. IsForm(form)
      BY <2>1, DraftFormTypes DEF IsSubmission, OnDisc
  <2>3. Show(c, page) /\ UNCHANGED <<disc, subs, nextRing>>
      BY <1>4 DEF OpenDraft
  <2> HIDE DEF form
  <2>4. IsPage(page, disc, nextRing, subs)
      BY <2>1, <2>2 DEF IsPage
  <2> HIDE DEF page
  <2> QED BY <2>3, <2>4, PageShown
<1>5. CASE Fill(c)
  <2>1. PICK form \in Retouched(pages[c].form) : Show(c, [pages[c] EXCEPT !.form = form])
      BY <1>5 DEF Fill
  <2>2. IsPage(pages[c], disc, nextRing, subs) /\ pages[c].kind # "none" /\ UNCHANGED <<disc, subs, nextRing>>
      BY <1>5 DEF EditInv, Fill
  <2>3. IsForm(form)
      BY <2>1, <2>2, RetouchedTypes DEF IsPage
  <2> DEFINE page == [pages[c] EXCEPT !.form = form]
  <2>4. /\ page = [kind |-> page.kind, sub |-> page.sub, seen |-> page.seen, form |-> page.form]
        /\ page.kind = pages[c].kind /\ page.sub = pages[c].sub /\ page.seen = pages[c].seen /\ page.form = form
      BY <2>2 DEF IsPage
  <2>6. Show(c, page)
      BY <2>1
  <2> HIDE DEF page
  <2>5. IsPage(page, disc, nextRing, subs)
      BY <2>2, <2>3, <2>4 DEF IsPage
  <2> QED BY <2>2, <2>5, <2>6, PageShown
<1>6. CASE RefreshReview(c)
  <2> DEFINE s == pages[c].sub
             page == ReviewPage(s, subs[s])
  <2>1. pages[c].kind = "review" /\ Show(c, page) /\ UNCHANGED <<disc, subs, nextRing>>
      BY <1>6 DEF RefreshReview, Reviewing
  <2>2. s \in SubIds /\ IsSubmission(subs[s], disc, nextRing)
      BY <2>1 DEF EditInv, IsPage
  <2>3. IsPage(page, disc, nextRing, subs)
      BY <1>2, <2>2
  <2> HIDE DEF page
  <2> QED BY <2>1, <2>3, PageShown
<1> QED BY <1>1, <1>3, <1>4, <1>5, <1>6

LEMMA MatchIs ==
    ASSUME EditInv, NEW form
    PROVE  Match(form) \in Media \cup {Null} /\ (Match(form) # Null => OnDisc(disc, nextRing))
<1>1. Match(form) # Null => disc # Null /\ Match(form) = disc.media
    BY DEF Match
<1>2. disc # Null => OnDisc(disc, nextRing)
    BY DEF EditInv
<1>3. OnDisc(disc, nextRing) => disc.media \in Media
    BY ContentIs DEF OnDisc
<1> QED BY <1>1, <1>2, <1>3

\* A submission that is returned, posted again or turned into a verification.
LEMMA UpdatesKeep ==
    ASSUME EditInv, NEW c \in Clients, PostDraft(c) \/ ReturnDraft(c) \/ Retarget(c)
    PROVE  EditInv'
<1> DEFINE s == pages[c].sub
           form == pages[c].form
           sub == subs[s]
<1>1. s \in SubIds /\ IsSubmission(sub, disc, nextRing) /\ IsForm(form)
  <2>1. pages[c].kind \in {"review", "draft"}
      BY DEF PostDraft, ReturnDraft, Retarget, Approvable, Reviewing
  <2> QED BY <2>1 DEF EditInv, IsPage
<1>2. UNCHANGED <<disc, nextRing>> /\ Close(c)
    BY DEF PostDraft, ReturnDraft, Retarget
<1>3. nextRing' \in Nat /\ (disc' = Null \/ OnDisc(disc', nextRing')) /\ (OnDisc(disc, nextRing) => OnDisc(disc', nextRing'))
    BY <1>2 DEF EditInv
<1>4. \E new \in {subs'[s]} : subs' = [subs EXCEPT ![s] = new] /\ IsSubmission(new, disc', nextRing')
  <2>1. CASE PostDraft(c)
    <3> DEFINE m == Match(form)
               ch == AddChanges(form, m)
               hit == m # Null
               new == [sub EXCEPT !.changes = ch, !.target = hit, !.status = "Pending"]
    <3>10. hit \in BOOLEAN /\ (hit <=> m # Null)
        OBVIOUS
    <3>1. m \in Media \cup {Null} /\ (m # Null => OnDisc(disc, nextRing))
        BY MatchIs
    <3>4. subs' = [subs EXCEPT ![s] = new] /\ sub.status = "Draft"
        BY <2>1 DEF PostDraft
    <3> HIDE DEF m, hit
    <3>2. IsChange(ch)
        BY <1>1, <3>1, AddChangesTypes
    <3> HIDE DEF ch
    <3>5. new = [type |-> sub.type, submitter |-> sub.submitter, target |-> hit, changes |-> ch, status |-> "Pending"]
      <4> DEFINE v == sub
      <4>1. v = [type |-> v.type, submitter |-> v.submitter, target |-> v.target, changes |-> v.changes, status |-> v.status]
          BY <1>1 DEF IsSubmission
      <4>2. new = [v EXCEPT !.changes = ch, !.target = hit, !.status = "Pending"]
          OBVIOUS
      <4> HIDE DEF v, new
      <4>3. new = [type |-> v.type, submitter |-> v.submitter, target |-> hit, changes |-> ch, status |-> "Pending"]
          BY <4>1, <4>2
      <4> QED BY <4>3 DEF v
    <3> HIDE DEF new
    <3>6. new.type = "Disc" /\ new.target = hit /\ new.changes = ch /\ new.status = "Pending"
        BY <1>1, <3>4, <3>5 DEF IsSubmission
    <3>8. new.target \in BOOLEAN /\ (new.target => OnDisc(disc, nextRing))
        BY <3>1, <3>6, <3>10
    <3>9. new = [type |-> new.type, submitter |-> new.submitter, target |-> new.target, changes |-> new.changes, status |-> new.status]
        BY <3>5
    <3>3. IsSubmission(new, disc, nextRing)
        BY <3>2, <3>6, <3>8, <3>9 DEF IsSubmission
    <3>7. subs'[s] = new
        BY <1>1, <3>4 DEF EditInv
    <3> QED BY <1>2, <3>3, <3>4, <3>7
  <2>2. CASE ReturnDraft(c)
    <3> DEFINE new == [sub EXCEPT !.status = "Draft"]
    <3>1. subs' = [subs EXCEPT ![s] = new] /\ sub.type = "Disc"
        BY <2>2 DEF ReturnDraft
    <3>2. IsSubmission(new, disc, nextRing)
        BY <1>1, <3>1 DEF IsSubmission
    <3> HIDE DEF new
    <3>3. subs'[s] = new
        BY <1>1, <3>1 DEF EditInv
    <3> QED BY <1>2, <3>1, <3>2, <3>3
  <2>3. CASE Retarget(c)
    <3> DEFINE new == [sub EXCEPT !.target = TRUE]
    <3>1. subs' = [subs EXCEPT ![s] = new] /\ Match(form) # Null
        BY <2>3 DEF Retarget
    <3>2. OnDisc(disc, nextRing)
        BY <3>1, MatchIs
    <3>3. IsSubmission(new, disc, nextRing)
      <4> DEFINE v == sub
      <4>1. v = [type |-> v.type, submitter |-> v.submitter, target |-> v.target, changes |-> v.changes, status |-> v.status]
          BY <1>1 DEF IsSubmission
      <4>2. new = [v EXCEPT !.target = TRUE] /\ v.type \in {"Edit", "Disc"} /\ (v.status = "Draft" => v.type = "Disc") /\ IsChange(v.changes)
          BY <1>1 DEF IsSubmission
      <4> HIDE DEF v, new
      <4>3. new = [type |-> v.type, submitter |-> v.submitter, target |-> TRUE, changes |-> v.changes, status |-> v.status]
          BY <4>1, <4>2
      <4>4. new = [type |-> new.type, submitter |-> new.submitter, target |-> new.target, changes |-> new.changes, status |-> new.status]
            /\ new.target = TRUE /\ new.type = v.type /\ new.changes = v.changes /\ new.status = v.status
          BY <4>3
      <4> QED BY <3>2, <4>2, <4>4 DEF IsSubmission
    <3> HIDE DEF new
    <3>4. subs'[s] = new
        BY <1>1, <3>1 DEF EditInv
    <3> QED BY <1>2, <3>1, <3>3, <3>4
  <2> QED BY <2>1, <2>2, <2>3
<1> HIDE DEF s
<1> QED BY <1>1, <1>2, <1>3, <1>4, SubmissionStored

LEMMA EditHistory ==
    ASSUME NEW form, IsForm(form), NEW base, IsBase(base)
    PROVE  /\ IsChange(EditChanges(form, base)) /\ AreHistory(EditChanges(form, base), NormalForm(form), base, TRUE)
           /\ EditChanges(form, base).status = ScalarChange("status", base.status, NormalForm(form).status)
           /\ IsChange(DiscChanges(form, base)) /\ AreHistory(DiscChanges(form, base), NormalForm(form), base, TRUE)
           /\ DiscChanges(form, base).status = Absent
<1> DEFINE yes == TRUE
           no == FALSE
<1>1. EditChanges(form, base) = HistoryChanges(form, base, yes, yes) /\ DiscChanges(form, base) = HistoryChanges(form, base, yes, no)
    BY DEF EditChanges, DiscChanges
<1>2. yes = TRUE
    OBVIOUS
<1>3. HistoryChanges(form, base, yes, no).status = Absent
    BY DEF HistoryChanges, Keys, ScalarFields, SetFields
<1> HIDE DEF yes, no
<1>4. LET ch == HistoryChanges(form, base, yes, yes) IN
      /\ IsChange(ch) /\ AreHistory(ch, NormalForm(form), base, yes)
      /\ yes => ch.status = ScalarChange("status", base.status, NormalForm(form).status)
    BY HistoryIs
<1>5. LET ch == HistoryChanges(form, base, yes, no) IN
      IsChange(ch) /\ AreHistory(ch, NormalForm(form), base, yes)
    BY HistoryIs
<1> QED BY <1>1, <1>2, <1>3, <1>4, <1>5

\* What a reviewer approves is the history of the reviewed form.
LEMMA ReviewedIs ==
    ASSUME EditInv, NEW sub, IsSubmission(sub, disc, nextRing), NEW form, IsForm(form)
    PROVE  \E allow \in BOOLEAN :
              /\ allow \/ ~sub.target
              /\ AreHistory(ReviewedChanges(sub, form), NormalForm(form), Base(sub), allow)
              /\ IsChange(ReviewedChanges(sub, form))
<1> DEFINE base == Base(sub)
<1>1. IsBase(base)
    BY ContentIs, BlankBase DEF Base, IsSubmission, OnDisc
<1>2. ~sub.target => base = Blank
    BY DEF Base
<1>3. ReviewedChanges(sub, form) = IF sub.type = "Edit" THEN EditChanges(form, base)
                                   ELSE IF sub.target THEN DiscChanges(form, base) ELSE NewDiscChanges(form)
    BY DEF ReviewedChanges
<1>4. sub.target \in BOOLEAN
    BY DEF IsSubmission
<1> HIDE DEF base
<1>5. CASE sub.type = "Edit"
  <2>1. ReviewedChanges(sub, form) = EditChanges(form, base)
      BY <1>3, <1>5
  <2> QED BY <1>1, <2>1, EditHistory DEF base
<1>6. CASE sub.type # "Edit" /\ sub.target
  <2>1. ReviewedChanges(sub, form) = DiscChanges(form, base)
      BY <1>3, <1>6
  <2> QED BY <1>1, <2>1, EditHistory DEF base
<1>7. CASE sub.type # "Edit" /\ ~sub.target
  <2>1. ReviewedChanges(sub, form) = NewDiscChanges(form) /\ base = Blank
      BY <1>2, <1>3, <1>7
  <2>2. IsChange(NewDiscChanges(form)) /\ AreHistory(NewDiscChanges(form), NormalForm(form), Blank, FALSE)
      BY NewHistory
  <2> QED BY <1>7, <2>1, <2>2 DEF base
<1> QED BY <1>4, <1>5, <1>6, <1>7

LEMMA ApprovedSubmission ==
    ASSUME NEW type \in {"Edit", "Disc"}, NEW who, NEW x, NEW next, OnDisc(x, next)
    PROVE  IsSubmission(Approved(type, who), x, next)
<1>1. Approved(type, who) = [type |-> type, submitter |-> who, target |-> TRUE, changes |-> NoChanges, status |-> "Approved"]
    BY DEF Approved, Submission
<1> DEFINE sub == Approved(type, who)
<1> HIDE DEF sub
<1>2. sub = [type |-> type, submitter |-> who, target |-> TRUE, changes |-> NoChanges, status |-> "Approved"]
    BY <1>1 DEF sub
<1> QED BY <1>2, NoChangesAre DEF IsSubmission, sub

\* The form that is posted on an edit page.
LEMMA PostedTypes ==
    ASSUME EditInv, NEW c \in Clients, pages[c].kind = "edit"
    PROVE  IsForm(PostedEdit(c)) /\ OnDisc(disc, nextRing) /\ IsBase(disc)
<1>1. IsForm(pages[c].form) /\ OnDisc(disc, nextRing)
    BY DEF EditInv, IsPage
<1> DEFINE form == pages[c].form
           f == "status"
           v == IF CanEditDirectly(c) THEN form.status ELSE disc.status
<1>2. PostedEdit(c) = [form EXCEPT ![f] = v]
    BY DEF PostedEdit
<1>3. Fits(f, v) /\ f \in Keys \ {"rings"} /\ f # "breaks"
  <2>1. form.status \in Statuses \cup {Null} /\ disc.status \in Statuses
      BY <1>1, FormFields, ContentIs DEF IsForm, OnDisc
  <2> QED BY <2>1 DEF Fits, Keys, ScalarFields, ListFields, SetFields
<1>4. IsForm(form)
    BY <1>1
<1> HIDE DEF form, f, v
<1>5. IsForm([form EXCEPT ![f] = v])
    BY <1>3, <1>4, FormWith
<1> QED BY <1>1, <1>2, <1>5, ContentIs DEF OnDisc

LEMMA PostEditKeeps ==
    ASSUME EditInv, NEW c \in Clients, NEW s \in SubIds, PostEdit(c, s)
    PROVE  EditInv' /\ (disc' # disc => AsPosted(disc', PostedEdit(c)))
<1> DEFINE form == PostedEdit(c)
           ch == EditChanges(form, disc)
           sub == Submission("Edit", c, TRUE, ch, "Pending")
<1>1. IsForm(form) /\ OnDisc(disc, nextRing) /\ IsBase(disc) /\ nextRing \in Nat
    BY PostedTypes DEF PostEdit, EditInv
<1>2. Chosen(form) /\ form.title # Null /\ form.dat # Null
  <2>1. ValidForm(form, FALSE, FALSE)
      BY DEF PostEdit
  <2> DEFINE no == FALSE
             x == form
  <2>2. IsForm(x) /\ ValidForm(x, no, FALSE)
      BY <1>1, <2>1
  <2> HIDE DEF no, x
  <2>3. Chosen(x) /\ x.title # Null /\ x.dat # Null
      BY <2>2, ValidFormHas
  <2> QED BY <2>3 DEF x
<1>3. IsChange(ch) /\ AreHistory(ch, NormalForm(form), disc, TRUE)
  <2> DEFINE x == form
  <2>1. IsForm(x)
      BY <1>1
  <2> HIDE DEF x
  <2>2. IsChange(EditChanges(x, disc)) /\ AreHistory(EditChanges(x, disc), NormalForm(x), disc, TRUE)
      BY <1>1, <2>1, EditHistory
  <2> QED BY <2>2 DEF x
<1>4. Close(c)
    BY DEF PostEdit
<1>5. \/ subs' = [subs EXCEPT ![s] = sub] /\ UNCHANGED <<disc, nextRing>>
      \/ subs' = [subs EXCEPT ![s] = Approved("Edit", c)] /\ StoreDisc(sub, ch)
    BY DEF PostEdit
<1>6. sub = [type |-> "Edit", submitter |-> c, target |-> TRUE, changes |-> ch, status |-> "Pending"]
    BY DEF Submission
<1> HIDE DEF form, ch, sub
<1>7. IsSubmission(sub, disc, nextRing) /\ sub.target = TRUE /\ Base(sub) = disc
    BY <1>1, <1>3, <1>6 DEF IsSubmission, Base
<1>8. CASE subs' = [subs EXCEPT ![s] = sub] /\ UNCHANGED <<disc, nextRing>>
  <2>1. nextRing' \in Nat /\ OnDisc(disc', nextRing') /\ IsSubmission(sub, disc', nextRing')
      BY <1>1, <1>7, <1>8
  <2>2. EditInv'
      BY <1>4, <1>8, <2>1, SubmissionStored
  <2> QED BY <1>8, <2>2
<1>9. CASE subs' = [subs EXCEPT ![s] = Approved("Edit", c)] /\ StoreDisc(sub, ch)
  <2> DEFINE yes == TRUE
             new == Approved("Edit", c)
  <2>1. AreHistory(ch, NormalForm(form), Base(sub), yes) /\ (yes \/ ~sub.target)
      BY <1>3, <1>7
  <2> HIDE DEF yes
  <2>6. sub.target \in BOOLEAN /\ (sub.target => OnDisc(disc, nextRing)) /\ StoreDisc(sub, ch)
      BY <1>1, <1>7, <1>9
  <2>2. OnDisc(disc', nextRing') /\ AsPosted(disc', form) /\ nextRing' \in Nat /\ nextRing <= nextRing'
      BY <1>1, <1>2, <1>3, <2>1, <2>6, StoredAsPosted
  <2>3. IsSubmission(new, disc', nextRing')
      BY <2>2, ApprovedSubmission
  <2>4. subs' = [subs EXCEPT ![s] = new]
      BY <1>9
  <2> HIDE DEF new
  <2>5. EditInv'
      BY <1>4, <2>2, <2>3, <2>4, SubmissionStored
  <2> QED BY <2>2, <2>5 DEF form
<1> QED BY <1>5, <1>8, <1>9

LEMMA ApproveKeeps ==
    ASSUME EditInv, NEW c \in Clients, Approve(c)
    PROVE  EditInv' /\ AsPosted(disc', pages[c].form)
<1> DEFINE s == pages[c].sub
           sub == subs[s]
           form == pages[c].form
           reviewed == ReviewedChanges(sub, form)
           base == Base(sub)
           ch == ApprovalChanges(sub.type, base, sub.changes, reviewed)
           new == Approved(sub.type, sub.submitter)
<1>1. s \in SubIds /\ IsSubmission(sub, disc, nextRing) /\ IsForm(form) /\ nextRing \in Nat
  <2>1. pages[c].kind = "review"
      BY DEF Approve, Approvable, Reviewing
  <2> QED BY <2>1 DEF EditInv, IsPage
<1>2. ValidForm(form, FALSE, FALSE) /\ StoreDisc(sub, ch) /\ Close(c) /\ subs' = [subs EXCEPT ![s] = new]
    BY DEF Approve, Approvable
<1> HIDE DEF s, sub, form
<1>3. Chosen(form) /\ form.title # Null /\ form.dat # Null
  <2> DEFINE no == FALSE
  <2>1. ValidForm(form, no, FALSE)
      BY <1>2
  <2> HIDE DEF no
  <2> QED BY <1>1, <2>1, ValidFormHas
<1>4. IsBase(base)
    BY <1>1, ContentIs, BlankBase DEF Base, IsSubmission, OnDisc
<1>5. PICK allow \in BOOLEAN : (allow \/ ~sub.target) /\ AreHistory(reviewed, NormalForm(form), base, allow) /\ IsChange(reviewed)
    BY <1>1, ReviewedIs
<1> HIDE DEF reviewed
<1>6. IsChange(ch) /\ AreHistory(ch, NormalForm(form), base, allow)
  <2> DEFINE type == sub.type
             submitted == sub.changes
             n == NormalForm(form)
  <2>1. IsChange(submitted) /\ AreHistory(reviewed, n, base, allow)
      BY <1>1, <1>5 DEF IsSubmission
  <2> HIDE DEF type, submitted, n, base
  <2>2. LET y == ApprovalChanges(type, base, submitted, reviewed) IN IsChange(y) /\ AreHistory(y, n, base, allow)
      BY <1>4, <1>5, <2>1, ApprovalIs
  <2> QED BY <2>2 DEF type, submitted, n
<1> HIDE DEF ch
<1>7. OnDisc(disc', nextRing') /\ AsPosted(disc', form) /\ nextRing' \in Nat /\ nextRing <= nextRing'
    BY <1>1, <1>2, <1>3, <1>5, <1>6, StoredAsPosted DEF IsSubmission, base
<1>8. IsSubmission(new, disc', nextRing')
  <2> DEFINE type == sub.type
             who == sub.submitter
  <2>1. type \in {"Edit", "Disc"}
      BY <1>1 DEF IsSubmission
  <2> HIDE DEF type, who
  <2>2. IsSubmission(Approved(type, who), disc', nextRing')
      BY <1>7, <2>1, ApprovedSubmission
  <2> QED BY <2>2 DEF type, who
<1> HIDE DEF new
<1>9. EditInv'
    BY <1>1, <1>2, <1>7, <1>8, SubmissionStored
<1> QED BY <1>7, <1>9 DEF form

LEMMA PostAddKeeps ==
    ASSUME EditInv, NEW c \in Clients, NEW s \in SubIds, PostAdd(c, s)
    PROVE  EditInv'
<1>1. PICK form \in AddForms :
          LET match == Match(form)
              sub   == Submission("Disc", c, match # Null, AddChanges(form, match), "Pending")
          IN  /\ ValidDump(c, form)
              /\ disc = Null \/ match # Null
              /\ IF CanEditDirectly(c) /\ match = Null
                 THEN /\ subs' = [subs EXCEPT ![s] = Approved("Disc", c)]
                      /\ StoreDisc(sub, ApprovalChanges("Disc", Blank, sub.changes, sub.changes))
                 ELSE /\ subs' = [subs EXCEPT ![s] = sub]
                      /\ UNCHANGED <<disc, nextRing>>
    BY DEF PostAdd
<1> DEFINE match == Match(form)
           hit == match # Null
           ch == AddChanges(form, match)
           sub == Submission("Disc", c, hit, ch, "Pending")
           stored == ApprovalChanges("Disc", Blank, ch, ch)
<1>2. IsForm(form) /\ match \in Media \cup {Null} /\ (match # Null => OnDisc(disc, nextRing)) /\ nextRing \in Nat
    BY FormsAssumption, MatchIs DEF EditInv
<1>3. IsChange(ch)
    BY <1>2, AddChangesTypes
<1>4. hit \in BOOLEAN /\ (hit <=> match # Null)
    OBVIOUS
<1>5. sub = [type |-> "Disc", submitter |-> c, target |-> hit, changes |-> ch, status |-> "Pending"] /\ sub.changes = ch
    BY DEF Submission
<1>6. \/ subs' = [subs EXCEPT ![s] = sub] /\ UNCHANGED <<disc, nextRing>>
      \/ match = Null /\ subs' = [subs EXCEPT ![s] = Approved("Disc", c)] /\ StoreDisc(sub, stored)
    BY <1>1, <1>5
<1>7. match = Null => ValidForm(form, TRUE, FALSE)
  <2>1. ValidForm(form, TRUE, match # Null)
      BY <1>1 DEF ValidDump
  <2> QED BY <2>1
<1>8. pages' = pages
    BY DEF PostAdd
<1> HIDE DEF match, hit, ch, sub, stored
<1>9. IsSubmission(sub, disc, nextRing) /\ sub.target = hit
  <2>1. sub.type = "Disc" /\ sub.target = hit /\ sub.changes = ch /\ sub.status = "Pending"
      BY <1>5
  <2>2. sub = [type |-> sub.type, submitter |-> sub.submitter, target |-> sub.target, changes |-> sub.changes, status |-> sub.status]
      BY <1>5
  <2> QED BY <1>2, <1>3, <1>4, <2>1, <2>2 DEF IsSubmission
<1>10. CASE subs' = [subs EXCEPT ![s] = sub] /\ UNCHANGED <<disc, nextRing>>
  <2>1. nextRing' \in Nat /\ (disc' = Null \/ OnDisc(disc', nextRing')) /\ (OnDisc(disc, nextRing) => OnDisc(disc', nextRing'))
      BY <1>10 DEF EditInv
  <2>2. IsSubmission(sub, disc', nextRing')
      BY <1>9, <1>10
  <2> QED BY <1>8, <1>10, <2>1, <2>2, SubmissionStored
<1>11. CASE match = Null /\ subs' = [subs EXCEPT ![s] = Approved("Disc", c)] /\ StoreDisc(sub, stored)
  <2> DEFINE x == Derived(form)
             n == NormalForm(x)
             no == FALSE
             type == "Disc"
             new == Approved(type, c)
  <2>1. Chosen(form) /\ form.title # Null /\ form.dat # Null
    <3> DEFINE yes == TRUE
    <3>1. ValidForm(form, yes, FALSE)
        BY <1>7, <1>11
    <3> HIDE DEF yes
    <3> QED BY <1>2, <3>1, ValidFormHas
  <2>2. AreHistory(ch, n, Blank, no)
      BY <1>2, <1>11, <2>1, AddIsHistory DEF ch
  <2>3. IsForm(x) /\ Chosen(x) /\ x.title # Null /\ x.dat # Null
    <3>1. IsForm(x) /\ Same(x, AddForm(form, Null), Keys \ {"mastering"})
        BY <1>2, DerivedTypes
    <3>2. form = [h \in Keys |-> form[h]] /\ DOMAIN form = Keys
        BY <1>2, FormFields DEF IsForm, IsRecord
    <3> DEFINE w == AddForm(form, Null)
    <3>3. w.system = form.system /\ w.media = form.media /\ w.title = form.title /\ w.dat = form.dat
        BY <3>2 DEF AddForm, Keys, ScalarFields
    <3> HIDE DEF w, x
    <3>4. x.system = w.system /\ x.media = w.media /\ x.title = w.title /\ x.dat = w.dat
        BY <3>1 DEF Same, Keys, ScalarFields, w
    <3> QED BY <2>1, <3>1, <3>3, <3>4 DEF Chosen
  <2>4. no = FALSE /\ type \in {"Edit", "Disc"} /\ subs' = [subs EXCEPT ![s] = new]
      BY <1>11
  <2>5. stored = ApprovalChanges(type, Blank, ch, ch)
      BY DEF stored
  <2>6. Base(sub) = Blank /\ ~sub.target /\ sub.target \in BOOLEAN
      BY <1>4, <1>9, <1>11 DEF Base
  <2> HIDE DEF n, x, no, type
  <2>7. LET y == ApprovalChanges(type, Blank, ch, ch) IN IsChange(y) /\ AreHistory(y, n, Blank, no)
      BY <1>3, <2>2, BlankBase, ApprovalIs
  <2>8. IsChange(stored) /\ AreHistory(stored, n, Base(sub), no)
      BY <2>5, <2>6, <2>7
  <2>9. AreHistory(stored, NormalForm(x), Base(sub), no)
      BY <2>8 DEF n
  <2>10. OnDisc(disc', nextRing') /\ nextRing' \in Nat
      BY <1>2, <1>11, <2>3, <2>6, <2>8, <2>9, StoredAsPosted
  <2>11. IsSubmission(new, disc', nextRing')
      BY <2>4, <2>10, ApprovedSubmission
  <2> HIDE DEF new
  <2> QED BY <1>8, <2>4, <2>10, <2>11, SubmissionStored
<1> QED BY <1>6, <1>10, <1>11

LEMMA InvStep == EditInv /\ [Next]_vars => EditInv'
<1> SUFFICES ASSUME EditInv, [Next]_vars PROVE EditInv'
    OBVIOUS
<1>1. CASE UNCHANGED vars
  <2>1. disc' = disc /\ subs' = subs /\ pages' = pages /\ nextRing' = nextRing
      BY <1>1 DEF vars
  <2> QED BY <2>1 DEF EditInv
<1>2. ASSUME NEW c \in Clients,
             OpenEdit(c) \/ (\E s \in SubIds : OpenReview(c, s) \/ OpenDraft(c, s)) \/ Fill(c) \/ RefreshReview(c)
      PROVE  EditInv'
    BY <1>2, OpensKeep
<1>3. ASSUME NEW c \in Clients, PostDraft(c) \/ ReturnDraft(c) \/ Retarget(c) PROVE EditInv'
    BY <1>3, UpdatesKeep
<1>4. ASSUME NEW c \in Clients, NEW s \in SubIds, PostEdit(c, s) \/ PostAdd(c, s) PROVE EditInv'
    BY <1>4, PostEditKeeps, PostAddKeeps
<1>5. ASSUME NEW c \in Clients, Approve(c) PROVE EditInv'
    BY <1>5, ApproveKeeps
<1> QED BY <1>1, <1>2, <1>3, <1>4, <1>5 DEF Next

\* Whatever the clients do, each page and each submission is of a shape that
\* the rest relies on, and the disc has entries with ids that were given out.
THEOREM EditInvariance == Spec => []EditInv
<1>1. Init => EditInv
    BY InvInit
<1>2. EditInv /\ [Next]_vars => EditInv'
    BY InvStep
<1> QED BY <1>1, <1>2, PTL DEF Spec

\* The page that was posted is the one that is closed.
LEMMA PageClosed ==
    ASSUME EditInv, NEW c \in Clients, NEW d \in Clients, Close(d), Stores(c)
    PROVE  c = d
<1>1. c # d => pages'[c] = pages[c]
    BY DEF Close, Show, EditInv
<1> QED BY <1>1 DEF Stores, NoPage

LEMMA ReviewedStep ==
    ASSUME EditInv, [Next]_vars, NEW c \in Clients, Stores(c)
    PROVE  AsPosted(disc', StoredForm(c))
<1>1. disc' # disc /\ pages[c].kind \in {"edit", "review"} /\ pages'[c] = NoPage
    BY SMTT(40) DEF Stores
<1>2. PICK d \in Clients : (\E s \in SubIds : PostEdit(d, s) \/ PostAdd(d, s)) \/ Approve(d)
    BY <1>1 DEF Next, vars, OpenEdit, Fill, OpenReview, OpenDraft, PostDraft, ReturnDraft, RefreshReview, Retarget
<1>3. ASSUME NEW s \in SubIds, PostAdd(d, s) PROVE FALSE
    BY <1>1, <1>3 DEF PostAdd, NoPage
<1>4. ASSUME NEW s \in SubIds, PostEdit(d, s) PROVE AsPosted(disc', StoredForm(c))
  <2>1. Close(d) /\ pages[d].kind = "edit"
      BY <1>4 DEF PostEdit
  <2>2. c = d
      BY <2>1, PageClosed
  <2> QED BY <1>1, <1>4, <2>1, <2>2, PostEditKeeps DEF StoredForm
<1>5. CASE Approve(d)
  <2>1. Close(d) /\ pages[d].kind = "review"
      BY <1>5 DEF Approve, Approvable, Reviewing
  <2>2. c = d
      BY <2>1, PageClosed
  <2>3. StoredForm(c) = pages[d].form
      BY <2>1, <2>2 DEF StoredForm
  <2> QED BY <1>5, <2>3, ApproveKeeps
<1> QED BY <1>2, <1>3, <1>4, <1>5

\* The disc has what the approved form showed, whatever was typed, whoever
\* posted in between and however the change set was built.
THEOREM Reviewed == Spec => ApprovedIsReviewed
<1>1. EditInv /\ [Next]_vars => [\A c \in Clients : Stores(c) => AsPosted(disc', StoredForm(c))]_vars
    BY ReviewedStep
<1> QED BY <1>1, EditInvariance, PTL DEF Spec, ApprovedIsReviewed

\* A field is as it was, an empty list is as good as none.
AsBefore(f, v, w) == v = w \/ (IsEmpty(f, v) /\ IsEmpty(f, w))

LEMMA NoScalarChange ==
    ASSUME NEW f, NEW v, NEW w, AsBefore(f, v, w)
    PROVE  ScalarChange(f, w, v) = Absent
    BY DEF AsBefore, ScalarChange

LEMMA ScalarKept ==
    ASSUME NEW x, IsContent(x), NEW form, IsForm(form), form.system = x.system, form.media = x.media,
           NEW f \in ScalarFields, AsBefore(f, form[f], x[f]), f = "ranges" => "ranges" \in Has[x.system]
    PROVE  AsBefore(f, NormalForm(form)[f], x[f])
<1> DEFINE n == NormalForm(form)
           has(g) == g \in Has[x.system]
<1>1. Chosen(form) /\ x.media \in Media
    BY ContentIs DEF Chosen
<1>2. IsNormal(n, form)
    BY <1>1, NormalIs
<1> HIDE DEF n
<1>3. n.system = x.system /\ n.media = x.media
    BY <1>2 DEF IsNormal, Same
<1>4. CASE f \in {"system", "media", "title", "dat", "status"}
    BY <1>2, <1>4 DEF IsNormal, Same, n
<1>5. CASE f = "comments"
  <2>1. x.comments # <<>> /\ form.comments \in Seq(Texts) \cup {Null} /\ x.comments \in Seq(Texts) \cup {Null}
      BY FormFields DEF IsContent, IsForm
  <2>2. <<>> # Null /\ form.comments = x.comments
    <3>1. <<>> \in Seq(Texts)
        OBVIOUS
    <3> QED BY <1>5, <3>1, NullIsNone DEF AsBefore, IsEmpty, ListFields
  <2>3. n.comments = form.comments
      BY <1>2, <2>1, <2>2 DEF IsNormal
  <2> QED BY <1>5, <2>2, <2>3 DEF AsBefore, n
<1>6. CASE f \in {"version", "bca"}
  <2>1. (x.version # Null => has("version")) /\ (x.bca # Null => has("bca"))
      BY DEF IsContent
  <2>2. /\ n.version = IF has("version") THEN form.version ELSE Null
        /\ n.bca = IF has("bca") THEN form.bca ELSE Null
      BY <1>2 DEF IsNormal
  <2>3. (f = "version" => form.version = x.version) /\ (f = "bca" => form.bca = x.bca)
      BY <1>6 DEF AsBefore, IsEmpty, ListFields
  <2>4. (f = "version" => n.version = x.version) /\ (f = "bca" => n.bca = x.bca)
      BY <2>1, <2>2, <2>3
  <2> QED BY <1>6, <2>4 DEF AsBefore, n
<1>7. CASE f = "errors"
  <2>1. x.errors # Null => has("errors") /\ IsCd[x.media] /\ x.errors <= MaxInt
      BY DEF IsContent
  <2>2. form.errors = x.errors
      BY <1>7 DEF AsBefore, IsEmpty, ListFields
  <2>3. n.errors = IF form.errors # Null /\ has("errors") /\ IsCd[x.media] /\ form.errors <= MaxInt THEN form.errors ELSE Null
      BY <1>2, <1>3 DEF IsNormal
  <2>4. n.errors = x.errors
      BY <2>1, <2>2, <2>3
  <2> QED BY <1>7, <2>4 DEF AsBefore, n
<1>8. CASE f = "edc"
  <2>1. x.edc \in BOOLEAN /\ (x.edc = TRUE => has("edc")) /\ x.edc # Null
      BY ContentIs, NullIsNone DEF IsContent
  <2>2. form.edc = x.edc
      BY <1>8, <2>1 DEF AsBefore, IsEmpty, ListFields
  <2>3. n.edc = IF has("edc") /\ form.edc # Null THEN form.edc ELSE FALSE
      BY <1>2, <1>3 DEF IsNormal
  <2>4. n.edc = x.edc
      BY <2>1, <2>2, <2>3
  <2> QED BY <1>8, <2>4 DEF AsBefore, n
<1>9. CASE f = "ranges"
  <2>1. n.ranges = IF form.ranges # Null THEN form.ranges ELSE <<>>
      BY <1>2, <1>3, <1>9 DEF IsNormal
  <2>2. AsBefore("ranges", n.ranges, x.ranges)
      BY <1>9, <2>1 DEF AsBefore, IsEmpty, ListFields
  <2> QED BY <1>9, <2>2 DEF n
<1>10. CASE f = "breaks"
  <2>1. form.breaks \in Seq(Nat) /\ Layers[x.media] \in Nat \ {0}
    <3>1. form.breaks \in Seq(Nat) \cup {Null} /\ form.breaks # Null
        BY FormFields DEF IsForm
    <3> QED BY <1>1, <3>1, ReferenceAssumption
  <2>2. x.breaks # Null => Len(x.breaks) \in 1 .. Layers[x.media] - 1 /\ \A i \in DOMAIN x.breaks : x.breaks[i] <= MaxInt
      BY DEF IsContent
  <2>3. form.breaks = x.breaks \/ form.breaks = <<>>
      BY <1>10, <2>1, NullIsNone DEF AsBefore, IsEmpty, ListFields
  <2>4. Len(form.breaks) < Layers[x.media] /\ \A i \in DOMAIN form.breaks : form.breaks[i] <= MaxInt
    <3>1. CASE form.breaks = <<>>
      <4>1. Len(form.breaks) = 0 /\ DOMAIN form.breaks = {}
          BY <3>1
      <4> QED BY <2>1, <4>1
    <3>2. CASE form.breaks # <<>>
      <4>1. form.breaks = x.breaks /\ x.breaks # Null
          BY <2>1, <2>3, <3>2, NullIsNone
      <4> QED BY <2>1, <2>2, <4>1
    <3> QED BY <3>1, <3>2
  <2>5. n.breaks = form.breaks
      BY <1>2, <1>3, <2>4 DEF IsNormal
  <2> QED BY <1>10, <2>5 DEF n
<1> QED BY <1>4, <1>5, <1>6, <1>7, <1>8, <1>9, <1>10 DEF ScalarFields

LEMMA SetKept ==
    ASSUME NEW x, IsContent(x), NEW form, IsForm(form), form.system = x.system, form.media = x.media,
           NEW f \in SetFields, form[f] = x[f]
    PROVE  NormalForm(form)[f] = x[f]
<1> DEFINE n == NormalForm(form)
<1>1. Chosen(form)
    BY ContentIs DEF Chosen
<1>2. IsNormal(n, form)
    BY <1>1, NormalIs
<1> HIDE DEF n
<1>3. CASE f = "serial"
    BY <1>2, <1>3 DEF IsNormal, Same, n
<1>4. CASE f = "mastering"
  <2>1. n.mastering = IF AllowsMastering[x.media] THEN form.mastering ELSE {}
      BY <1>2 DEF IsNormal, Same
  <2>2. x.mastering # {} => AllowsMastering[x.media]
      BY DEF IsContent
  <2> QED BY <1>4, <2>1, <2>2 DEF n
<1> QED BY <1>3, <1>4 DEF SetFields

\* Entries that are on a disc of the media already are not filtered.
LEMMA RingsKept ==
    ASSUME NEW x, IsContent(x), NEW form, IsForm(form), form.system = x.system, form.media = x.media,
           ToSet(form.rings) \subseteq ToSet(x.rings)
    PROVE  NormalForm(form).rings = form.rings
<1>1. Chosen(form) /\ x.media \in Media /\ RingList(form.rings) /\ RingList(x.rings)
    BY ContentIs, FormFields DEF Chosen, IsForm
<1>2. ASSUME NEW r \in ToSet(form.rings) PROVE IsFit(r, form.media)
  <2>1. PICK k \in DOMAIN x.rings : r = x.rings[k]
      BY DEF ToSet
  <2>2. r \in Rings /\ Layers[x.media] \in Nat
      BY <1>1, <2>1, ReferenceAssumption DEF RingList
  <2>3. ~RingIsEmpty(r) /\ (r.offset # 0 => IsCd[x.media]) /\ Len(r.layers) = Layers[x.media] + 1
      BY <2>1 DEF IsContent
  <2> QED BY <2>2, <2>3 DEF IsFit
<1>3. FilteredRings(form.rings, form.media) = form.rings
  <2> DEFINE rs == form.rings
             m == form.media
  <2>1. RingList(rs) /\ m \in Media /\ \A r \in ToSet(rs) : IsFit(r, m)
      BY <1>1, <1>2
  <2> HIDE DEF rs, m
  <2> QED BY <2>1, FilteredRingsAre DEF rs, m
<1>4. IsNormal(NormalForm(form), form)
    BY <1>1, NormalIs
<1> QED BY <1>3, <1>4 DEF IsNormal

\* A field of a form that is as it was before is not named.
LEMMA NotNamed ==
    ASSUME NEW x, IsContent(x), NEW form, IsForm(form), form.system = x.system, form.media = x.media,
           NEW f \in Keys, f = "ranges" => "ranges" \in Has[x.system],
           f \in ScalarFields => AsBefore(f, form[f], x[f]),
           f \notin ScalarFields => form[f] = x[f],
           NEW base, base[f] = x[f], NEW ch, AreHistory(ch, NormalForm(form), base, TRUE),
           ch.status \in {Absent, ScalarChange("status", base.status, NormalForm(form).status)}
    PROVE  f \notin Named(ch)
<1> DEFINE n == NormalForm(form)
<1>1. CASE f \in ScalarFields
  <2>1. AsBefore(f, n[f], x[f])
      BY <1>1, ScalarKept
  <2>2. ScalarChange(f, base[f], n[f]) = Absent
      BY <2>1, NoScalarChange
  <2>3. ch[f] = Absent
      BY <1>1, <2>2 DEF AreHistory
  <2> QED BY <1>1, <2>3, NoChangesAre DEF Named
<1>2. CASE f \in SetFields
  <2>1. f \notin ScalarFields
      BY <1>2, KindsOfFields
  <2>2. n[f] = x[f]
      BY <1>2, <2>1, SetKept
  <2>3. ch[f] = SetChange(x[f], x[f], TRUE)
      BY <1>2, <2>2 DEF AreHistory
  <2>4. ch[f] = Absent
      BY <2>3 DEF SetChange
  <2> QED BY <1>2, <2>4, NoChangesAre DEF Named
<1>3. CASE f = "rings"
  <2> DEFINE rs == x.rings
             yes == TRUE
  <2>1. form.rings = rs /\ "rings" \notin ScalarFields
      BY <1>3 DEF ScalarFields
  <2>2. n.rings = rs
      BY <2>1, RingsKept
  <2>3. RingList(rs) /\ HasIds(rs) /\ \A k \in DOMAIN rs : rs[k].id # NoId
      BY ContentIs, FormFields DEF IsBase
  <2>4. ch.rings = RingChanges(rs, rs, yes)
      BY <1>3, <2>2 DEF AreHistory
  <2> HIDE DEF rs, yes
  <2>5. RingChanges(rs, rs, yes) = <<>>
      BY <2>3, SameRings
  <2> QED BY <1>3, <2>4, <2>5, NoChangesAre DEF Named
<1> QED BY <1>1, <1>2, <1>3, KindsOfFields

\* What a page shows of a content.
LEMMA ShownAsBefore ==
    ASSUME NEW x, IsContent(x), NEW f \in Keys
    PROVE  /\ f \in ScalarFields => AsBefore(f, FormOf(x)[f], x[f])
           /\ f \notin ScalarFields => FormOf(x)[f] = x[f]
<1> DEFINE y == FormOf(x)
<1>1. IsRecord(x) /\ x.edc # Null
    BY ContentIs, NullIsNone
<1>2. /\ Same(y, x, Keys \ {"breaks", "edc"}) /\ y.breaks = (IF x.breaks = Null THEN <<>> ELSE x.breaks)
      /\ y.edc = x.edc
    BY <1>1, FormOfIs
<1> HIDE DEF y
<1>3. CASE f \notin {"breaks", "edc"}
    BY <1>2, <1>3 DEF Same, AsBefore, y
<1>4. CASE f = "breaks"
    BY <1>2, <1>4 DEF AsBefore, IsEmpty, ListFields, ScalarFields, y
<1>5. CASE f = "edc"
    BY <1>2, <1>5 DEF AsBefore, ScalarFields, y
<1> QED BY <1>3, <1>4, <1>5

LEMMA CauseStep == EditInv => ChangesHaveACause
<1> SUFFICES ASSUME EditInv, NEW c \in Clients, pages[c].kind = "edit"
             PROVE  LET form == FormOf(pages[c].seen)
                        typed == {f \in Keys : pages[c].form[f] # form[f]}
                        overtaken == {f \in Keys : pages[c].seen[f] # disc[f]}
                    IN  typed \cap {"system", "media"} # {}
                        \/ Named(EditChanges(PostedEdit(c), disc))
                              \subseteq typed \cup overtaken \cup ({"ranges"} \ Has[form.system])
    BY DEF ChangesHaveACause
<1> DEFINE x == pages[c].seen
           shown == FormOf(x)
           filled == pages[c].form
           form == PostedEdit(c)
           ch == EditChanges(form, disc)
           typed == {f \in Keys : filled[f] # shown[f]}
           overtaken == {f \in Keys : x[f] # disc[f]}
<1>1. IsContent(x) /\ IsForm(filled) /\ IsForm(form) /\ IsBase(disc)
    BY PostedTypes DEF EditInv, IsPage
<1>2. form.status \in {filled.status, disc.status} /\ \A f \in Keys \ {"status"} : form[f] = filled[f]
  <2>1. filled = [f \in Keys |-> filled[f]] /\ DOMAIN filled = Keys
      BY <1>1, FormFields DEF IsForm, IsRecord
  <2>2. form = [filled EXCEPT !.status = IF CanEditDirectly(c) THEN filled.status ELSE disc.status]
      BY DEF PostedEdit
  <2> HIDE DEF filled, form
  <2> QED BY <2>1, <2>2 DEF Keys, ScalarFields
<1> HIDE DEF x, filled, form
<1>3. IsChange(ch) /\ AreHistory(ch, NormalForm(form), disc, TRUE)
      /\ ch.status = ScalarChange("status", disc.status, NormalForm(form).status)
    BY <1>1, EditHistory
<1>4. shown.system = x.system /\ {"system", "media"} \subseteq Keys \ {"status"} /\ shown.media = x.media
  <2>1. Same(shown, x, Keys \ {"breaks", "edc"})
      BY <1>1, ContentIs, FormOfIs
  <2> QED BY <2>1 DEF Same, Keys, ScalarFields
<1> HIDE DEF ch
<1>5. ASSUME typed \cap {"system", "media"} = {}, NEW f \in Keys, f \notin typed, f \notin overtaken,
             f = "ranges" => "ranges" \in Has[shown.system]
      PROVE  f \notin Named(ch)
  <2>1. form.system = x.system /\ form.media = x.media
      BY <1>2, <1>4, <1>5
  <2>2. filled[f] = shown[f] /\ disc[f] = x[f]
      BY <1>5
  <2>3. (f \in ScalarFields => AsBefore(f, shown[f], x[f])) /\ (f \notin ScalarFields => shown[f] = x[f])
      BY <1>1, ShownAsBefore
  <2>4. form[f] = shown[f] \/ form[f] = x[f]
      BY <1>2, <2>2
  <2>5. (f \in ScalarFields => AsBefore(f, form[f], x[f])) /\ (f \notin ScalarFields => form[f] = x[f])
      BY <2>3, <2>4 DEF AsBefore
  <2>6. f = "ranges" => "ranges" \in Has[x.system]
      BY <1>4, <1>5
  <2> HIDE DEF shown
  <2> QED BY <1>1, <1>3, <2>1, <2>2, <2>5, <2>6, NotNamed
<1>6. typed \cap {"system", "media"} # {} \/ Named(ch) \subseteq typed \cup overtaken \cup ({"ranges"} \ Has[shown.system])
  <2>1. Named(ch) \subseteq Keys
      BY DEF Named
  <2> QED BY <1>5, <2>1
<1> QED BY <1>6 DEF x, filled, form, ch

\* An edit names what its author or another approval changed, and no more.
THEOREM EditsHaveACause == Spec => []ChangesHaveACause
<1>1. EditInv => ChangesHaveACause
    BY CauseStep
<1> QED BY <1>1, EditInvariance, PTL

-----------------------------------------------------------------------------
(* A review that is approved as it is shown.                               *)

LEMMA NothingStripped ==
    ASSUME NEW x \in Seq(Texts) \cup {Null}, x # Null => Delimiter \notin ToSet(x)
    PROVE  WithoutDelimiter(x) = x
<1>1. CASE x = Null
    BY <1>1 DEF WithoutDelimiter
<1>2. CASE x # Null
  <2>1. {i \in DOMAIN x : x[i] # Delimiter} = DOMAIN x
      BY <1>2 DEF ToSet
  <2>2. IsList(x)
      BY <1>2 DEF IsList
  <2>3. Select(x, DOMAIN x) = x
      BY <2>2, SelectAll
  <2> QED BY <1>2, <2>1, <2>3 DEF WithoutDelimiter
<1> QED BY <1>1, <1>2

\* The fields of a review page of a disc.
LEMMA ReviewFormIs ==
    ASSUME EditInv, NEW sub, IsSubmission(sub, disc, nextRing), sub.target
    PROVE  LET r == Resolve(disc, sub.changes, TRUE)
               y == ReviewForm(sub)
           IN  /\ IsRecord(r) /\ HasTypes(r) /\ HasIds(r.rings) /\ y.rings = r.rings
               /\ y.comments = (IF disc.comments # r.comments THEN ComposedComments(disc.comments, r.comments)
                                                              ELSE r.comments)
               /\ y.status = (IF r.status = Null THEN "Unverified" ELSE r.status)
               /\ \A f \in Keys \ {"comments", "status"} : y[f] \in {disc[f], FormOf(r)[f]}
<1> DEFINE yes == TRUE
           r == Resolve(disc, sub.changes, yes)
           y == ReviewForm(sub)
           new == FormOf(r)
           old(f) == sub.target /\ sub.type = "Disc" /\ f \in {"system", "media", "title"}
<1>1. y = [f \in Keys |->
            IF f = "comments" THEN (IF sub.target /\ disc.comments # new.comments
                                    THEN ComposedComments(disc.comments, new.comments)
                                    ELSE new.comments)
            ELSE IF f = "status" /\ new.status = Null THEN "Unverified"
            ELSE IF old(f) THEN disc[f] ELSE new[f]]
  <2>1. Base(sub) = disc
      BY DEF Base
  <2> QED BY <2>1 DEF ReviewForm
<1>2. HasTypes(r) /\ HasIds(r.rings)
  <2> DEFINE ch == sub.changes
  <2>1. IsChange(ch) /\ IsBase(disc)
      BY ContentIs DEF IsSubmission, OnDisc
  <2> HIDE DEF yes, ch
  <2>2. IsResolved(Resolve(disc, ch, yes), disc, ch, yes)
      BY <2>1, ResolveIs
  <2> QED BY <2>2 DEF IsResolved, ch
<1>7. yes = TRUE
    OBVIOUS
<1> HIDE DEF yes, r
<1>3. IsRecord(r)
    BY <1>2, FormFields
<1>4. Same(new, r, Keys \ {"breaks", "edc"})
    BY <1>3, FormOfIs
<1>5. new.comments = r.comments /\ new.status = r.status /\ new.rings = r.rings
    BY <1>4 DEF Same, Keys, ScalarFields
<1> HIDE DEF y, new
<1>6. /\ y.comments = (IF disc.comments # new.comments THEN ComposedComments(disc.comments, new.comments) ELSE new.comments)
      /\ y.status = (IF new.status = Null THEN "Unverified" ELSE new.status)
      /\ y.rings = new.rings
      /\ \A f \in Keys \ {"comments", "status"} : y[f] \in {disc[f], new[f]}
    BY <1>1 DEF Keys, ScalarFields
<1> QED BY <1>2, <1>3, <1>5, <1>6, <1>7 DEF y, new, r

LEMMA MarkedStep == EditInv => ChangesAreMarked
<1> SUFFICES ASSUME EditInv, NEW c \in Clients, Reviewing(c), Shown(c).target, AsShown(c),
                    pages[c].form.system = disc.system, pages[c].form.media = disc.media
             PROVE  LET ch == ReviewedChanges(Shown(c), pages[c].form)
                        unseen == (IF \A r \in ToSet(ch.rings) : r.remove THEN {"rings"} ELSE {})
                                  \cup ({"ranges"} \ Has[disc.system])
                                  \cup (IF disc.comments # Null /\ Delimiter \in ToSet(disc.comments) THEN {"comments"} ELSE {})
                    IN  Named(ch) \ unseen \subseteq Marked(Resolve(disc, Shown(c).changes, TRUE), disc)
    BY DEF ChangesAreMarked
<1> DEFINE sub == Shown(c)
           form == pages[c].form
           ch == ReviewedChanges(sub, form)
           yes == TRUE
           r == Resolve(disc, sub.changes, yes)
           y == ReviewForm(sub)
           marked == Marked(r, disc)
<1>1. IsSubmission(sub, disc, nextRing) /\ IsForm(form) /\ sub.target
    BY DEF EditInv, IsPage, Reviewing, Shown
<1>2. IsContent(disc) /\ IsBase(disc) /\ IsRecord(disc)
    BY <1>1, ContentIs DEF IsSubmission, OnDisc
<1>3. form = y \/ form = [y EXCEPT !.comments = WithoutDelimiter(@)]
    BY DEF AsShown
<1>4. /\ IsRecord(r) /\ HasTypes(r) /\ HasIds(r.rings) /\ y.rings = r.rings
      /\ y.comments = (IF disc.comments # r.comments THEN ComposedComments(disc.comments, r.comments) ELSE r.comments)
      /\ y.status = (IF r.status = Null THEN "Unverified" ELSE r.status)
      /\ \A f \in Keys \ {"comments", "status"} : y[f] \in {disc[f], FormOf(r)[f]}
  <2> DEFINE s == sub
  <2>1. IsSubmission(s, disc, nextRing) /\ s.target
      BY <1>1
  <2>2. yes = TRUE
      OBVIOUS
  <2> HIDE DEF s, yes
  <2> QED BY <2>1, <2>2, ReviewFormIs DEF s
<1>5. IsForm(y)
  <2> DEFINE s == sub
  <2>1. IsChange(s.changes) /\ IsContent(disc)
      BY <1>1, <1>2 DEF IsSubmission
  <2> HIDE DEF s
  <2> QED BY <2>1, ReviewFormTypes DEF s
<1>6. /\ IsChange(ch) /\ AreHistory(ch, NormalForm(form), disc, TRUE)
      /\ ch.status \in {Absent, ScalarChange("status", disc.status, NormalForm(form).status)}
  <2> DEFINE s == sub
             w == form
  <2>1. Base(s) = disc /\ IsForm(w)
      BY <1>1 DEF Base
  <2>2. ReviewedChanges(s, w) \in {EditChanges(w, disc), DiscChanges(w, disc)}
      BY <1>1, <2>1 DEF ReviewedChanges
  <2>4. ch = ReviewedChanges(s, w)
      OBVIOUS
  <2> HIDE DEF s, w, ch
  <2>3. /\ IsChange(EditChanges(w, disc)) /\ AreHistory(EditChanges(w, disc), NormalForm(w), disc, TRUE)
        /\ EditChanges(w, disc).status = ScalarChange("status", disc.status, NormalForm(w).status)
        /\ IsChange(DiscChanges(w, disc)) /\ AreHistory(DiscChanges(w, disc), NormalForm(w), disc, TRUE)
        /\ DiscChanges(w, disc).status = Absent
      BY <1>2, <2>1, EditHistory
  <2> QED BY <2>2, <2>3, <2>4 DEF w
<1>7. form.system = disc.system /\ form.media = disc.media
    OBVIOUS
<1> HIDE DEF sub, form, ch, yes, r, y
<1>8. /\ form.comments \in {y.comments, WithoutDelimiter(y.comments)}
      /\ \A f \in Keys \ {"comments"} : form[f] = y[f]
  <2>1. y = [f \in Keys |-> y[f]] /\ DOMAIN y = Keys
      BY <1>5, FormFields DEF IsForm, IsRecord
  <2> QED BY <1>3, <2>1 DEF Keys, ScalarFields
\* What is not marked is resolved to what the disc has.
<1>9. ASSUME NEW f \in Keys \ {"rings"}, f \notin marked
      PROVE  r[f] = disc[f] \/ (f \in ScalarFields /\ IsEmpty(f, r[f]) /\ IsEmpty(f, disc[f]))
    BY <1>9 DEF Marked
<1>10. disc.status # Null /\ disc.edc # Null
    BY <1>2, ContentIs, NullIsNone
<1>11. ASSUME NEW f \in Keys \ {"rings", "comments", "status"}, f \notin marked
       PROVE  (f \in ScalarFields => AsBefore(f, form[f], disc[f])) /\ (f \notin ScalarFields => form[f] = disc[f])
  <2>1. form[f] \in {disc[f], FormOf(r)[f]}
      BY <1>4, <1>8
  <2>2. /\ Same(FormOf(r), r, Keys \ {"breaks", "edc"}) /\ FormOf(r).breaks = (IF r.breaks = Null THEN <<>> ELSE r.breaks)
        /\ FormOf(r).edc = (IF r.edc = Null THEN FALSE ELSE r.edc)
      BY <1>4, FormOfIs
  <2>3. CASE f \notin {"breaks", "edc"}
      BY <1>9, <1>11, <2>1, <2>2, <2>3 DEF Same, AsBefore
  <2>4. CASE f = "breaks"
      BY <1>9, <1>11, <2>1, <2>2, <2>4 DEF AsBefore, IsEmpty, ListFields, ScalarFields
  <2>5. CASE f = "edc"
    <3>1. r.edc = disc.edc
        BY <1>9, <1>10, <1>11, <2>5 DEF IsEmpty, ListFields
    <3> QED BY <1>10, <2>1, <2>2, <2>5, <3>1 DEF AsBefore, ScalarFields
  <2> QED BY <2>3, <2>4, <2>5
<1>12. ASSUME "status" \notin marked PROVE form.status = disc.status
  <2>1. r.status = disc.status
      BY <1>9, <1>10, <1>12 DEF IsEmpty, ListFields, Keys, ScalarFields
  <2> QED BY <1>4, <1>8, <1>10, <2>1 DEF Keys, ScalarFields
<1>13. ASSUME "comments" \notin marked, disc.comments # Null => Delimiter \notin ToSet(disc.comments)
       PROVE  form.comments = disc.comments
  <2>1. r.comments = disc.comments
      BY <1>9, <1>13 DEF IsEmpty, ListFields, Keys, ScalarFields
  <2>2. y.comments = disc.comments
      BY <1>4, <2>1
  <2>3. disc.comments \in Seq(Texts) \cup {Null}
      BY <1>2, FormFields DEF IsContent
  <2> DEFINE text == disc.comments
  <2> HIDE DEF text
  <2>4. WithoutDelimiter(text) = text
      BY <1>13, <2>3, NothingStripped DEF text
  <2> QED BY <1>8, <2>2, <2>4 DEF text
<1>14. ASSUME "rings" \notin marked PROVE \A q \in ToSet(ch.rings) : q.remove
  <2>1. ToSet(r.rings) \subseteq ToSet(disc.rings)
      BY <1>14 DEF Marked
  <2>2. form.rings = r.rings
      BY <1>4, <1>8 DEF Keys
  <2>3. NormalForm(form).rings = form.rings
      BY <1>1, <1>2, <1>7, <2>1, <2>2, RingsKept DEF form
  <2> DEFINE old == disc.rings
             new == form.rings
             all == TRUE
  <2>4. RingList(old) /\ HasIds(old) /\ (\A k \in DOMAIN old : old[k].id # NoId) /\ RingList(new) /\ HasIds(new)
        /\ ToSet(new) \subseteq ToSet(old)
    <3>1. RingList(old) /\ RingList(new)
        BY <1>1, <1>2, FormFields DEF IsForm, IsContent, form
    <3>2. HasIds(new)
        BY <1>1 DEF IsForm, form
    <3> QED BY <1>2, <2>1, <2>2, <3>1, <3>2 DEF IsBase
  <2>5. ch.rings = RingChanges(old, new, all)
      BY <1>6, <2>3 DEF AreHistory
  <2> HIDE DEF old, new, all
  <2>6. \A q \in ToSet(RingChanges(old, new, all)) : q.remove
      BY <2>4, SameRings
  <2> QED BY <2>5, <2>6
<1>15. ASSUME NEW f \in Keys, f \notin marked, f # "rings", f = "ranges" => "ranges" \in Has[disc.system],
              f = "comments" => ~(disc.comments # Null /\ Delimiter \in ToSet(disc.comments))
       PROVE  f \notin Named(ch)
  <2>1. (f \in ScalarFields => AsBefore(f, form[f], disc[f])) /\ (f \notin ScalarFields => form[f] = disc[f])
      BY <1>11, <1>12, <1>13, <1>15 DEF AsBefore
  <2>2. IsForm(form)
      BY <1>1
  <2> QED BY <1>2, <1>6, <1>7, <1>15, <2>1, <2>2, NotNamed
<1>16. ASSUME NEW f \in Named(ch), f \notin marked, f = "rings" => ~\A q \in ToSet(ch.rings) : q.remove,
              f = "ranges" => "ranges" \in Has[disc.system],
              f = "comments" => ~(disc.comments # Null /\ Delimiter \in ToSet(disc.comments))
       PROVE  FALSE
  <2>1. f \in Keys
      BY DEF Named
  <2> QED BY <1>14, <1>15, <1>16, <2>1
<1> DEFINE unseen == (IF \A q \in ToSet(ch.rings) : q.remove THEN {"rings"} ELSE {})
                     \cup ({"ranges"} \ Has[disc.system])
                     \cup (IF disc.comments # Null /\ Delimiter \in ToSet(disc.comments) THEN {"comments"} ELSE {})
<1>17. Named(ch) \ unseen \subseteq marked
    BY <1>16
<1> QED BY <1>17 DEF ch, sub, form, r, yes

\* Approving a page as it is shown changes nothing that the page does not mark,
\* but for what the property names.
THEOREM ReviewsAreMarked == Spec => []ChangesAreMarked
<1>1. EditInv => ChangesAreMarked
    BY MarkedStep
<1> QED BY <1>1, EditInvariance, PTL

\* Entries that are alike come before the same ones: of those without ids.
LEMMA AlikeBefore ==
    ASSUME NEW a \in Rings, NEW b \in Rings, NEW p \in Rings, NEW q \in Rings,
           Alike(a, p), Alike(b, q), a.id = NoId, RingBefore(a, b)
    PROVE  RingBefore(p, q)
<1> DEFINE La(i) == LayerAt(a, i).code
           Lb(i) == LayerAt(b, i).code
           Lp(i) == LayerAt(p, i).code
           Lq(i) == LayerAt(q, i).code
<1>1. \A r \in Rings : DOMAIN r.layers \subseteq Nat \ {0} /\ \A i \in DOMAIN r.layers : LayerAt(r, i).code \in Nat
  <2>1. ASSUME NEW r \in Rings PROVE DOMAIN r.layers \subseteq Nat \ {0} /\ \A i \in DOMAIN r.layers : LayerAt(r, i).code \in Nat
    <3>1. DOMAIN r.layers \subseteq Nat \ {0} /\ \A i \in Nat : LayerAt(r, i) \in [code : Nat, tools : SUBSET Texts]
        BY RingLayers
    <3> QED BY <3>1
  <2> QED BY <2>1
<1>2. \A i \in Nat \ {0} : La(i) = Lp(i) /\ Lb(i) = Lq(i)
    BY DEF Alike
<1>3. \A i : (i \notin DOMAIN p.layers => Lp(i) = 0) /\ (i \notin DOMAIN q.layers => Lq(i) = 0)
             /\ (i \notin DOMAIN a.layers => La(i) = 0) /\ (i \notin DOMAIN b.layers => Lb(i) = 0)
    BY DEF LayerAt, EmptyLayer
<1> DEFINE here == DOMAIN a.layers \cup DOMAIN b.layers
           there == DOMAIN p.layers \cup DOMAIN q.layers
<1>4. here \subseteq Nat \ {0} /\ there \subseteq Nat \ {0}
    BY <1>1
<1>5. \A i \in Nat \ {0} : i \notin there => Lp(i) = Lq(i)
    BY <1>3
<1>6. /\ \A i \in here : La(i) \in Nat /\ Lb(i) \in Nat
      /\ \A i \in Nat \ {0} : i \notin here => La(i) = Lb(i)
    BY <1>1, <1>3
<1>7. a.offset = p.offset /\ a.comment = p.comment /\ b.offset = q.offset /\ b.comment = q.comment
    BY DEF Alike
<1>8. \/ \E i \in here : La(i) < Lb(i) /\ \A j \in 1 .. i - 1 : La(j) = Lb(j)
      \/ (\A i \in here : La(i) = Lb(i)) /\ (a.offset < b.offset \/ (a.offset = b.offset /\ a.comment < b.comment))
    BY DEF RingBefore
<1>9. /\ (\E i \in there : Lp(i) < Lq(i) /\ \A j \in 1 .. i - 1 : Lp(j) = Lq(j)) => RingBefore(p, q)
      /\ (\A i \in there : Lp(i) = Lq(i)) /\ (p.offset < q.offset \/ (p.offset = q.offset /\ p.comment < q.comment))
         => RingBefore(p, q)
    BY DEF RingBefore
<1> HIDE DEF La, Lb, Lp, Lq, here, there
<1>10. ASSUME NEW i \in here, La(i) < Lb(i), \A j \in 1 .. i - 1 : La(j) = Lb(j) PROVE RingBefore(p, q)
  <2>1. i \in Nat \ {0} /\ Lp(i) < Lq(i) /\ Lp(i) # Lq(i)
      BY <1>2, <1>4, <1>6, <1>10
  <2>2. i \in there
      BY <1>5, <2>1
  <2>3. \A j \in 1 .. i - 1 : Lp(j) = Lq(j)
      BY <1>2, <1>10, <2>1
  <2> QED BY <1>9, <2>1, <2>2, <2>3
<1>11. ASSUME \A i \in here : La(i) = Lb(i), a.offset < b.offset \/ (a.offset = b.offset /\ a.comment < b.comment)
       PROVE  RingBefore(p, q)
  <2>1. \A i \in Nat \ {0} : La(i) = Lb(i)
      BY <1>6, <1>11
  <2>2. \A i \in there : Lp(i) = Lq(i)
      BY <1>2, <1>4, <2>1
  <2> QED BY <1>7, <1>9, <1>11, <2>2
<1> QED BY <1>8, <1>10, <1>11

\* Entries that are alike are added with the same change.
LEMMA AlikeChange ==
    ASSUME NEW q \in Rings, NEW r \in Rings, Alike(q, r)
    PROVE  RingEntryChange(EmptyRing, q) = RingEntryChange(EmptyRing, r)
<1> DEFINE new(x) == {i \in 1 .. MostLayers(EmptyRing.layers, x.layers) : LayerAt(EmptyRing, i) # LayerAt(x, i)}
<1>1. \A x \in Rings : new(x) = {i \in Nat \ {0} : LayerAt(x, i) # EmptyLayer}
  <2>1. ASSUME NEW x \in Rings PROVE new(x) = {i \in Nat \ {0} : LayerAt(x, i) # EmptyLayer}
    <3>1. x.layers \in Seq([code : Nat, tools : SUBSET Texts])
        BY DEF Rings
    <3>2. DOMAIN x.layers = 1 .. Len(x.layers) /\ Len(x.layers) \in Nat
        BY <3>1
    <3>3. EmptyRing.layers = <<>> /\ Len(<<>>) = 0
        BY DEF EmptyRing
    <3>4. MostLayers(EmptyRing.layers, x.layers) = Len(x.layers)
        BY <3>2, <3>3 DEF MostLayers
    <3>5. \A i \in Nat \ {0} : LayerAt(x, i) # EmptyLayer => i \in 1 .. Len(x.layers)
        BY <3>2 DEF LayerAt
    <3>6. new(x) = {i \in 1 .. Len(x.layers) : LayerAt(x, i) # EmptyLayer}
        BY <3>4, EmptyRingIs
    <3> QED BY <3>2, <3>5, <3>6
  <2> QED BY <2>1
<1>2. \A i \in Nat \ {0} : LayerAt(q, i) = LayerAt(r, i)
    BY DEF Alike
<1>3. new(q) = new(r) /\ new(q) \subseteq Nat \ {0}
    BY <1>1, <1>2
<1> DEFINE Of(x, K) == [id |-> EmptyRing.id, remove |-> FALSE,
                        offset |-> TextChange(EmptyRing.offset, x.offset),
                        comment |-> TextChange(EmptyRing.comment, x.comment),
                        layers |-> [i \in K |->
                            [code |-> TextChange(LayerAt(EmptyRing, i).code, LayerAt(x, i).code),
                             tools |-> TextChange(LayerAt(EmptyRing, i).tools, LayerAt(x, i).tools)]]]
<1>4. \A x : RingEntryChange(EmptyRing, x) = Of(x, new(x))
    BY DEF RingEntryChange
<1>5. Of(q, new(q)) = Of(r, new(q))
  <2> DEFINE K == new(q)
  <2>1. \A i \in K : LayerAt(q, i) = LayerAt(r, i)
      BY <1>2, <1>3
  <2>2. q.offset = r.offset /\ q.comment = r.comment
      BY DEF Alike
  <2> HIDE DEF K
  <2> QED BY <2>1, <2>2 DEF K
<1> QED BY <1>3, <1>4, <1>5

-----------------------------------------------------------------------------
(* Additions on no entries at all.                                         *)

AreAdditions(chs) == ChangeList(chs) /\ \A m \in DOMAIN chs : chs[m].id = NoId /\ chs[m].remove = FALSE

NoRings == <<>>

LEMMA NoRingsAre ==
    /\ RingList(NoRings) /\ HasIds(NoRings) /\ Len(NoRings) = 0 /\ DOMAIN NoRings = {} /\ IsList(NoRings)
    /\ RingIds(NoRings) = {} /\ ToSet(NoRings) = {} /\ SortRings(NoRings) = NoRings
<1>1. NoRings \in Seq(Rings) /\ DOMAIN NoRings = {} /\ Len(NoRings) = 0
    BY DEF NoRings
<1>2. RingList(NoRings) /\ IsList(NoRings)
    BY <1>1, InSeq DEF RingList
<1>3. ToSet(NoRings) = {} /\ RingIds(NoRings) = {} /\ HasIds(NoRings)
    BY <1>1 DEF ToSet, RingIds, HasIds
<1> QED BY <1>1, <1>2, <1>3, SortedAgain

LEMMA ModesAgree ==
    ASSUME NEW chs, AreAdditions(chs), NEW removed
    PROVE  \A n \in 0 .. Len(chs) :
              Applications(NoRings, chs, TRUE, removed)[n] = Applications(NoRings, chs, FALSE, removed)[n]
<1> DEFINE yes == TRUE
           no == FALSE
           a == Applications(NoRings, chs, yes, removed)
           b == Applications(NoRings, chs, no, removed)
           m == Len(chs)
           Bad == {n \in 0 .. m : a[n] # b[n]}
<1>1. m \in Nat /\ DOMAIN chs = 1 .. m /\ ChangeList(chs) /\ \A n \in 1 .. m : chs[n].id = NoId
    BY DEF AreAdditions, ChangeList, IsList
<1>2. a[0] = [rings |-> SortRings(NoRings), added |-> <<>>] /\ \A n \in 1 .. m : a[n] = ApplyEntry(a[n - 1], chs[n], yes, removed)
  <2> HIDE DEF yes
  <2> QED BY <1>1, ApplicationsAre
<1>3. b[0] = [rings |-> SortRings(NoRings), added |-> <<>>] /\ \A n \in 1 .. m : b[n] = ApplyEntry(b[n - 1], chs[n], no, removed)
  <2> HIDE DEF no
  <2> QED BY <1>1, ApplicationsAre
<1>4. \A n \in 0 .. m : DOMAIN b[n].rings = {}
  <2>1. \A n \in 0 .. m : IsState(b[n], Len(NoRings))
    <3> HIDE DEF no
    <3> QED BY <1>1, NoRingsAre, RunKeeps
  <2> QED BY <2>1, NoRingsAre DEF IsState, RingList, IsList
<1>5. \A n \in 0 .. m : \A c : c.id = NoId => ApplyEntry(b[n], c, yes, removed) = ApplyEntry(b[n], c, no, removed)
  <2> SUFFICES ASSUME NEW n \in 0 .. m, NEW c, c.id = NoId
               PROVE  ApplyEntry(b[n], c, yes, removed) = ApplyEntry(b[n], c, no, removed)
      OBVIOUS
  <2> DEFINE s == b[n]
  <2>1. DOMAIN s.rings = {}
      BY <1>4
  <2> HIDE DEF s
  <2>2. Targets(s.rings, c, yes, removed) = {} /\ Targets(s.rings, c, no, removed) = {}
      BY <2>1 DEF Targets, MatchingRings
  <2> HIDE DEF yes, no
  <2>3. ApplyEntry(s, c, yes, removed) = ApplyEntry(s, c, no, removed)
      BY <2>2 DEF ApplyEntry
  <2> QED BY <2>3 DEF s
<1> HIDE DEF a, b, yes, no
<1>6. Bad = {}
  <2> SUFFICES ASSUME Bad # {} PROVE FALSE
      OBVIOUS
  <2>1. PICK n \in Bad : \A j \in Bad : n <= j
    <3>1. Bad \in SUBSET Nat
        BY <1>1
    <3> HIDE DEF Bad
    <3> QED BY <3>1, LeastNumber
  <2>2. n # 0 /\ n \in 0 .. m
      BY <1>2, <1>3, <2>1
  <2>3. n \in 1 .. m /\ n - 1 \in 0 .. m /\ ~(n <= n - 1)
      BY <1>1, <2>2
  <2>4. a[n - 1] = b[n - 1]
      BY <2>1, <2>3
  <2>5. a[n] = b[n]
      BY <1>1, <1>2, <1>3, <1>5, <2>3, <2>4
  <2> QED BY <2>1, <2>5
<1> QED BY <1>6 DEF a, b, yes, no

LEMMA AppliedToNone ==
    ASSUME NEW chs, AreAdditions(chs)
    PROVE  ApplyRings(NoRings, chs, TRUE) = SortRings(Additions(chs))
<1> DEFINE removed == RemovedIds(chs)
           L == Len(chs)
           done == Applications(NoRings, chs, TRUE, removed)[L]
           s == Additions(chs)
           so == SortRings(NoRings)
<1>1. L \in Nat /\ DOMAIN chs = 1 .. L /\ ChangeList(chs) /\ L \in 0 .. L
    BY DEF AreAdditions, ChangeList, IsList
<1>2. PlainChanges(NoRings, chs)
    BY NoRingsAre DEF PlainChanges, AreAdditions
<1>3. LET a == Applications(NoRings, chs, FALSE, removed)[L] IN
      IsState(a, Len(NoRings)) /\ PlainlyDone(chs, L, so, a)
  <2> HIDE DEF removed, so
  <2> QED BY <1>2, PlainRun DEF so
<1>4. IsState(done, 0) /\ done.added = Select(s, AddedUpTo(chs, L))
  <2>1. done = Applications(NoRings, chs, FALSE, removed)[L]
    <3> HIDE DEF removed
    <3> QED BY <1>1, ModesAgree
  <2> HIDE DEF done
  <2> QED BY <1>3, <2>1, NoRingsAre DEF PlainlyDone
<1>5. IsList(s) /\ DOMAIN s = 1 .. L /\ RingList(s) /\ Len(s) = L
    BY <1>1, AdditionsAre DEF RingList
<1>6. AddedUpTo(chs, L) = 1 .. L
    BY <1>1 DEF AddedUpTo, AreAdditions
<1> HIDE DEF done, s, removed
<1>7. done.added = s
    BY <1>4, <1>5, <1>6, SelectAll
<1>8. DOMAIN done.rings = {} /\ IsList(done.rings)
    BY <1>4 DEF IsState, RingList, IsList
<1> DEFINE K == {k \in DOMAIN done.rings : done.rings[k].id \notin removed}
           kept == Select(done.rings, K)
<1>9. K = {}
    BY <1>8
<1>10. kept = <<>>
  <2> DEFINE t == done.rings
  <2>1. IsList(t)
      BY <1>8
  <2> HIDE DEF t
  <2>2. Select(t, {}) = <<>>
      BY <2>1, SelectNone
  <2> QED BY <1>9, <2>2 DEF t
<1>11. NoRings \o s = s
  <2> DEFINE u == NoRings \o s
  <2>1. IsJoin(u, NoRings, s)
      BY <1>5, NoRingsAre, Joined
  <2> HIDE DEF u
  <2>2. Len(u) = L /\ IsList(u) /\ \A i \in 1 .. L : u[i] = s[i]
      BY <1>1, <1>5, <2>1, NoRingsAre DEF IsJoin
  <2> QED BY <1>5, <2>2 DEF IsList, u
<1>12. ApplyRings(NoRings, chs, TRUE) = SortRings(kept \o done.added)
    BY DEF ApplyRings, done, removed
<1> HIDE DEF kept
<1> QED BY <1>7, <1>10, <1>11, <1>12 DEF NoRings, s

\* What the additions of some entries are, on no entries at all.
LEMMA AdditionsOfNone ==
    ASSUME NEW new, RingList(new), HasIds(new)
    PROVE  LET chs == RingChanges(NoRings, new, FALSE) IN
           /\ AreAdditions(chs) /\ chs = TellingChanges(NoRings, new)
           /\ \A m \in DOMAIN chs : ~SaysNothing(chs[m])
           /\ RingList(Additions(chs)) /\ DOMAIN Additions(chs) = DOMAIN chs
           /\ \A m \in DOMAIN chs : Additions(chs)[m] = Plain(EmptyRing, chs[m]) /\ Additions(chs)[m].id = NoId
                                    /\ RingEntryChange(EmptyRing, Additions(chs)[m]) = chs[m]
           /\ \A j, m \in DOMAIN chs : j < m => ~RingBefore(Additions(chs)[m], Additions(chs)[j])
<1> DEFINE no == FALSE
           chs == RingChanges(NoRings, new, no)
           s == TellingChanges(NoRings, new)
           t == RemovalsIf(no, NoRings, new)
           K == Telling(NoRings, new)
           order == Ascending(K)
           sn == SortRings(new)
           e == Additions(chs)
<1>1. IsJoin(chs, s, t) /\ PlainChanges(NoRings, chs)
  <2> HIDE DEF no
  <2> QED BY NoRingsAre, RingChangesAre
<1>2. AreTelling(s, order, NoRings, new) /\ ArePlaced(s, order, NoRings, new)
    BY NoRingsAre, TellingChangesAre
<1>3. t = <<>> /\ Len(<<>>) = 0
    BY DEF RemovalsIf
<1> HIDE DEF no, chs, t
<1>4. chs = s
  <2>1. IsList(chs) /\ IsList(s) /\ Len(chs) = Len(s) /\ \A i \in DOMAIN s : chs[i] = s[i]
      BY <1>1, <1>2, <1>3 DEF IsJoin, ArePlaced, IsList
  <2> HIDE DEF s
  <2> QED BY <2>1 DEF IsList
<1>5. /\ ChangeList(chs) /\ \A m \in DOMAIN chs : chs[m].remove = FALSE /\ chs[m].id = NoId
  <2>1. \A m \in DOMAIN s : s[m].remove = FALSE /\ s[m].id = NoId
      BY <1>2, NoRingsAre DEF ArePlaced
  <2> QED BY <1>1, <1>4, <2>1 DEF PlainChanges
<1>6. AreAdditions(chs)
    BY <1>5 DEF AreAdditions
<1>7. RingList(e) /\ DOMAIN e = DOMAIN chs /\ \A m \in DOMAIN chs : e[m] = Plain(EmptyRing, chs[m]) /\ e[m].id = NoId
    BY <1>5, AdditionsAre
<1>8. RingList(sn) /\ DOMAIN sn = 1 .. Len(sn) /\ \A j, k \in DOMAIN sn : j < k => ~RingBefore(sn[k], sn[j])
    BY SortedRings, SortsInOrder DEF RingList, IsList
<1>9. /\ K \subseteq DOMAIN sn /\ order \in [DOMAIN chs -> K]
      /\ \A j, m \in DOMAIN chs : j < m <=> order[j] < order[m]
      /\ \A m \in DOMAIN chs : chs[m] = RingEntryChange(StoredEntry(NoRings, sn[order[m]]), sn[order[m]])
      /\ K = {i \in DOMAIN sn : ~Alike(StoredEntry(NoRings, sn[i]), sn[i])}
  <2>1. ArePlaced(chs, order, NoRings, new)
      BY <1>2, <1>4
  <2>2. ArePlaced(chs, order, NoRings, new) =>
      /\ order \in [DOMAIN chs -> K]
      /\ \A j, m \in DOMAIN chs : j < m <=> order[j] < order[m]
      /\ \A m \in DOMAIN chs : chs[m] = RingEntryChange(StoredEntry(NoRings, sn[order[m]]), sn[order[m]])
      /\ K = {i \in DOMAIN sn : ~Alike(StoredEntry(NoRings, sn[i]), sn[i])}
      BY DEF ArePlaced
  <2> QED BY <2>1, <2>2
<1> HIDE DEF sn, K, order, e
<1>10. \A i \in DOMAIN sn : sn[i] \in Rings /\ StoredEntry(NoRings, sn[i]) = EmptyRing
  <2>1. ASSUME NEW i \in DOMAIN sn PROVE sn[i] \in Rings /\ StoredEntry(NoRings, sn[i]) = EmptyRing
    <3>1. sn[i] \in Rings
        BY <1>8 DEF RingList
    <3> DEFINE q == sn[i]
    <3> HIDE DEF q
    <3>2. StoredEntry(NoRings, q) = EmptyRing
        BY <3>1, NoRingsAre DEF StoredEntry
    <3> QED BY <3>1, <3>2 DEF q
  <2> QED BY <2>1
<1>11. ASSUME NEW m \in DOMAIN chs
       PROVE  /\ order[m] \in DOMAIN sn /\ sn[order[m]] \in Rings /\ e[m] \in Rings
              /\ Alike(e[m], sn[order[m]]) /\ RingEntryChange(EmptyRing, e[m]) = chs[m]
              /\ ~SaysNothing(chs[m])
  <2> DEFINE r == sn[order[m]]
             q == e[m]
             c == chs[m]
  <2>1. order[m] \in K /\ order[m] \in DOMAIN sn /\ r \in Rings /\ c = RingEntryChange(EmptyRing, r)
      BY <1>9, <1>10
  <2>2. q = Plain(EmptyRing, c) /\ q \in Rings
      BY <1>7 DEF RingList
  <2>5. ~Alike(EmptyRing, r)
      BY <1>9, <1>10, <2>1
  <2> HIDE DEF r, q, c
  <2>3. Alike(q, r)
      BY <2>1, <2>2, EmptyRingIs, EntryChanged DEF Plain
  <2>4. RingEntryChange(EmptyRing, q) = c
      BY <2>1, <2>2, <2>3, AlikeChange
  <2>6. ~SaysNothing(c)
      BY <2>1, <2>5, EmptyRingIs, EntryChanged
  <2> QED BY <2>1, <2>2, <2>3, <2>4, <2>6 DEF r, q, c
<1>12. ASSUME NEW j \in DOMAIN chs, NEW m \in DOMAIN chs, j < m PROVE ~RingBefore(e[m], e[j])
  <2> DEFINE a == e[m]
             b == e[j]
             p == sn[order[m]]
             q == sn[order[j]]
  <2>1. a \in Rings /\ b \in Rings /\ p \in Rings /\ q \in Rings /\ Alike(a, p) /\ Alike(b, q)
      BY <1>11
  <2>2. a.id = NoId
      BY <1>7
  <2>3. ~RingBefore(p, q)
    <3>1. order[j] < order[m] /\ order[j] \in DOMAIN sn /\ order[m] \in DOMAIN sn
        BY <1>9, <1>11, <1>12
    <3> QED BY <1>8, <3>1
  <2> HIDE DEF a, b, p, q
  <2>4. ~RingBefore(a, b)
      BY <2>1, <2>2, <2>3, AlikeBefore
  <2> QED BY <2>4 DEF a, b
<1>13. no = FALSE
    BY DEF no
<1> QED BY <1>4, <1>6, <1>7, <1>11, <1>12, <1>13 DEF chs, e, s

\* Additions on no entries at all say what they said before.
LEMMA AddedAgain ==
    ASSUME NEW new, RingList(new), HasIds(new)
    PROVE  LET chs == RingChanges(NoRings, new, FALSE)
               e == Additions(chs)
           IN  /\ RingList(e) /\ HasIds(e) /\ ApplyRings(NoRings, chs, TRUE) = e
               /\ RingChanges(NoRings, e, FALSE) = chs
<1> DEFINE no == FALSE
           chs == RingChanges(NoRings, new, no)
           e == Additions(chs)
<1>1. /\ AreAdditions(chs) /\ (\A m \in DOMAIN chs : ~SaysNothing(chs[m])) /\ RingList(e) /\ DOMAIN e = DOMAIN chs
      /\ \A m \in DOMAIN chs : e[m].id = NoId /\ RingEntryChange(EmptyRing, e[m]) = chs[m]
      /\ \A j, m \in DOMAIN chs : j < m => ~RingBefore(e[m], e[j])
    BY AdditionsOfNone
<1>2. HasIds(e)
    BY <1>1 DEF HasIds
<1>8. no = FALSE
    OBVIOUS
<1> HIDE DEF chs, no
<1>3. ApplyRings(NoRings, chs, TRUE) = SortRings(e)
    BY <1>1, AppliedToNone
<1> HIDE DEF e
<1>4. SortRings(e) = e
    BY <1>1, SortedAgain
<1> DEFINE again == RingChanges(NoRings, e, FALSE)
           t == KeptChanges(NoRings, e)
           K == Telling(NoRings, e)
<1>5. again = TellingChanges(NoRings, e)
    BY <1>1, <1>2, AdditionsOfNone
<1>6. t = chs
  <2>1. IsList(chs) /\ IsList(e)
      BY <1>1 DEF AreAdditions, ChangeList, RingList
  <2>2. t = [i \in DOMAIN e |-> RingEntryChange(StoredEntry(NoRings, e[i]), e[i])]
      BY <1>4 DEF KeptChanges
  <2>3. \A i \in DOMAIN e : RingEntryChange(StoredEntry(NoRings, e[i]), e[i]) = chs[i]
    <3>1. ASSUME NEW i \in DOMAIN e PROVE RingEntryChange(StoredEntry(NoRings, e[i]), e[i]) = chs[i]
      <4> DEFINE q == e[i]
      <4>1. RingEntryChange(EmptyRing, q) = chs[i]
          BY <1>1
      <4> HIDE DEF q
      <4>2. StoredEntry(NoRings, q) = EmptyRing
          BY NoRingsAre DEF StoredEntry
      <4> QED BY <4>1, <4>2 DEF q
    <3> QED BY <3>1
  <2> HIDE DEF t
  <2> QED BY <1>1, <2>1, <2>2, <2>3 DEF IsList
<1>7. K = DOMAIN chs
    BY <1>1, <1>6 DEF Telling
<1>9. again = Select(chs, DOMAIN chs)
    BY <1>5, <1>6, <1>7 DEF TellingChanges
<1>10. IsList(chs)
    BY <1>1 DEF AreAdditions, ChangeList
<1>11. again = chs
    BY <1>9, <1>10, SelectAll
<1> QED BY <1>1, <1>2, <1>3, <1>4, <1>8, <1>11 DEF chs, e

\* What every change set of Add Disc says.
IsAddition(ch) ==
    /\ IsChange(ch) /\ ch.status = Absent
    /\ \A f \in ScalarFields : ch[f] = Absent \/ ~IsEmpty(f, ch[f])
    /\ ch.comments # <<>>
    /\ ch.errors # Absent => ch.errors <= MaxInt
    /\ ch.breaks # Absent => \A i \in DOMAIN ch.breaks : ch.breaks[i] <= MaxInt
    /\ \A f \in SetFields : ch[f] = Absent \/ (ch[f].remove = {} /\ ch[f].add # {})
    /\ ch.bca # Absent => ch.mastering \in {Absent, [add |-> {ch.bca.tail}, remove |-> {}]}
    /\ \E new : RingList(new) /\ HasIds(new) /\ ch.rings = RingChanges(NoRings, new, FALSE)

\* A system and a media have a place for a field of a change set.
Placed(f, ch, system, media) ==
    LET has == Has[system]
        misread == IF ~AllowsMastering[media] THEN ch.mastering # Absent
                   ELSE ch.bca # Absent /\ (ch.bca.bytes # WholeBca \/ ch.mastering = Absent)
    IN  /\ f = "version" => ch.version = Absent \/ "version" \in has
        /\ f = "errors" => ch.errors = Absent \/ ("errors" \in has /\ IsCd[media])
        /\ f = "edc" => ch.edc \in {Absent, FALSE} \/ "edc" \in has
        /\ f = "ranges" => ch.ranges = Absent \/ "ranges" \in has
        /\ f = "breaks" => ch.breaks = Absent \/ Len(ch.breaks) < Layers[media]
        /\ f = "bca" => (ch.bca = Absent \/ "bca" \in has) /\ ~misread
        /\ f = "mastering" => ~misread
        /\ f = "rings" => \A c \in ToSet(ch.rings) :
               (c.offset # Absent => IsCd[media]) /\ \A i \in DOMAIN c.layers : i <= Layers[media] + 1

\* A change set that was made of a new disc.
IsDump(ch) ==
    /\ {ch.system, ch.media, ch.edc} \cap {Absent} = {}
    /\ ch.system \in Systems /\ ch.media \in MediaOf[ch.system]
    /\ \A f \in Keys : Placed(f, ch, ch.system, ch.media)

\* What a page shows of it.
Shows(form, ch) ==
    /\ \A f \in ScalarFields \ {"system", "media", "dat", "status", "breaks"} :
          form[f] = IF ch[f] = Absent THEN Null ELSE ch[f]
    /\ form.breaks = IF ch.breaks = Absent THEN <<>> ELSE ch.breaks
    /\ \A f \in SetFields : form[f] = IF ch[f] = Absent THEN {} ELSE ch[f].add
    /\ form.rings = Additions(ch.rings)

\* The fields of the form that Add Disc makes its changes from.
LEMMA AddFormIs ==
    ASSUME NEW form, IsForm(form), NEW match \in Media \cup {Null}
    PROVE  LET w == AddForm(form, match)
               media == IF match = Null THEN form.media ELSE match
           IN  /\ Same(w, form, Keys \ {"media", "bca"}) /\ w.media = media
               /\ w.bca = IF media \in Media /\ AllowsMastering[media] /\ form.bca # Null /\ form.bca.bytes # WholeBca
                          THEN Null ELSE form.bca
<1> DEFINE media == IF match = Null THEN form.media ELSE match
           bca == IF media \in Media /\ AllowsMastering[media] /\ form.bca # Null /\ form.bca.bytes # WholeBca
                  THEN Null ELSE form.bca
           x == [form EXCEPT !.media = media]
           w == AddForm(form, match)
<1>1. form = [h \in Keys |-> form[h]] /\ DOMAIN form = Keys
    BY FormFields DEF IsForm, IsRecord
<1>2. w = [form EXCEPT !.media = media, !.bca = bca]
    BY <1>1 DEF AddForm, Keys, ScalarFields
<1> HIDE DEF media, bca, w
<1>3. w = [h \in Keys |-> IF h = "bca" THEN bca ELSE IF h = "media" THEN media ELSE form[h]]
    BY <1>1, <1>2 DEF Keys, ScalarFields
<1>4. Same(w, form, Keys \ {"media", "bca"}) /\ w.media = media /\ w.bca = bca
    BY <1>3 DEF Same, Keys, ScalarFields
<1> QED BY <1>4 DEF media, bca, w

\* Entries that are added have a place on the media.
LEMMA AddedFit ==
    ASSUME NEW new, RingList(new), HasIds(new), NEW media \in Media,
           \A c \in ToSet(RingChanges(NoRings, new, FALSE)) :
               (c.offset # Absent => IsCd[media]) /\ \A i \in DOMAIN c.layers : i <= Layers[media] + 1
    PROVE  \A r \in ToSet(Additions(RingChanges(NoRings, new, FALSE))) : IsFit(r, media)
<1> DEFINE no == FALSE
           chs == RingChanges(NoRings, new, no)
           e == Additions(chs)
<1>1. /\ AreAdditions(chs) /\ (\A m \in DOMAIN chs : ~SaysNothing(chs[m])) /\ RingList(e) /\ DOMAIN e = DOMAIN chs
      /\ \A m \in DOMAIN chs : e[m] = Plain(EmptyRing, chs[m]) /\ RingEntryChange(EmptyRing, e[m]) = chs[m]
    BY AdditionsOfNone
<1>2. \A c \in ToSet(chs) : (c.offset # Absent => IsCd[media]) /\ \A i \in DOMAIN c.layers : i <= Layers[media] + 1
    OBVIOUS
<1> HIDE DEF chs
<1> SUFFICES ASSUME NEW m \in DOMAIN chs PROVE IsFit(e[m], media)
    BY <1>1 DEF ToSet, chs
<1> DEFINE c == chs[m]
           q == e[m]
<1>3. q \in Rings /\ q = Plain(EmptyRing, c) /\ IsRingChange(c) /\ ~SaysNothing(c) /\ c = RingEntryChange(EmptyRing, q) /\ c \in ToSet(chs)
    BY <1>1 DEF RingList, AreAdditions, ChangeList, ToSet
<1>4. (c.offset # Absent => IsCd[media]) /\ \A i \in DOMAIN c.layers : i <= Layers[media] + 1
    BY <1>2, <1>3
<1> HIDE DEF c, q, e
<1>5. /\ q.offset = IF c.offset = Absent THEN EmptyRing.offset ELSE c.offset
      /\ DOMAIN q.layers = DOMAIN EmptyRing.layers \cup UNION {1 .. i : i \in DOMAIN c.layers}
  <2> DEFINE no2 == FALSE
  <2> HIDE DEF no2
  <2>1. LET x == ChangeEntry(EmptyRing, c, no2) IN
        /\ x.offset = IF c.offset = Absent THEN EmptyRing.offset ELSE c.offset
        /\ DOMAIN x.layers = DOMAIN EmptyRing.layers \cup UNION {1 .. i : i \in DOMAIN c.layers}
      BY <1>3, EmptyRingIs, ChangedEntry
  <2> QED BY <1>3, <2>1 DEF Plain, no2
<1>6. q.offset # 0 => IsCd[media]
    BY <1>4, <1>5 DEF EmptyRing
<1>7. ~RingIsEmpty(q)
  <2>1. ~Alike(EmptyRing, q)
      BY <1>3, EmptyRingIs, EntryChanged
  <2> QED BY <1>3, <2>1, EmptyAlike
<1>8. Len(q.layers) <= Layers[media] + 1
  <2>1. DOMAIN q.layers = 1 .. Len(q.layers) /\ Len(q.layers) \in Nat /\ Layers[media] \in Nat \ {0}
      BY <1>3, RingLayers, ReferenceAssumption DEF IsList
  <2>2. CASE Len(q.layers) = 0
      BY <2>1, <2>2
  <2>3. CASE Len(q.layers) # 0
    <3>1. Len(q.layers) \in DOMAIN q.layers /\ DOMAIN EmptyRing.layers = {}
        BY <2>1, <2>3 DEF EmptyRing
    <3>2. PICK i \in DOMAIN c.layers : Len(q.layers) \in 1 .. i
        BY <1>5, <3>1
    <3>3. i \in Nat /\ i <= Layers[media] + 1
        BY <1>3, <1>4 DEF IsRingChange
    <3> QED BY <2>1, <3>2, <3>3
  <2> QED BY <2>2, <2>3
<1> QED BY <1>6, <1>7, <1>8 DEF IsFit, q

\* What a snapshot of a form has.
LEMMA FlatHas ==
    ASSUME NEW form, IsForm(form)
    PROVE  LET n == FlatForm(form) IN
           /\ IsForm(n) /\ n.comments # <<>> /\ n.edc # Null
           /\ n.errors # Null => n.errors <= MaxInt
           /\ \A i \in DOMAIN n.breaks : n.breaks[i] <= MaxInt
           /\ n.bca = form.bca
           /\ ~(form.media \in Media /\ AllowsMastering[form.media]) => n.mastering = {}
<1> DEFINE n == FlatForm(form)
           K == {i \in DOMAIN form.breaks : form.breaks[i] <= MaxInt}
<1>1. IsForm(n) /\ IsRecord(form) /\ form.breaks \in Seq(Nat)
    BY FlatTypes, FormFields DEF IsForm
<1>2. /\ n.bca = form.bca /\ n.errors = AsInteger(form.errors) /\ n.breaks = Select(form.breaks, K)
      /\ n.edc = IF form.edc = Null THEN FALSE ELSE form.edc
      /\ n.comments = IF form.comments = <<>> THEN Null ELSE form.comments
      /\ n.mastering = IF form.media \in Media /\ AllowsMastering[form.media] THEN form.mastering ELSE {}
  <2>1. Same(n, form, {"system", "media", "title", "version", "bca", "dat", "serial", "status", "rings"})
      BY <1>1, FlatIs
  <2>2. n.bca = form.bca
      BY <2>1 DEF Same
  <2>3. n.errors = AsInteger(form.errors) /\ n.breaks = Select(form.breaks, K)
      BY <1>1, FlatIs
  <2>4. n.edc = (IF form.edc = Null THEN FALSE ELSE form.edc)
        /\ n.comments = (IF form.comments = <<>> THEN Null ELSE form.comments)
      BY <1>1, FlatIs
  <2>5. n.mastering = IF form.media \in Media /\ AllowsMastering[form.media] THEN form.mastering ELSE {}
      BY <1>1, FlatIs
  <2> QED BY <2>2, <2>3, <2>4, <2>5
<1> HIDE DEF n, K
<1>3. n.comments # <<>>
  <2>1. <<>> \in Seq(Texts)
      OBVIOUS
  <2> QED BY <1>2, <2>1, NullIsNone
<1>4. n.edc # Null
    BY <1>2, NullIsNone
<1>5. n.errors # Null => n.errors <= MaxInt
  <2>1. form.errors \in Nat \cup {Null} /\ MaxInt \in Nat
      BY FormFields, ReferenceAssumption DEF IsForm
  <2> QED BY <1>2, <2>1 DEF AsInteger
<1>6. \A i \in DOMAIN n.breaks : n.breaks[i] <= MaxInt
  <2>1. K \subseteq DOMAIN form.breaks /\ \A i \in K : form.breaks[i] <= MaxInt
      BY DEF K
  <2>2. ToSet(n.breaks) = Picked(form.breaks, K) /\ n.breaks \in Seq(Nat)
      BY <1>1, <1>2, <2>1, SelectedFrom
  <2>3. ASSUME NEW i \in DOMAIN n.breaks PROVE n.breaks[i] <= MaxInt
    <3>1. n.breaks[i] \in ToSet(n.breaks)
        BY <2>2 DEF ToSet
    <3> QED BY <2>1, <2>2, <3>1 DEF Picked
  <2> QED BY <2>3
<1> QED BY <1>1, <1>2, <1>3, <1>4, <1>5, <1>6 DEF n

\* Filtering keeps the selection.
LEMMA FilteredKeeps ==
    ASSUME NEW form, IsForm(form)
    PROVE  LET x == Filtered(form) IN IsForm(x) /\ x.system = form.system /\ x.media = form.media /\ x.bca \in {Null, form.bca}
<1> DEFINE x == Filtered(form)
<1>1. IsForm(x) /\ IsRecord(form)
    BY FilteredTypes, FormFields DEF IsForm
<1>2. CASE ~Chosen(form)
    BY <1>1, <1>2, NotFiltered
<1>3. CASE Chosen(form)
  <2>1. Same(x, form, {"system", "media", "title", "comments", "dat", "serial", "status"})
      BY <1>1, <1>3, FilteredIs
  <2>2. x.bca = IF "bca" \in Has[form.system] THEN form.bca ELSE Null
      BY <1>1, <1>3, FilteredIs
  <2>3. x.system = form.system /\ x.media = form.media
      BY <2>1 DEF Same
  <2> QED BY <1>1, <2>2, <2>3
<1> QED BY <1>2, <1>3

\* What a form that is normalised has.
LEMMA NormalHas ==
    ASSUME NEW form, IsForm(form)
    PROVE  LET n == NormalForm(form) IN
           /\ IsForm(n) /\ n.comments # <<>> /\ n.edc # Null
           /\ n.errors # Null => n.errors <= MaxInt
           /\ \A i \in DOMAIN n.breaks : n.breaks[i] <= MaxInt
           /\ n.bca \in {Null, form.bca}
           /\ ~(form.media \in Media /\ AllowsMastering[form.media]) => n.mastering = {}
<1> DEFINE x == Filtered(form)
<1>1. IsForm(x) /\ x.media = form.media /\ x.bca \in {Null, form.bca}
    BY FilteredKeeps
<1>2. NormalForm(form) = FlatForm(x)
    BY DEF NormalForm
<1> HIDE DEF x
<1> DEFINE n == FlatForm(x)
<1>3. /\ IsForm(n) /\ n.comments # <<>> /\ n.edc # Null
      /\ n.errors # Null => n.errors <= MaxInt
      /\ \A i \in DOMAIN n.breaks : n.breaks[i] <= MaxInt
      /\ n.bca = x.bca
      /\ ~(x.media \in Media /\ AllowsMastering[x.media]) => n.mastering = {}
    BY <1>1, FlatHas
<1> HIDE DEF n
<1> QED BY <1>1, <1>2, <1>3 DEF n

\* The fields of an addition, one by one.
LEMMA AddFieldsAre ==
    ASSUME NEW form, IsForm(form), NEW match \in Media \cup {Null}
    PROVE  LET ch == AddChanges(form, match)
               n == NormalForm(AddForm(form, match))
               unsaid == Unsaid(form, match)
           IN  /\ IsChange(ch) /\ IsForm(n) /\ ch.status = Absent
               /\ ch.rings = RingChanges(NoRings, n.rings, FALSE)
               /\ \A f \in ScalarFields \ {"status"} :
                     ch[f] = IF f \in unsaid \/ IsEmpty(f, n[f]) THEN Absent ELSE n[f]
               /\ ch.serial = IF n.serial = {} THEN Absent ELSE [add |-> n.serial, remove |-> {}]
               /\ ch.mastering = IF form.bca = Null THEN Absent
                                 ELSE IF Derives(form, match) THEN [add |-> {form.bca.tail}, remove |-> {}]
                                 ELSE IF n.mastering = {} THEN Absent ELSE [add |-> n.mastering, remove |-> {}]
<1> DEFINE ch == AddChanges(form, match)
           w == AddForm(form, match)
           h == NewDiscChanges(w)
           n == NormalForm(w)
           unsaid == Unsaid(form, match)
           derives == Derives(form, match)
<1>1. IsForm(w) /\ IsForm(n)
    BY AddFormTypes, NormalTypes
<1>2. AreHistory(h, n, Blank, FALSE) /\ h.status = Absent
    BY <1>1, NewHistory
<1>3. /\ \A f \in Keys : ch[f] = IF f \in unsaid THEN NoChanges[f]
                                 ELSE IF f = "mastering" /\ derives
                                 THEN [add |-> {form.bca.tail}, remove |-> {}] ELSE h[f]
      /\ IsChange(ch)
    BY AddChangesAre, AddChangesTypes
<1>4. unsaid \subseteq {"bca", "mastering", "media", "edc", "breaks"} /\ ("mastering" \in unsaid <=> form.bca = Null)
    BY DEF Unsaid
<1> HIDE DEF ch, w, h, n, unsaid, derives
<1>5. ch.status = Absent
  <2>1. "status" \in Keys /\ "status" \notin unsaid /\ "status" # "mastering"
      BY <1>4 DEF Keys, ScalarFields
  <2> QED BY <1>2, <1>3, <2>1
<1>6. ch.rings = RingChanges(NoRings, n.rings, FALSE)
  <2>1. "rings" \in Keys /\ "rings" \notin unsaid /\ "rings" # "mastering"
      BY <1>4 DEF Keys
  <2>2. ch.rings = h.rings
      BY <1>3, <2>1
  <2> QED BY <1>2, <2>2, BlankIs DEF AreHistory, NoRings
<1>7. ASSUME NEW f \in ScalarFields \ {"status"}
      PROVE  ch[f] = IF f \in unsaid \/ IsEmpty(f, n[f]) THEN Absent ELSE n[f]
  <2>1. f \in Keys /\ f # "mastering" /\ NoChanges[f] = Absent /\ Blank[f] = Null
      BY KindsOfFields, NoChangesAre, BlankIs DEF SetFields
  <2>2. h[f] = ScalarChange(f, Null, n[f])
      BY <1>2, <2>1 DEF AreHistory
  <2>3. h[f] = IF IsEmpty(f, n[f]) THEN Absent ELSE n[f]
      BY <2>2 DEF ScalarChange, IsEmpty
  <2> QED BY <1>3, <2>1, <2>3
<1>8. \A f \in SetFields : f \in Keys /\ NoChanges[f] = Absent
                           /\ h[f] = IF n[f] = {} THEN Absent ELSE [add |-> n[f], remove |-> {}]
  <2>1. ASSUME NEW f \in SetFields PROVE h[f] = IF n[f] = {} THEN Absent ELSE [add |-> n[f], remove |-> {}]
    <3>1. h[f] = SetChange({}, n[f], FALSE)
        BY <1>2, BlankIs DEF AreHistory
    <3> QED BY <3>1 DEF SetChange
  <2> QED BY <2>1, KindsOfFields, NoChangesAre
<1>9. ch.serial = IF n.serial = {} THEN Absent ELSE [add |-> n.serial, remove |-> {}]
    BY <1>3, <1>4, <1>8 DEF SetFields
<1>10. ch.mastering = IF form.bca = Null THEN Absent
                      ELSE IF derives THEN [add |-> {form.bca.tail}, remove |-> {}]
                      ELSE IF n.mastering = {} THEN Absent ELSE [add |-> n.mastering, remove |-> {}]
    BY <1>3, <1>4, <1>8 DEF SetFields
<1> QED BY <1>1, <1>3, <1>5, <1>6, <1>7, <1>9, <1>10 DEF ch, n, w, unsaid, derives

\* What every submission of Add Disc says.
LEMMA AdditionSays ==
    ASSUME NEW form, IsForm(form), NEW match \in Media \cup {Null}
    PROVE  IsAddition(AddChanges(form, match))
<1> DEFINE ch == AddChanges(form, match)
           w == AddForm(form, match)
           n == NormalForm(w)
           unsaid == Unsaid(form, match)
           derives == Derives(form, match)
           media == IF match = Null THEN form.media ELSE match
<1>1. /\ IsChange(ch) /\ IsForm(n) /\ ch.status = Absent
      /\ ch.rings = RingChanges(NoRings, n.rings, FALSE)
      /\ \A f \in ScalarFields \ {"status"} :
            ch[f] = IF f \in unsaid \/ IsEmpty(f, n[f]) THEN Absent ELSE n[f]
      /\ ch.serial = IF n.serial = {} THEN Absent ELSE [add |-> n.serial, remove |-> {}]
      /\ ch.mastering = IF form.bca = Null THEN Absent
                        ELSE IF derives THEN [add |-> {form.bca.tail}, remove |-> {}]
                        ELSE IF n.mastering = {} THEN Absent ELSE [add |-> n.mastering, remove |-> {}]
    BY AddFieldsAre
<1>2. /\ w.media = media
      /\ w.bca = IF media \in Media /\ AllowsMastering[media] /\ form.bca # Null /\ form.bca.bytes # WholeBca
                 THEN Null ELSE form.bca
    BY AddFormIs
<1>3. /\ n.comments # <<>> /\ (n.errors # Null => n.errors <= MaxInt)
      /\ \A i \in DOMAIN n.breaks : n.breaks[i] <= MaxInt
      /\ n.bca \in {Null, w.bca}
      /\ ~(w.media \in Media /\ AllowsMastering[w.media]) => n.mastering = {}
    BY AddFormTypes, NormalHas
<1>4. derives <=> media \in Media /\ AllowsMastering[media] /\ form.bca # Null /\ form.bca.bytes >= ShortestBca
    BY DEF Derives
<1>5. form.bca = Null => "bca" \in unsaid
    BY DEF Unsaid
<1>6. RingList(n.rings) /\ HasIds(n.rings)
    BY <1>1, FormFields DEF IsForm
<1> HIDE DEF ch, w, n, unsaid, derives, media
<1>7. \A f \in ScalarFields : ch[f] = Absent \/ (~IsEmpty(f, ch[f]) /\ ch[f] = n[f])
    BY <1>1
<1>8. ch.comments # <<>> /\ (ch.errors # Absent => ch.errors <= MaxInt)
  <2>1. "comments" \in ScalarFields /\ "errors" \in ScalarFields /\ <<>> \in Seq(Texts)
      BY DEF ScalarFields
  <2>2. ch.errors # Absent => ch.errors = n.errors /\ n.errors # Null
      BY <1>7, <2>1 DEF IsEmpty
  <2>3. ch.comments = Absent \/ ch.comments = n.comments
      BY <1>7, <2>1
  <2> QED BY <1>3, <2>1, <2>2, <2>3, NullIsNone
<1>9. ch.breaks # Absent => \A i \in DOMAIN ch.breaks : ch.breaks[i] <= MaxInt
    BY <1>3, <1>7 DEF ScalarFields
<1>10. \A f \in SetFields : ch[f] = Absent \/ (ch[f].remove = {} /\ ch[f].add # {})
    BY <1>1 DEF SetFields
<1>11. ch.bca # Absent => ch.mastering \in {Absent, [add |-> {ch.bca.tail}, remove |-> {}]}
  <2> SUFFICES ASSUME ch.bca # Absent PROVE ch.mastering \in {Absent, [add |-> {ch.bca.tail}, remove |-> {}]}
      OBVIOUS
  <2>1. ch.bca = n.bca /\ n.bca # Null /\ "bca" \notin unsaid /\ form.bca # Null
      BY <1>1, <1>5 DEF ScalarFields, IsEmpty
  <2>2. ch.bca = w.bca /\ w.bca = form.bca
      BY <1>2, <1>3, <2>1
  <2>3. CASE media \in Media /\ AllowsMastering[media]
    <3>1. form.bca.bytes = WholeBca
        BY <1>2, <2>1, <2>2, <2>3
    <3>2. derives
        BY <1>4, <2>1, <2>3, <3>1 DEF WholeBca, ShortestBca
    <3> QED BY <1>1, <2>1, <2>2, <3>2
  <2>4. CASE ~(media \in Media /\ AllowsMastering[media])
      BY <1>1, <1>2, <1>3, <1>4, <2>4
  <2> QED BY <2>3, <2>4
<1>12. \A f \in ScalarFields : ch[f] = Absent \/ ~IsEmpty(f, ch[f])
    BY <1>7
<1> QED BY <1>1, <1>6, <1>8, <1>9, <1>10, <1>11, <1>12 DEF IsAddition, ch

\* An entry of a form that fits a media is added by a change that fits it.
LEMMA FitAdded ==
    ASSUME NEW new, RingList(new), HasIds(new), NEW media \in Media, \A r \in ToSet(new) : IsFit(r, media)
    PROVE  \A c \in ToSet(RingChanges(NoRings, new, FALSE)) :
               (c.offset # Absent => IsCd[media]) /\ \A i \in DOMAIN c.layers : i <= Layers[media] + 1
<1> DEFINE no == FALSE
           chs == RingChanges(NoRings, new, no)
<1>1. /\ ToSet(chs) = {RingEntryChange(StoredEntry(NoRings, r), r) : r \in Differing(NoRings, new)} \cup ToSet(RemovalsIf(no, NoRings, new))
  <2> HIDE DEF no
  <2> QED BY NoRingsAre, RingChangesAre
<1>2. ToSet(RemovalsIf(no, NoRings, new)) = {}
    BY DEF RemovalsIf, ToSet
<1>3. Differing(NoRings, new) \subseteq ToSet(new) /\ \A r : StoredEntry(NoRings, r) = EmptyRing
    BY NoRingsAre DEF Differing, StoredEntry
<1> HIDE DEF chs, no
<1> SUFFICES ASSUME NEW c \in ToSet(chs) PROVE (c.offset # Absent => IsCd[media]) /\ \A i \in DOMAIN c.layers : i <= Layers[media] + 1
    BY DEF chs, no
<1>4. PICK r \in ToSet(new) : c = RingEntryChange(EmptyRing, r)
    BY <1>1, <1>2, <1>3
<1>5. r \in Rings /\ IsFit(r, media)
    BY <1>4 DEF RingList, ToSet
<1>6. /\ IsRingChange(c) /\ c.offset = TextChange(EmptyRing.offset, r.offset)
      /\ \A i \in Nat \ {0} : i \in DOMAIN c.layers <=> LayerAt(EmptyRing, i) # LayerAt(r, i)
    BY <1>4, <1>5, EmptyRingIs, RingChangeIs
<1>7. c.offset # Absent => IsCd[media]
    BY <1>5, <1>6 DEF TextChange, EmptyRing, IsFit
<1>8. ASSUME NEW i \in DOMAIN c.layers PROVE i <= Layers[media] + 1
  <2>1. i \in Nat \ {0}
      BY <1>6 DEF IsRingChange
  <2>2. LayerAt(r, i) # EmptyLayer
      BY <1>6, <2>1, EmptyRingIs
  <2>3. i \in DOMAIN r.layers
      BY <2>2 DEF LayerAt
  <2>4. DOMAIN r.layers = 1 .. Len(r.layers) /\ Len(r.layers) \in Nat /\ Layers[media] \in Nat
      BY <1>5, RingLayers, ReferenceAssumption DEF IsList
  <2> QED BY <1>5, <2>1, <2>3, <2>4 DEF IsFit
<1> QED BY <1>7, <1>8

\* What a new disc is submitted with has a place on it.
LEMMA DumpSays ==
    ASSUME NEW form, IsForm(form), Chosen(form)
    PROVE  IsDump(AddChanges(form, Null))
<1> DEFINE none == Null
<1>0. none = Null
    OBVIOUS
<1>t. none \in Media \cup {Null}
    OBVIOUS
<1> HIDE DEF none
<1> DEFINE ch == AddChanges(form, none)
           w == AddForm(form, none)
           n == NormalForm(w)
           unsaid == Unsaid(form, none)
           derives == Derives(form, none)
           media == form.media
<1>1. /\ IsChange(ch) /\ IsForm(n) /\ ch.status = Absent
      /\ ch.rings = RingChanges(NoRings, n.rings, FALSE)
      /\ \A f \in ScalarFields \ {"status"} :
            ch[f] = IF f \in unsaid \/ IsEmpty(f, n[f]) THEN Absent ELSE n[f]
      /\ ch.serial = IF n.serial = {} THEN Absent ELSE [add |-> n.serial, remove |-> {}]
      /\ ch.mastering = IF form.bca = Null THEN Absent
                        ELSE IF derives THEN [add |-> {form.bca.tail}, remove |-> {}]
                        ELSE IF n.mastering = {} THEN Absent ELSE [add |-> n.mastering, remove |-> {}]
    BY <1>t, AddFieldsAre
<1>2. /\ Same(w, form, Keys \ {"media", "bca"}) /\ w.media = media
      /\ w.bca = IF media \in Media /\ AllowsMastering[media] /\ form.bca # Null /\ form.bca.bytes # WholeBca
                 THEN Null ELSE form.bca
    BY <1>0, <1>t, AddFormIs
<1>3. IsForm(w) /\ w.system = form.system
    BY <1>t, <1>2, AddFormTypes DEF Same, Keys, ScalarFields
<1>4. Chosen(w) /\ media \in Media /\ form.system \in Systems /\ media \in MediaOf[form.system]
    BY <1>2, <1>3 DEF Chosen
<1>5. IsNormal(n, w)
    BY <1>3, <1>4, NormalIs
<1>6. derives <=> AllowsMastering[media] /\ form.bca # Null /\ form.bca.bytes >= ShortestBca
    BY <1>0, <1>4 DEF Derives
<1>7. unsaid = IF form.bca = Null THEN {"bca", "mastering"} ELSE {}
    BY <1>0 DEF Unsaid
<1> HIDE DEF ch, w, n, unsaid, derives, media
<1>8. n.system = form.system /\ n.media = media
    BY <1>2, <1>3, <1>5 DEF IsNormal, Same
<1>9. ch.system = form.system /\ ch.media = media /\ ch.edc = n.edc /\ n.edc \in BOOLEAN
  <2>1. \A f \in {"system", "media", "edc"} : f \in ScalarFields \ {"status"} /\ f \notin unsaid /\ f \notin ListFields
      BY <1>7 DEF ScalarFields, ListFields
  <2>2. n.edc \in BOOLEAN
      BY <1>5 DEF IsNormal
  <2>3. n.system # Null /\ n.media # Null /\ n.edc # Null
      BY <1>4, <1>8, <2>2, NullIsNone
  <2> QED BY <1>1, <1>8, <2>1, <2>2, <2>3 DEF IsEmpty
<1>10. {ch.system, ch.media, ch.edc} \cap {Absent} = {}
    BY <1>4, <1>9, NullIsNone
<1>11. Null # Absent
    BY NullIsNone
<1>12. ch.version # Absent => "version" \in Has[form.system]
  <2>1. n.version = IF "version" \in Has[w.system] THEN w.version ELSE Null
      BY <1>5 DEF IsNormal
  <2> QED BY <1>1, <1>3, <2>1 DEF ScalarFields, IsEmpty
<1>13. ch.errors # Absent => "errors" \in Has[form.system] /\ IsCd[media]
  <2>1. n.errors = IF w.errors # Null /\ "errors" \in Has[n.system] /\ IsCd[n.media] /\ w.errors <= MaxInt THEN w.errors ELSE Null
      BY <1>5 DEF IsNormal
  <2> QED BY <1>1, <1>8, <2>1 DEF ScalarFields, IsEmpty
<1>14. ch.edc \in {Absent, FALSE} \/ "edc" \in Has[form.system]
  <2>1. n.edc = IF "edc" \in Has[n.system] /\ w.edc # Null THEN w.edc ELSE FALSE
      BY <1>5 DEF IsNormal
  <2> QED BY <1>8, <1>9, <2>1
<1>15. ch.ranges # Absent => "ranges" \in Has[form.system]
  <2>1. n.ranges = IF "ranges" \in Has[n.system] /\ w.ranges # Null THEN w.ranges ELSE <<>>
      BY <1>5 DEF IsNormal
  <2> QED BY <1>1, <1>8, <2>1 DEF ScalarFields, IsEmpty, ListFields
<1>16. ch.breaks # Absent => Len(ch.breaks) < Layers[media]
  <2>1. Len(n.breaks) < Layers[n.media]
      BY <1>5 DEF IsNormal
  <2> QED BY <1>1, <1>8, <2>1 DEF ScalarFields
<1>17. n.bca = (IF "bca" \in Has[w.system] THEN w.bca ELSE Null) /\ n.mastering = (IF AllowsMastering[n.media] THEN w.mastering ELSE {})
    BY <1>5 DEF IsNormal
<1>18. ch.bca # Absent => ch.bca = n.bca /\ n.bca # Null /\ "bca" \in Has[form.system] /\ n.bca = w.bca /\ "bca" \notin unsaid /\ form.bca # Null
    BY <1>1, <1>3, <1>7, <1>17 DEF ScalarFields, IsEmpty
<1>19. ~AllowsMastering[media] => ch.mastering = Absent
    BY <1>1, <1>6, <1>8, <1>17
<1>20. AllowsMastering[media] /\ ch.bca # Absent => ch.bca.bytes = WholeBca /\ ch.mastering # Absent
  <2> SUFFICES ASSUME AllowsMastering[media], ch.bca # Absent PROVE ch.bca.bytes = WholeBca /\ ch.mastering # Absent
      OBVIOUS
  <2>1. ch.bca = form.bca /\ form.bca # Null /\ form.bca.bytes = WholeBca
      BY <1>2, <1>4, <1>18
  <2>2. derives
      BY <1>6, <2>1 DEF WholeBca, ShortestBca
  <2>3. ch.mastering = [add |-> {form.bca.tail}, remove |-> {}] /\ form.bca.tail \in Texts
      BY <1>1, <2>1, <2>2, FormFields DEF IsForm, Bcas
  <2>4. ch.mastering \in [add : SUBSET Texts, remove : SUBSET Texts]
      BY <2>3
  <2> QED BY <2>1, <2>4, NullIsNone
<1>21. \A c \in ToSet(ch.rings) : (c.offset # Absent => IsCd[media]) /\ \A i \in DOMAIN c.layers : i <= Layers[media] + 1
  <2>1. n.rings = FilteredRings(w.rings, w.media) /\ RingList(w.rings)
      BY <1>3, <1>5, FormFields DEF IsNormal, IsForm
  <2>2. RingList(n.rings) /\ HasIds(n.rings) /\ \A r \in ToSet(n.rings) : IsFit(r, media)
    <3>1. \A r \in ToSet(n.rings) : IsFit(r, media)
        BY <1>2, <1>4, <2>1, FilteredRingsAre
    <3> QED BY <1>1, <3>1, FormFields DEF IsForm
  <2> QED BY <1>1, <1>4, <2>2, FitAdded
<1>22. ASSUME NEW f \in Keys PROVE Placed(f, ch, form.system, media)
    BY <1>12, <1>13, <1>14, <1>15, <1>16, <1>18, <1>19, <1>20, <1>21 DEF Placed
<1> QED BY <1>0, <1>4, <1>9, <1>10, <1>22 DEF IsDump, ch

\* A Draft is submitted again with what it shows.
LEMMA DraftAgain ==
    ASSUME NEW ch, IsAddition(ch), NEW form, IsForm(form), Chosen(form), Shows(form, ch),
           NEW match \in {Null, form.media}, match = Null => ch.edc # Absent,
           NEW f \in Keys, Placed(f, ch, form.system, form.media), f = "mastering" => ch.bca # Absent,
           f \in {"system", "media", "dat"} => form[f] = IF ch[f] = Absent THEN Null ELSE ch[f]
    PROVE  AddChanges(form, match)[f] = ch[f]
<1> DEFINE again == AddChanges(form, match)
           w == AddForm(form, match)
           n == NormalForm(w)
           unsaid == Unsaid(form, match)
           derives == Derives(form, match)
           media == form.media
           system == form.system
<1>a. match \in Media \cup {Null} /\ (IF match = Null THEN form.media ELSE match) = media /\ media \in Media /\ system \in Systems
    BY DEF Chosen
<1>1. /\ IsForm(n) /\ again.status = Absent
      /\ again.rings = RingChanges(NoRings, n.rings, FALSE)
      /\ \A g \in ScalarFields \ {"status"} :
            again[g] = IF g \in unsaid \/ IsEmpty(g, n[g]) THEN Absent ELSE n[g]
      /\ again.serial = IF n.serial = {} THEN Absent ELSE [add |-> n.serial, remove |-> {}]
      /\ again.mastering = IF form.bca = Null THEN Absent
                           ELSE IF derives THEN [add |-> {form.bca.tail}, remove |-> {}]
                           ELSE IF n.mastering = {} THEN Absent ELSE [add |-> n.mastering, remove |-> {}]
  <2>1. match \in Media \cup {Null}
      BY <1>a
  <2>2. LET y == AddChanges(form, match)
            v == NormalForm(AddForm(form, match))
            u == Unsaid(form, match)
        IN  /\ IsChange(y) /\ IsForm(v) /\ y.status = Absent
            /\ y.rings = RingChanges(NoRings, v.rings, FALSE)
            /\ \A g \in ScalarFields \ {"status"} :
                  y[g] = IF g \in u \/ IsEmpty(g, v[g]) THEN Absent ELSE v[g]
            /\ y.serial = IF v.serial = {} THEN Absent ELSE [add |-> v.serial, remove |-> {}]
            /\ y.mastering = IF form.bca = Null THEN Absent
                             ELSE IF Derives(form, match) THEN [add |-> {form.bca.tail}, remove |-> {}]
                             ELSE IF v.mastering = {} THEN Absent ELSE [add |-> v.mastering, remove |-> {}]
      BY <2>1, AddFieldsAre
  <2> QED BY <2>2
<1>2. /\ Same(w, form, Keys \ {"media", "bca"}) /\ w.media = media
      /\ w.bca = IF AllowsMastering[media] /\ form.bca # Null /\ form.bca.bytes # WholeBca
                 THEN Null ELSE form.bca
    BY <1>a, AddFormIs
<1>3. IsForm(w) /\ w.system = system
    BY <1>a, <1>2, AddFormTypes DEF Same, Keys, ScalarFields
<1>5. IsNormal(n, w)
  <2>1. Chosen(w)
      BY <1>2, <1>3 DEF Chosen
  <2> QED BY <1>3, <2>1, NormalIs
<1>6. derives <=> AllowsMastering[media] /\ form.bca # Null /\ form.bca.bytes >= ShortestBca
    BY <1>a DEF Derives
<1>7. unsaid = (IF form.bca = Null THEN {"bca", "mastering"} ELSE {})
               \cup (IF match = Null THEN {} ELSE {g \in {"media", "edc", "breaks"} : IsEmpty(g, form[g])})
    BY DEF Unsaid
<1>8. \A g \in Keys \ {"media", "bca"} : w[g] = form[g]
    BY <1>2 DEF Same
<1>9. Null # Absent /\ media # Null /\ system # Null
    BY <1>a, NullIsNone
<1> HIDE DEF again, w, n, unsaid, derives, media, system
<1>10. n.system = system /\ n.media = media
    BY <1>2, <1>3, <1>5 DEF IsNormal, Same
<1>11. \A g \in ScalarFields : g \in Keys /\ (ch[g] = Absent \/ ~IsEmpty(g, ch[g]))
    BY KindsOfFields DEF IsAddition
<1>12. CASE f = "status"
    BY <1>1, <1>12 DEF IsAddition, again
<1>13. CASE f \in {"system", "media", "title", "dat"}
  <2>1. f \in ScalarFields \ {"status", "breaks"} /\ f \notin ListFields
      BY <1>13 DEF ScalarFields, ListFields
  <2>2. form[f] = IF ch[f] = Absent THEN Null ELSE ch[f]
      BY <1>13, <2>1 DEF Shows
  <2>3. n[f] = form[f]
    <3>1. Same(n, w, {"system", "media", "title", "dat", "serial", "status"})
        BY <1>5 DEF IsNormal
    <3>2. w[f] = form[f]
        BY <1>2, <1>8, <1>11, <1>13, <2>1 DEF media
    <3> QED BY <1>13, <3>1, <3>2 DEF Same
  <2>4. f \in unsaid => f = "media" /\ IsEmpty(f, form[f])
      BY <1>7, <1>13
  <2>5. f \notin unsaid
      BY <1>9, <1>13, <2>1, <2>4 DEF IsEmpty, media
  <2> QED BY <1>1, <1>9, <1>11, <2>1, <2>2, <2>3, <2>5 DEF IsEmpty, again
<1>14. CASE f \in {"version", "errors", "comments"}
  <2>1. f \in ScalarFields \ {"status", "breaks", "system", "media", "dat"} /\ f \notin ListFields /\ f \notin unsaid
      BY <1>7, <1>14 DEF ScalarFields, ListFields
  <2>2. form[f] = (IF ch[f] = Absent THEN Null ELSE ch[f]) /\ w[f] = form[f]
      BY <1>8, <1>11, <1>14, <2>1 DEF Shows
  <2>3. n[f] = IF ch[f] = Absent THEN Null ELSE ch[f]
    <3>1. CASE f = "version"
      <4>1. n.version = IF "version" \in Has[w.system] THEN w.version ELSE Null
          BY <1>5 DEF IsNormal
      <4>2. ch.version = Absent \/ "version" \in Has[system]
          BY <3>1 DEF Placed, system
      <4> QED BY <1>3, <2>2, <3>1, <4>1, <4>2
    <3>2. CASE f = "errors"
      <4>1. n.errors = IF w.errors # Null /\ "errors" \in Has[n.system] /\ IsCd[n.media] /\ w.errors <= MaxInt THEN w.errors ELSE Null
          BY <1>5 DEF IsNormal
      <4>2. ch.errors = Absent \/ ("errors" \in Has[system] /\ IsCd[media])
          BY <3>2 DEF Placed, system, media
      <4>3. ch.errors # Absent => ch.errors <= MaxInt
          BY DEF IsAddition
      <4> QED BY <1>9, <1>10, <2>2, <3>2, <4>1, <4>2, <4>3
    <3>3. CASE f = "comments"
      <4>1. n.comments = IF w.comments = <<>> THEN Null ELSE w.comments
          BY <1>5 DEF IsNormal
      <4>2. ch.comments # <<>> /\ <<>> \in Seq(Texts)
          BY DEF IsAddition
      <4> QED BY <2>2, <3>3, <4>1, <4>2, NullIsNone
    <3> QED BY <1>14, <3>1, <3>2, <3>3
  <2> QED BY <1>1, <1>9, <1>11, <2>1, <2>3 DEF IsEmpty, again
<1>15. CASE f = "edc"
  <2>1. f \in ScalarFields \ {"status", "breaks", "system", "media", "dat"} /\ f \notin ListFields
      BY <1>15 DEF ScalarFields, ListFields
  <2>2. form.edc = (IF ch.edc = Absent THEN Null ELSE ch.edc) /\ w.edc = form.edc
      BY <1>8, <1>11, <1>15, <2>1 DEF Shows
  <2>3. CASE ch.edc = Absent
    <3>1. "edc" \in unsaid
        BY <1>7, <2>1, <2>2, <2>3 DEF IsEmpty
    <3> QED BY <1>1, <1>15, <2>1, <2>3, <3>1 DEF again
  <2>4. CASE ch.edc # Absent
    <3>1. ch.edc \in BOOLEAN /\ ch.edc # Null
        BY <1>11, <1>15, <2>1, <2>4 DEF IsAddition, IsChange, Fits, IsEmpty
    <3>2. "edc" \notin unsaid
        BY <1>7, <1>15, <2>1, <2>2, <2>4, <3>1 DEF IsEmpty
    <3>3. n.edc = IF "edc" \in Has[n.system] /\ w.edc # Null THEN w.edc ELSE FALSE
        BY <1>5 DEF IsNormal
    <3>4. ch.edc \in {Absent, FALSE} \/ "edc" \in Has[system]
        BY <1>15 DEF Placed, system
    <3>5. n.edc = ch.edc
        BY <1>10, <2>2, <2>4, <3>1, <3>3, <3>4
    <3> QED BY <1>1, <1>15, <2>1, <3>1, <3>2, <3>5 DEF again, IsEmpty
  <2> QED BY <2>3, <2>4
<1>16. CASE f = "ranges"
  <2>1. f \in ScalarFields \ {"status", "breaks", "system", "media", "dat"} /\ f \in ListFields /\ f \notin unsaid
      BY <1>7, <1>16 DEF ScalarFields, ListFields
  <2>2. form.ranges = (IF ch.ranges = Absent THEN Null ELSE ch.ranges) /\ w.ranges = form.ranges
      BY <1>8, <1>11, <1>16, <2>1 DEF Shows
  <2>3. n.ranges = IF "ranges" \in Has[n.system] /\ w.ranges # Null THEN w.ranges ELSE <<>>
      BY <1>5 DEF IsNormal
  <2>4. ch.ranges = Absent \/ "ranges" \in Has[system]
      BY <1>16 DEF Placed, system
  <2>5. ch.ranges # Absent => ch.ranges # Null
      BY <1>11, <1>16, <2>1 DEF IsEmpty
  <2>6. n.ranges = IF ch.ranges = Absent THEN <<>> ELSE ch.ranges
      BY <1>10, <2>2, <2>3, <2>4, <2>5
  <2> QED BY <1>1, <1>11, <1>16, <2>1, <2>6 DEF IsEmpty, again
<1>17. CASE f = "breaks"
  <2>1. f \in ScalarFields \ {"status"} /\ f \in ListFields
      BY <1>17 DEF ScalarFields, ListFields
  <2>2. form.breaks = (IF ch.breaks = Absent THEN <<>> ELSE ch.breaks) /\ w.breaks = form.breaks
      BY <1>8, <1>11, <1>17, <2>1 DEF Shows
  <2>3. Len(w.breaks) < Layers[n.media] /\ (\A i \in DOMAIN w.breaks : w.breaks[i] <= MaxInt) => n.breaks = w.breaks
      BY <1>5 DEF IsNormal
  <2>4. CASE ch.breaks = Absent
    <3>1. Len(<<>>) = 0 /\ DOMAIN <<>> = {} /\ Layers[media] \in Nat \ {0}
        BY <1>a, ReferenceAssumption DEF media
    <3>2. n.breaks = <<>>
        BY <1>10, <2>2, <2>3, <2>4, <3>1
    <3> QED BY <1>1, <1>17, <2>1, <2>4, <3>2 DEF IsEmpty, again
  <2>5. CASE ch.breaks # Absent
    <3>1. Len(ch.breaks) < Layers[media] /\ (\A i \in DOMAIN ch.breaks : ch.breaks[i] <= MaxInt)
        BY <1>17, <2>5 DEF Placed, IsAddition, media
    <3>2. n.breaks = ch.breaks
        BY <1>10, <2>2, <2>3, <2>5, <3>1
    <3>3. ~IsEmpty("breaks", ch.breaks)
        BY <1>11, <1>17, <2>1, <2>5
    <3>4. "breaks" \notin unsaid
        BY <1>7, <2>2, <2>5, <3>3
    <3> QED BY <1>1, <1>17, <2>1, <3>2, <3>3, <3>4 DEF again
  <2> QED BY <2>4, <2>5
<1>18. form.bca = IF ch.bca = Absent THEN Null ELSE ch.bca
    BY DEF Shows, ScalarFields
<1>19. ch.bca # Absent => ch.bca # Null
    BY <1>11 DEF ScalarFields, IsEmpty
<1>20. f \in {"bca", "mastering"} =>
         IF ~AllowsMastering[media] THEN ch.mastering = Absent
         ELSE ch.bca = Absent \/ (ch.bca.bytes = WholeBca /\ ch.mastering # Absent)
    BY DEF Placed, media
<1>21. n.bca = (IF "bca" \in Has[w.system] THEN w.bca ELSE Null) /\ n.mastering = (IF AllowsMastering[n.media] THEN w.mastering ELSE {})
    BY <1>5 DEF IsNormal
<1>22. CASE f = "bca"
  <2>1. "bca" \in ScalarFields \ {"status"} /\ "bca" \notin ListFields
      BY DEF ScalarFields, ListFields
  <2>2. CASE ch.bca = Absent
    <3>1. "bca" \in unsaid
        BY <1>7, <1>18, <2>2
    <3> QED BY <1>1, <1>22, <2>1, <2>2, <3>1 DEF again
  <2>3. CASE ch.bca # Absent
    <3>1. "bca" \notin unsaid
        BY <1>7, <1>18, <1>19, <2>3
    <3>2. w.bca = ch.bca
        BY <1>2, <1>18, <1>20, <1>22, <2>3
    <3>3. "bca" \in Has[system]
        BY <1>22, <2>3 DEF Placed, system
    <3>4. n.bca = ch.bca
        BY <1>3, <1>21, <3>2, <3>3
    <3> QED BY <1>1, <1>19, <1>22, <2>1, <2>3, <3>1, <3>4 DEF again, IsEmpty
  <2> QED BY <2>2, <2>3
<1>23. CASE f = "mastering"
  <2>1. ch.bca # Absent /\ form.bca = ch.bca /\ form.bca # Null
      BY <1>18, <1>19, <1>23
  <2>2. ch.mastering \in {Absent, [add |-> {ch.bca.tail}, remove |-> {}]}
      BY <2>1 DEF IsAddition
  <2>3. CASE AllowsMastering[media]
    <3>1. ch.bca.bytes = WholeBca /\ ch.mastering # Absent
        BY <1>20, <1>23, <2>1, <2>3
    <3>2. derives
        BY <1>6, <2>1, <2>3, <3>1 DEF WholeBca, ShortestBca
    <3> QED BY <1>1, <1>23, <2>1, <2>2, <3>1, <3>2 DEF again
  <2>4. CASE ~AllowsMastering[media]
      BY <1>1, <1>6, <1>10, <1>20, <1>21, <1>23, <2>4 DEF again
  <2> QED BY <2>3, <2>4
<1>24. CASE f = "serial"
  <2>1. form.serial = IF ch.serial = Absent THEN {} ELSE ch.serial.add
      BY DEF Shows, SetFields
  <2>2. n.serial = form.serial
    <3>1. Same(n, w, {"system", "media", "title", "dat", "serial", "status"})
        BY <1>5 DEF IsNormal
    <3> QED BY <1>8, <3>1 DEF Same, Keys, SetFields
  <2>3. ch.serial = Absent \/ (ch.serial \in SetChanges /\ ch.serial.remove = {} /\ ch.serial.add # {})
      BY DEF IsAddition, IsChange, SetFields
  <2>4. ch.serial # Absent => ch.serial = [add |-> ch.serial.add, remove |-> {}]
      BY <2>3 DEF SetChanges
  <2> QED BY <1>1, <1>24, <2>1, <2>2, <2>3, <2>4 DEF again
<1>25. CASE f = "rings"
  <2>1. PICK new : RingList(new) /\ HasIds(new) /\ ch.rings = RingChanges(NoRings, new, FALSE)
      BY DEF IsAddition
  <2> DEFINE e == Additions(ch.rings)
  <2>2. form.rings = e /\ w.rings = form.rings
      BY <1>8 DEF Shows, Keys
  <2>3. \A c \in ToSet(ch.rings) : (c.offset # Absent => IsCd[media]) /\ \A i \in DOMAIN c.layers : i <= Layers[media] + 1
      BY <1>25 DEF Placed, media
  <2>4. \A r \in ToSet(e) : IsFit(r, media)
      BY <1>a, <2>1, <2>3, AddedFit DEF media
  <2>5. RingList(e) /\ RingChanges(NoRings, e, FALSE) = ch.rings
      BY <2>1, AddedAgain
  <2>6. n.rings = FilteredRings(w.rings, w.media)
      BY <1>5 DEF IsNormal
  <2> HIDE DEF e
  <2>7. n.rings = e
      BY <1>a, <1>2, <2>2, <2>4, <2>5, <2>6, FilteredRingsAre DEF media
  <2> QED BY <1>1, <1>25, <2>5, <2>7 DEF again
<1>26. f \in {"system", "media", "title", "dat", "version", "errors", "comments", "edc", "ranges", "breaks", "bca",
              "mastering", "serial", "rings", "status"}
    BY DEF Keys, ScalarFields, SetFields
<1> QED BY <1>12, <1>13, <1>14, <1>15, <1>16, <1>17, <1>22, <1>23, <1>24, <1>25, <1>26

\* A Draft shows what it was submitted with, on the selection of its target.
LEMMA DraftShows ==
    ASSUME NEW sub, IsAddition(sub.changes)
    PROVE  LET form == DraftForm(sub)
               ch == sub.changes
           IN  /\ Shows(form, ch)
               /\ form.system = IF sub.target THEN disc.system ELSE IF ch.system = Absent THEN Null ELSE ch.system
               /\ form.media = IF sub.target THEN disc.media ELSE IF ch.media = Absent THEN Null ELSE ch.media
               /\ form.dat = IF sub.target THEN disc.dat ELSE IF ch.dat = Absent THEN Null ELSE ch.dat
<1> DEFINE yes == TRUE
           ch == sub.changes
           own == Resolve(Blank, ch, yes)
           y == DraftForm(sub)
<1>1. yes = TRUE /\ IsAddition(ch) /\ IsChange(ch)
    BY DEF IsAddition
<1>2. y = [own EXCEPT !.breaks = IF @ = Null THEN <<>> ELSE @,
                      !.status = "Unverified",
                      !.system = IF sub.target THEN disc.system ELSE @,
                      !.media = IF sub.target THEN disc.media ELSE @,
                      !.dat = IF sub.target THEN disc.dat ELSE @]
    BY DEF DraftForm
<1> HIDE DEF yes, ch, y
<1>3. IsResolved(own, Blank, ch, yes)
    BY <1>1, BlankBase, ResolveIs
<1> HIDE DEF own
<1>4. own = [f \in Keys |-> own[f]] /\ DOMAIN own = Keys
    BY <1>3, FormFields DEF IsResolved, IsRecord
<1>5. /\ y.breaks = (IF own.breaks = Null THEN <<>> ELSE own.breaks)
      /\ y.system = (IF sub.target THEN disc.system ELSE own.system)
      /\ y.media = (IF sub.target THEN disc.media ELSE own.media)
      /\ y.dat = (IF sub.target THEN disc.dat ELSE own.dat)
      /\ \A f \in Keys \ {"breaks", "status", "system", "media", "dat"} : y[f] = own[f]
    BY <1>2, <1>4 DEF Keys, ScalarFields
<1>6. \A f \in ScalarFields : own[f] = IF ch[f] = Absent THEN Null ELSE ch[f]
    BY <1>3, BlankIs DEF IsResolved
<1>7. \A f \in ScalarFields \ {"system", "media", "dat", "status", "breaks"} : y[f] = IF ch[f] = Absent THEN Null ELSE ch[f]
    BY <1>5, <1>6, KindsOfFields
<1>8. y.breaks = IF ch.breaks = Absent THEN <<>> ELSE ch.breaks
  <2>1. "breaks" \in ScalarFields /\ (ch.breaks = Absent \/ ch.breaks # Null)
      BY <1>1 DEF ScalarFields, IsAddition, IsEmpty
  <2> QED BY <1>5, <1>6, <2>1
<1>9. ASSUME NEW f \in SetFields PROVE y[f] = IF ch[f] = Absent THEN {} ELSE ch[f].add
  <2>1. f \in Keys /\ f \notin {"breaks", "status", "system", "media", "dat"} /\ Blank[f] = {}
      BY KindsOfFields, BlankIs DEF SetFields
  <2>2. own[f] = IF ch[f] = Absent THEN {} ELSE SetApplied({}, ch[f])
      BY <1>3, <2>1 DEF IsResolved
  <2>3. ch[f] = Absent \/ (ch[f].remove = {} /\ ch[f].add # {})
      BY <1>1 DEF IsAddition
  <2> QED BY <1>5, <2>1, <2>2, <2>3 DEF SetApplied
<1>10. y.rings = Additions(ch.rings)
  <2>1. PICK new : RingList(new) /\ HasIds(new) /\ ch.rings = RingChanges(NoRings, new, FALSE)
      BY <1>1 DEF IsAddition
  <2> DEFINE chs == ch.rings
             e == Additions(chs)
  <2>2. RingList(e) /\ ApplyRings(NoRings, chs, TRUE) = e
      BY <2>1, AddedAgain
  <2>3. DOMAIN e = DOMAIN chs
      BY <2>1, AdditionsOfNone
  <2>4. y.rings = own.rings /\ Blank.rings = NoRings
      BY <1>5, BlankIs DEF Keys, NoRings
  <2>5. own.rings = IF chs = <<>> THEN NoRings ELSE ApplyRings(NoRings, chs, TRUE)
      BY <1>1, <1>3, <2>4 DEF IsResolved
  <2>6. chs = <<>> => e = NoRings
    <3>1. chs = <<>> => DOMAIN chs = {}
        OBVIOUS
    <3>2. IsList(e)
        BY <2>2 DEF RingList
    <3> HIDE DEF e, chs
    <3>3. DOMAIN e = {} => Len(e) = 0
        BY <3>2 DEF IsList
    <3>4. DOMAIN e = {} => e = <<>>
        BY <3>2, <3>3 DEF IsList
    <3> QED BY <2>3, <3>1, <3>4 DEF NoRings
  <2> HIDE DEF e, chs
  <2> QED BY <2>2, <2>4, <2>5, <2>6 DEF e, chs
<1>11. y.system = (IF sub.target THEN disc.system ELSE IF ch.system = Absent THEN Null ELSE ch.system)
       /\ y.media = (IF sub.target THEN disc.media ELSE IF ch.media = Absent THEN Null ELSE ch.media)
       /\ y.dat = (IF sub.target THEN disc.dat ELSE IF ch.dat = Absent THEN Null ELSE ch.dat)
    BY <1>5, <1>6 DEF ScalarFields
<1> QED BY <1>7, <1>8, <1>9, <1>10, <1>11 DEF Shows, y, ch

\* A submission of Add Disc that can still be returned or posted again.
Said(sub) ==
    sub.type = "Disc" /\ sub.status # "Approved" =>
        IsAddition(sub.changes) /\ (~sub.target => IsDump(sub.changes))

DraftInv == \A s \in SubIds : subs[s] = Null \/ Said(subs[s])

LEMMA SaidKept ==
    ASSUME EditInv, DraftInv, NEW s \in SubIds, NEW sub, Said(sub), subs' = [subs EXCEPT ![s] = sub]
    PROVE  DraftInv'
<1>1. \A t \in SubIds : subs'[t] = IF t = s THEN sub ELSE subs[t]
    BY DEF EditInv
<1> QED BY <1>1 DEF DraftInv, Said

LEMMA ApprovedSaid ==
    ASSUME NEW type, NEW who
    PROVE  Said(Approved(type, who))
<1>1. Approved(type, who).status = "Approved"
    BY DEF Approved, Submission
<1> QED BY <1>1 DEF Said

\* What is posted on Add Disc, or again as a Draft.
LEMMA DumpSaid ==
    ASSUME EditInv, NEW c \in Clients, NEW form, IsForm(form), ValidDump(c, form),
           NEW sub, sub.changes = AddChanges(form, Match(form)), sub.target = (Match(form) # Null)
    PROVE  Said(sub)
<1> DEFINE match == Match(form)
<1>1. match \in Media \cup {Null}
    BY MatchIs
<1>2. ValidForm(form, TRUE, match # Null)
    BY DEF ValidDump
<1>3. sub.changes = AddChanges(form, match) /\ sub.target = (match # Null)
    OBVIOUS
<1> HIDE DEF match
<1>4. IsAddition(sub.changes)
    BY <1>1, <1>3, AdditionSays
<1>5. ASSUME ~sub.target PROVE IsDump(sub.changes)
  <2>1. match = Null
      BY <1>3, <1>5
  <2>2. ValidForm(form, TRUE, FALSE)
      BY <1>2, <2>1
  <2> DEFINE yes == TRUE
  <2>3. ValidForm(form, yes, FALSE)
      BY <2>2
  <2> HIDE DEF yes
  <2>4. Chosen(form)
      BY <2>3, ValidFormHas
  <2> QED BY <1>3, <2>1, <2>4, DumpSays
<1> QED BY <1>4, <1>5 DEF Said

LEMMA DraftStep == EditInv /\ DraftInv /\ [Next]_vars => DraftInv'
<1> SUFFICES ASSUME EditInv, DraftInv, [Next]_vars PROVE DraftInv'
    OBVIOUS
<1>1. CASE subs' = subs
    BY <1>1 DEF DraftInv
<1>2. ASSUME NEW c \in Clients, NEW s \in SubIds, PostEdit(c, s) PROVE DraftInv'
  <2> DEFINE ch == EditChanges(PostedEdit(c), disc)
             sub == Submission("Edit", c, TRUE, ch, "Pending")
             type == "Edit"
             new == Approved(type, c)
  <2>1. subs' = [subs EXCEPT ![s] = sub] \/ subs' = [subs EXCEPT ![s] = new]
      BY <1>2 DEF PostEdit
  <2>2. Said(sub)
      BY DEF Said, Submission
  <2>3. Said(new)
    <3> HIDE DEF type
    <3> QED BY ApprovedSaid
  <2> HIDE DEF sub, new
  <2> QED BY <2>1, <2>2, <2>3, SaidKept
<1>3. ASSUME NEW c \in Clients, NEW s \in SubIds, PostAdd(c, s) PROVE DraftInv'
  <2>1. PICK form \in AddForms :
            /\ ValidDump(c, form)
            /\ \/ subs' = [subs EXCEPT ![s] = Approved("Disc", c)]
               \/ subs' = [subs EXCEPT ![s] =
                      Submission("Disc", c, Match(form) # Null, AddChanges(form, Match(form)), "Pending")]
      BY <1>3 DEF PostAdd
  <2> DEFINE ch == AddChanges(form, Match(form))
             hit == Match(form) # Null
             sub == Submission("Disc", c, hit, ch, "Pending")
             type == "Disc"
             new == Approved(type, c)
  <2>2. subs' = [subs EXCEPT ![s] = sub] \/ subs' = [subs EXCEPT ![s] = new]
      BY <2>1
  <2>3. sub.changes = ch /\ sub.target = hit
      BY DEF Submission
  <2>4. IsForm(form)
      BY FormsAssumption
  <2>5. Said(new)
    <3> HIDE DEF type
    <3> QED BY ApprovedSaid
  <2> HIDE DEF sub, new
  <2>6. Said(sub)
      BY <2>1, <2>3, <2>4, DumpSaid
  <2> QED BY <2>2, <2>5, <2>6, SaidKept
<1>4. ASSUME NEW c \in Clients, PostDraft(c) PROVE DraftInv'
  <2> DEFINE s == pages[c].sub
             form == pages[c].form
             ch == AddChanges(form, Match(form))
             hit == Match(form) # Null
             old == subs[s]
             sub == [old EXCEPT !.changes = ch, !.target = hit, !.status = "Pending"]
  <2>1. s \in SubIds /\ IsForm(form) /\ IsSubmission(old, disc, nextRing)
    <3>1. pages[c].kind = "draft"
        BY <1>4 DEF PostDraft
    <3> QED BY <3>1 DEF EditInv, IsPage
  <2>2. subs' = [subs EXCEPT ![s] = sub] /\ ValidDump(c, form)
      BY <1>4 DEF PostDraft
  <2>3. old = [type |-> old.type, submitter |-> old.submitter, target |-> old.target,
               changes |-> old.changes, status |-> old.status]
      BY <2>1 DEF IsSubmission
  <2>4. sub.changes = ch /\ sub.target = hit
    <3> HIDE DEF old, ch, hit
    <3> DEFINE u == [type |-> old.type, submitter |-> old.submitter, target |-> old.target,
                     changes |-> old.changes, status |-> old.status]
    <3>1. [u EXCEPT !.changes = ch, !.target = hit, !.status = "Pending"].changes = ch
          /\ [u EXCEPT !.changes = ch, !.target = hit, !.status = "Pending"].target = hit
        OBVIOUS
    <3>2. old = u
        BY <2>3
    <3> HIDE DEF u
    <3> QED BY <3>1, <3>2
  <2> HIDE DEF sub, s, form
  <2>5. Said(sub)
      BY <2>1, <2>2, <2>4, DumpSaid
  <2> QED BY <2>1, <2>2, <2>5, SaidKept
<1>5. ASSUME NEW c \in Clients, ReturnDraft(c) \/ Retarget(c) PROVE DraftInv'
  <2> DEFINE s == pages[c].sub
             old == subs[s]
  <2>1. s \in SubIds /\ IsSubmission(old, disc, nextRing) /\ old.status = "Pending"
    <3>1. pages[c].kind = "review" /\ subs[pages[c].sub].status = "Pending"
        BY <1>5 DEF ReturnDraft, Retarget, Approvable, Reviewing
    <3> QED BY <3>1 DEF EditInv, IsPage
  <2>2. subs' = [subs EXCEPT ![s].status = "Draft"] \/ subs' = [subs EXCEPT ![s].target = TRUE]
      BY <1>5 DEF ReturnDraft, Retarget
  <2>3. Said(old)
    <3>1. old # Null
        BY <1>5 DEF ReturnDraft, Retarget, Approvable, Reviewing
    <3> QED BY <2>1, <3>1 DEF DraftInv
  <2>4. old = [type |-> old.type, submitter |-> old.submitter, target |-> old.target,
               changes |-> old.changes, status |-> old.status]
      BY <2>1 DEF IsSubmission
  <2>5. subs' = [subs EXCEPT ![s] = [old EXCEPT !.status = "Draft"]] \/ subs' = [subs EXCEPT ![s] = [old EXCEPT !.target = TRUE]]
      BY <2>2
  <2> HIDE DEF old, s
  <2> DEFINE a == [old EXCEPT !.status = "Draft"]
             b == [old EXCEPT !.target = TRUE]
  <2>6. /\ a.type = old.type /\ a.changes = old.changes /\ a.target = old.target
        /\ b.type = old.type /\ b.changes = old.changes /\ b.target = TRUE /\ b.status = old.status
      BY <2>4
  <2> HIDE DEF a, b
  <2>7. Said(a) /\ Said(b)
      BY <2>1, <2>3, <2>6 DEF Said
  <2>8. subs' = [subs EXCEPT ![s] = a] \/ subs' = [subs EXCEPT ![s] = b]
      BY <2>5 DEF a, b
  <2> QED BY <2>1, <2>7, <2>8, SaidKept
<1>6. ASSUME NEW c \in Clients, Approve(c) PROVE DraftInv'
  <2> DEFINE s == pages[c].sub
             type == subs[s].type
             who == subs[s].submitter
             new == Approved(type, who)
  <2>1. s \in SubIds
    <3>1. pages[c].kind = "review"
        BY <1>6 DEF Approve, Approvable, Reviewing
    <3> QED BY <3>1 DEF EditInv, IsPage
  <2>2. subs' = [subs EXCEPT ![s] = new]
      BY <1>6 DEF Approve
  <2>3. Said(new)
    <3> HIDE DEF type, who
    <3> QED BY ApprovedSaid
  <2> HIDE DEF new, s
  <2> QED BY <2>1, <2>2, <2>3, SaidKept
<1> QED BY <1>1, <1>2, <1>3, <1>4, <1>5, <1>6
        DEF Next, vars, OpenEdit, OpenReview, OpenDraft, Fill, RefreshReview

\* What a disc has a place for.
LEMMA HasPlace ==
    ASSUME NEW ch, IsAddition(ch), NEW f \in Keys, f \notin NoPlace(ch), disc.media \in Media
    PROVE  Placed(f, ch, disc.system, disc.media)
<1> DEFINE misread == IF ~AllowsMastering[disc.media] THEN ch.mastering # Absent
                      ELSE ch.bca # Absent /\ (ch.bca.bytes # WholeBca \/ ch.mastering = Absent)
           beyond(c) == (c.offset # Absent /\ ~IsCd[disc.media]) \/ \E i \in DOMAIN c.layers : i > Layers[disc.media] + 1
<1>1. Layers[disc.media] \in Nat \ {0}
    BY ReferenceAssumption
<1>a. ch.breaks = Absent \/ Len(ch.breaks) \in Nat
  <2>1. ch.breaks = Absent \/ ch.breaks \in Seq(Nat)
      BY DEF IsAddition, IsChange, Fits, ScalarFields, ListFields, IsEmpty
  <2> QED BY <2>1
<1>b. \A c \in ToSet(ch.rings) : \A i \in DOMAIN c.layers : i \in Nat
    BY DEF IsAddition, IsChange, ChangeList, ToSet, IsRingChange
<1>2. f \in Features => f \in Has[disc.system]
    BY DEF NoPlace
<1>3. f = "errors" => IsCd[disc.media]
    BY DEF NoPlace
<1>4. f = "breaks" => ch.breaks = Absent \/ Len(ch.breaks) < Layers[disc.media]
    BY <1>1, <1>a DEF NoPlace
<1>5. f = "rings" => \A c \in ToSet(ch.rings) : ~beyond(c)
    BY DEF NoPlace
<1>6. f \in {"bca", "mastering"} => ~misread
    BY DEF NoPlace
<1>7. \A c \in ToSet(ch.rings) : ~beyond(c) => (c.offset # Absent => IsCd[disc.media])
                                             /\ \A i \in DOMAIN c.layers : i <= Layers[disc.media] + 1
    BY <1>1, <1>b
<1>8. f = "rings" => \A c \in ToSet(ch.rings) : (c.offset # Absent => IsCd[disc.media])
                                                /\ \A i \in DOMAIN c.layers : i <= Layers[disc.media] + 1
    BY <1>5, <1>7
<1> HIDE DEF beyond
<1>9. f \in {"version", "errors", "edc", "ranges", "bca"} => f \in Features
    BY DEF Features
<1>10. f \in {"version", "errors", "edc", "ranges", "bca"} => f \in Has[disc.system]
    BY <1>2, <1>9
<1>11. f \in {"bca", "mastering"} => ~misread
    BY <1>6
<1> HIDE DEF misread
<1>12. /\ f = "version" => ch.version = Absent \/ "version" \in Has[disc.system]
       /\ f = "errors" => ch.errors = Absent \/ ("errors" \in Has[disc.system] /\ IsCd[disc.media])
       /\ f = "edc" => ch.edc \in {Absent, FALSE} \/ "edc" \in Has[disc.system]
       /\ f = "ranges" => ch.ranges = Absent \/ "ranges" \in Has[disc.system]
       /\ f = "bca" => (ch.bca = Absent \/ "bca" \in Has[disc.system])
    BY <1>3, <1>10
<1>13. /\ f = "bca" => ~misread
       /\ f = "mastering" => ~misread
    BY <1>11
<1> QED BY <1>4, <1>8, <1>12, <1>13 DEF Placed, misread

LEMMA DraftIsSubmittedAgain == EditInv /\ DraftInv => DraftSurvives
<1> SUFFICES ASSUME EditInv, DraftInv, NEW s \in SubIds, subs[s] # Null, subs[s].status = "Draft",
                    subs[s].target = (Match(DraftForm(subs[s])) # Null),
                    NEW f \in Keys, subs[s].changes.bca = Absent => f # "mastering",
                    subs[s].target => f \notin {"system", "media", "dat"} \cup NoPlace(subs[s].changes)
             PROVE  AddChanges(DraftForm(subs[s]), Match(DraftForm(subs[s])))[f] = subs[s].changes[f]
    BY DEF DraftSurvives
<1> DEFINE sub == subs[s]
           ch == sub.changes
           form == DraftForm(sub)
           match == Match(form)
<1>1. IsSubmission(sub, disc, nextRing) /\ Said(sub) /\ sub.target \in BOOLEAN /\ sub.target = (match # Null)
    BY DEF EditInv, DraftInv, IsSubmission
<1>2. IsAddition(ch) /\ (~sub.target => IsDump(ch)) /\ IsChange(ch)
    BY <1>1 DEF Said, IsSubmission, IsAddition
<1>3. sub.target => OnDisc(disc, nextRing) /\ IsContent(disc)
    BY <1>1 DEF IsSubmission, OnDisc
<1>4. IsForm(form)
    BY <1>2, <1>3, DraftFormTypes
<1>5. /\ Shows(form, ch)
      /\ form.system = IF sub.target THEN disc.system ELSE IF ch.system = Absent THEN Null ELSE ch.system
      /\ form.media = IF sub.target THEN disc.media ELSE IF ch.media = Absent THEN Null ELSE ch.media
      /\ form.dat = IF sub.target THEN disc.dat ELSE IF ch.dat = Absent THEN Null ELSE ch.dat
    BY <1>2, DraftShows
<1>6. match # Null => match = disc.media
    BY DEF Match
<1>7. (ch.bca = Absent => f # "mastering") /\ (sub.target => f \notin {"system", "media", "dat"} \cup NoPlace(ch))
    OBVIOUS
<1> HIDE DEF sub, ch, form, match
<1>8. CASE sub.target
  <2>1. match = disc.media /\ match # Null /\ form.system = disc.system /\ form.media = disc.media
      BY <1>1, <1>5, <1>6, <1>8
  <2>2. Chosen(form) /\ disc.media \in Media
      BY <1>3, <1>8, <2>1, ContentIs DEF Chosen
  <2>3. Placed(f, ch, form.system, form.media)
    <3>3. f \notin NoPlace(ch)
        BY <1>7, <1>8
    <3>4. Placed(f, ch, disc.system, disc.media)
        BY <1>2, <2>2, <3>3, HasPlace
    <3> QED BY <2>1, <3>4
  <2>4. f \notin {"system", "media", "dat"} /\ (f = "mastering" => ch.bca # Absent)
      BY <1>7, <1>8
  <2>5. AddChanges(form, match)[f] = ch[f]
      BY <1>2, <1>4, <1>5, <2>1, <2>2, <2>3, <2>4, DraftAgain
  <2> QED BY <2>5 DEF sub, ch, form, match
<1>9. CASE ~sub.target
  <2>1. match = Null
      BY <1>1, <1>9
  <2>2. IsDump(ch)
      BY <1>2, <1>9
  <2>3. form.system = ch.system /\ form.media = ch.media /\ ch.edc # Absent
      BY <1>5, <1>9, <2>2 DEF IsDump
  <2>4. Chosen(form) /\ Placed(f, ch, form.system, form.media)
    <3>1. ch.system \in Systems /\ ch.media \in MediaOf[ch.system] /\ Placed(f, ch, ch.system, ch.media)
        BY <2>2 DEF IsDump
    <3>2. ch.media \in Media
        BY <3>1, ReferenceAssumption
    <3> QED BY <2>3, <3>1, <3>2 DEF Chosen
  <2>5. f \in {"system", "media", "dat"} => form[f] = IF ch[f] = Absent THEN Null ELSE ch[f]
      BY <1>5, <1>9
  <2>6. AddChanges(form, match)[f] = ch[f]
      BY <1>2, <1>4, <1>5, <1>7, <2>1, <2>3, <2>4, <2>5, DraftAgain
  <2> QED BY <2>6 DEF sub, ch, form, match
<1> QED BY <1>1, <1>8, <1>9

\* A Draft that is posted as it is shown is submitted again as it was, through
\* every matching and every approval in between.
THEOREM DraftsSurvive == Spec => []DraftSurvives
<1>1. Init => DraftInv
    BY DEF Init, DraftInv
<1>2. EditInv /\ DraftInv /\ [Next]_vars => DraftInv'
    BY DraftStep
<1>3. EditInv /\ DraftInv => DraftSurvives
    BY DraftIsSubmittedAgain
<1> QED BY <1>1, <1>2, <1>3, EditInvariance, PTL DEF Spec

-----------------------------------------------------------------------------
(* A verification that is approved as it is shown.                        *)

\* An addition says nothing that is empty.
Adds(c) ==
    /\ IsRingChange(c) /\ c.id = NoId /\ c.remove = FALSE
    /\ c.offset # 0 /\ c.comment # 0
    /\ \A i \in DOMAIN c.layers : c.layers[i].code # 0

LEMMA AdditionAdds ==
    ASSUME NEW r \in Rings
    PROVE  Adds(RingEntryChange(EmptyRing, r))
<1> DEFINE c == RingEntryChange(EmptyRing, r)
<1>1. EmptyRing \in Rings /\ EmptyRing.offset = 0 /\ EmptyRing.comment = 0 /\ EmptyRing.id = NoId
      /\ \A i : LayerAt(EmptyRing, i) = EmptyLayer
    BY EmptyRingIs DEF EmptyRing, LayerAt
<1>2. /\ IsRingChange(c) /\ c.id = EmptyRing.id /\ c.remove = FALSE
      /\ c.offset = TextChange(EmptyRing.offset, r.offset) /\ c.comment = TextChange(EmptyRing.comment, r.comment)
      /\ \A i \in DOMAIN c.layers :
            c.layers[i] = [code |-> TextChange(LayerAt(EmptyRing, i).code, LayerAt(r, i).code),
                           tools |-> TextChange(LayerAt(EmptyRing, i).tools, LayerAt(r, i).tools)]
    BY <1>1, RingChangeIs
<1> HIDE DEF c
<1>3. Absent # 0
    BY NotAbsent
<1>4. \A v : TextChange(0, v) # 0
    BY <1>3 DEF TextChange
<1>5. \A i \in DOMAIN c.layers : c.layers[i].code = TextChange(0, LayerAt(r, i).code)
  <2> SUFFICES ASSUME NEW i \in DOMAIN c.layers PROVE c.layers[i].code = TextChange(0, LayerAt(r, i).code)
      OBVIOUS
  <2>1. LayerAt(EmptyRing, i).code = 0
      BY <1>1 DEF EmptyLayer
  <2> DEFINE v == TextChange(LayerAt(EmptyRing, i).code, LayerAt(r, i).code)
             w == TextChange(LayerAt(EmptyRing, i).tools, LayerAt(r, i).tools)
  <2>2. c.layers[i] = [code |-> v, tools |-> w]
      BY <1>2
  <2>3. v = TextChange(0, LayerAt(r, i).code)
      BY <2>1
  <2> HIDE DEF v, w
  <2>4. c.layers[i].code = v
      BY <2>2
  <2> QED BY <2>3, <2>4
<1>6. c.offset # 0 /\ c.comment # 0 /\ \A i \in DOMAIN c.layers : c.layers[i].code # 0
    BY <1>1, <1>2, <1>4, <1>5
<1>7. Adds(c)
    BY <1>1, <1>2, <1>6 DEF Adds
<1> QED BY <1>7 DEF c

\* An entry that others are merged with keeps its codes, its comment, its
\* offset, unless it had none, and its tool marks.
Grows(r, q) ==
    /\ q.id = r.id /\ q.comment = r.comment
    /\ r.offset # 0 => q.offset = r.offset
    /\ \A i \in Nat \ {0} : /\ CodeAt(q, i) = CodeAt(r, i)
                            /\ LayerAt(r, i).tools \subseteq LayerAt(q, i).tools

\* An entry that is added is another than r, or has no mastering codes.
Apart(r, x) ==
    \/ x.comment # r.comment
    \/ \E i \in Nat \ {0} : CodeAt(x, i) # CodeAt(r, i)
    \/ r.offset # 0 /\ x.offset # 0 /\ r.offset # x.offset
    \/ \A i \in Nat \ {0} : CodeAt(x, i) = 0

LEMMA GrowsItself == \A r : Grows(r, r)
    BY DEF Grows

LEMMA GrowsOn ==
    ASSUME NEW r, NEW q, NEW p, Grows(r, q), Grows(q, p)
    PROVE  Grows(r, p)
    BY DEF Grows

LEMMA StaysApart ==
    ASSUME NEW r, NEW q, NEW x, Apart(r, x), Grows(r, q)
    PROVE  Apart(q, x)
    BY DEF Apart, Grows

\* What a change is merged with grows.
LEMMA MergeGrows ==
    ASSUME NEW r \in Rings, NEW c, Adds(c),
           HasIdentity(c) => IdentifiedMatch(r, c), ~HasIdentity(c) => ContainedMatch(r, c)
    PROVE  Merged(r, c) \in Rings /\ Grows(r, Merged(r, c))
<1> DEFINE yes == TRUE
           q == ChangeEntry(r, c, yes)
<1>1. /\ IsRingChange(c) /\ c.offset # 0 /\ c.comment # 0
      /\ \A i \in DOMAIN c.layers : c.layers[i].code # 0
    BY DEF Adds
<1>2. /\ q \in Rings /\ q.id = r.id
      /\ q.offset = IF c.offset = Absent THEN r.offset ELSE c.offset
      /\ q.comment = IF c.comment = Absent THEN r.comment ELSE c.comment
      /\ \A i \in Nat \ {0} : LayerAt(q, i) = IF i \in DOMAIN c.layers THEN ChangeLayer(LayerAt(r, i), c.layers[i], yes)
                                              ELSE LayerAt(r, i)
  <2> HIDE DEF yes
  <2> QED BY <1>1, ChangedEntry
<1>3. yes = TRUE
    OBVIOUS
<1> HIDE DEF q, yes
<1>4. c.comment # Absent => c.comment = r.comment
    BY <1>1 DEF IdentifiedMatch, ContainedMatch, NewText
<1>5. c.offset # Absent /\ r.offset # 0 => c.offset = r.offset
    BY <1>1 DEF IdentifiedMatch, ContainedMatch, NewText
<1>6. ASSUME NEW i \in DOMAIN c.layers, c.layers[i].code # Absent PROVE c.layers[i].code = CodeAt(r, i)
  <2>1. NewText(c.layers[i].code) = c.layers[i].code /\ HasIdentity(c)
      BY <1>1, <1>6 DEF HasIdentity, NewText
  <2> QED BY <1>6, <2>1 DEF IdentifiedMatch, CodeAt
<1>7. ASSUME NEW i \in Nat \ {0}
      PROVE  CodeAt(q, i) = CodeAt(r, i) /\ LayerAt(r, i).tools \subseteq LayerAt(q, i).tools
  <2>1. CASE i \notin DOMAIN c.layers
      BY <1>2, <2>1 DEF CodeAt
  <2>2. CASE i \in DOMAIN c.layers
    <3> DEFINE l == LayerAt(r, i)
               n == c.layers[i]
    <3>1. LayerAt(q, i) = ChangeLayer(l, n, yes)
        BY <1>2, <2>2
    <3>2. n.code # Absent => n.code = l.code
        BY <1>6, <2>2 DEF CodeAt
    <3> HIDE DEF l, n
    <3>3. ChangeLayer(l, n, yes).code = l.code /\ l.tools \subseteq ChangeLayer(l, n, yes).tools
        BY <1>3, <3>2 DEF ChangeLayer
    <3> QED BY <3>1, <3>3 DEF CodeAt, l
  <2> QED BY <2>1, <2>2
<1>8. Grows(r, q)
    BY <1>2, <1>4, <1>5, <1>7 DEF Grows
<1> QED BY <1>2, <1>3, <1>8 DEF Merged, q

\* What is added although it was compared with r.
LEMMA AdditionApart ==
    ASSUME NEW r \in Rings, NEW c, Adds(c), HasIdentity(c) => ~IdentifiedMatch(r, c)
    PROVE  Apart(r, Plain(EmptyRing, c))
<1> DEFINE no == FALSE
           x == ChangeEntry(EmptyRing, c, no)
<1>1. /\ IsRingChange(c) /\ c.offset # 0 /\ c.comment # 0
      /\ \A i \in DOMAIN c.layers : c.layers[i].code # 0
    BY DEF Adds
<1>2. EmptyRing \in Rings /\ EmptyRing.offset = 0 /\ EmptyRing.comment = 0 /\ \A i : LayerAt(EmptyRing, i) = EmptyLayer
    BY EmptyRingIs DEF EmptyRing, LayerAt
<1>3. /\ x.offset = IF c.offset = Absent THEN EmptyRing.offset ELSE c.offset
      /\ x.comment = IF c.comment = Absent THEN EmptyRing.comment ELSE c.comment
      /\ \A i \in Nat \ {0} : LayerAt(x, i) = IF i \in DOMAIN c.layers THEN ChangeLayer(LayerAt(EmptyRing, i), c.layers[i], no)
                                              ELSE LayerAt(EmptyRing, i)
  <2> HIDE DEF no
  <2> QED BY <1>1, <1>2, ChangedEntry
<1>4. no = FALSE
    OBVIOUS
<1> HIDE DEF x, no
<1>5. x.offset = NewText(c.offset) /\ x.comment = NewText(c.comment)
    BY <1>2, <1>3 DEF NewText
<1>6. ASSUME NEW i \in Nat \ {0} PROVE CodeAt(x, i) = IF i \in DOMAIN c.layers THEN NewText(c.layers[i].code) ELSE 0
  <2>1. LayerAt(EmptyRing, i) = EmptyLayer
      BY <1>2
  <2>2. ChangeLayer(EmptyLayer, c.layers[i], no).code = NewText(c.layers[i].code)
      BY DEF ChangeLayer, EmptyLayer, NewText
  <2> QED BY <1>3, <2>1, <2>2 DEF CodeAt, EmptyLayer
<1>7. ASSUME ~Apart(r, x) PROVE FALSE
  <2>1. /\ x.comment = r.comment /\ \A i \in Nat \ {0} : CodeAt(x, i) = CodeAt(r, i)
        /\ r.offset = 0 \/ x.offset = 0 \/ r.offset = x.offset
      BY <1>7 DEF Apart
  <2>2. PICK i \in Nat \ {0} : CodeAt(x, i) # 0
      BY <1>7 DEF Apart
  <2>3. HasIdentity(c)
      BY <1>6, <2>2 DEF HasIdentity
  <2>4. DOMAIN c.layers \subseteq Nat \ {0} /\ DOMAIN r.layers \subseteq Nat \ {0}
      BY <1>1, RingLayers DEF IsRingChange
  <2>5. ASSUME NEW j \in DOMAIN c.layers PROVE NewText(c.layers[j].code) = LayerAt(r, j).code
      BY <1>6, <2>1, <2>4 DEF CodeAt
  <2>6. ASSUME NEW j \in DOMAIN r.layers, r.layers[j].code # 0 PROVE j \in DOMAIN c.layers
    <3>1. CodeAt(r, j) # 0 /\ j \in Nat \ {0}
        BY <2>4, <2>6 DEF CodeAt, LayerAt
    <3> QED BY <1>6, <2>1, <3>1
  <2>7. IdentifiedMatch(r, c)
      BY <1>5, <2>1, <2>5, <2>6 DEF IdentifiedMatch
  <2> QED BY <2>3, <2>7
<1> QED BY <1>4, <1>7 DEF Plain, x

\* A media has a place for what a change says.
FitsIn(c, m) == (c.offset # Absent => IsCd[m]) /\ \A i \in DOMAIN c.layers : i <= Layers[m] + 1

LEMMA MergedFit ==
    ASSUME NEW r \in Rings, NEW m \in Media, IsFit(r, m), NEW c, Adds(c), FitsIn(c, m), Grows(r, Merged(r, c))
    PROVE  IsFit(Merged(r, c), m)
<1> DEFINE yes == TRUE
           q == ChangeEntry(r, c, yes)
<1>1. /\ q \in Rings
      /\ q.offset = IF c.offset = Absent THEN r.offset ELSE c.offset
      /\ DOMAIN q.layers = DOMAIN r.layers \cup UNION {1 .. i : i \in DOMAIN c.layers}
  <2>1. IsRingChange(c)
      BY DEF Adds
  <2> HIDE DEF yes
  <2> QED BY <2>1, ChangedEntry
<1>2. Merged(r, c) = q
    BY DEF Merged
<1> HIDE DEF q, yes
<1>3. Grows(r, q)
    BY <1>2
<1>4. q.offset # 0 => IsCd[m]
    BY <1>1 DEF IsFit, FitsIn
<1>5. /\ DOMAIN q.layers = 1 .. Len(q.layers) /\ Len(q.layers) \in Nat
      /\ DOMAIN r.layers = 1 .. Len(r.layers) /\ Len(r.layers) \in Nat
      /\ DOMAIN r.layers \subseteq Nat \ {0} /\ Layers[m] \in Nat \ {0}
      /\ \A i : i \notin DOMAIN r.layers => LayerAt(r, i) = EmptyLayer
      /\ \A i \in Nat : LayerAt(r, i) \in LayerTypes
    BY <1>1, RingLayers, ReferenceAssumption DEF IsList, LayerTypes
<1>6. Len(q.layers) <= Layers[m] + 1
  <2>1. CASE Len(q.layers) = 0
      BY <1>5, <2>1
  <2>2. CASE Len(q.layers) # 0
    <3>1. Len(q.layers) \in DOMAIN q.layers
        BY <1>5, <2>2
    <3>2. CASE Len(q.layers) \in DOMAIN r.layers
        BY <1>5, <3>2 DEF IsFit
    <3>3. ASSUME NEW i \in DOMAIN c.layers, Len(q.layers) \in 1 .. i PROVE Len(q.layers) <= Layers[m] + 1
      <4>1. i \in Nat /\ i <= Layers[m] + 1
          BY DEF Adds, IsRingChange, FitsIn
      <4> QED BY <1>5, <3>3, <4>1
    <3> QED BY <1>1, <3>1, <3>2, <3>3
  <2> QED BY <2>1, <2>2
<1>7. ASSUME RingIsEmpty(q) PROVE FALSE
  <2>1. r.offset = 0 /\ r.comment = 0
      BY <1>3, <1>7 DEF RingIsEmpty, Grows
  <2>2. ASSUME NEW i \in DOMAIN r.layers PROVE r.layers[i] = EmptyLayer
    <3>1. i \in Nat \ {0} /\ LayerAt(r, i) = r.layers[i] /\ LayerAt(r, i) \in LayerTypes
        BY <1>5 DEF LayerAt
    <3>2. LayerAt(q, i) = EmptyLayer
        BY <1>7 DEF RingIsEmpty, LayerAt
    <3>3. LayerAt(r, i).code = 0 /\ LayerAt(r, i).tools \subseteq {}
        BY <1>3, <3>1, <3>2 DEF Grows, CodeAt, EmptyLayer
    <3>4. LayerAt(r, i) = [code |-> LayerAt(r, i).code, tools |-> LayerAt(r, i).tools]
        BY <3>1 DEF LayerTypes
    <3> QED BY <3>1, <3>3, <3>4 DEF EmptyLayer
  <2>3. RingIsEmpty(r)
      BY <2>1, <2>2 DEF RingIsEmpty
  <2> QED BY <2>3 DEF IsFit
<1> QED BY <1>2, <1>4, <1>6, <1>7 DEF IsFit

\* The changes so far: entries of the disc have grown, others are added.
MergedSo(a, so, chs, m) ==
    /\ \A k \in DOMAIN so : Grows(so[k], a.rings[k]) /\ IsFit(a.rings[k], m)
    /\ \A x \in ToSet(a.added) : \E c \in ToSet(chs) : x = Plain(EmptyRing, c)
    /\ \A k \in DOMAIN so : \A x \in ToSet(a.added) : Apart(a.rings[k], x)

LEMMA AppendedSet ==
    ASSUME NEW S, NEW s, IsList(s), \A i \in DOMAIN s : s[i] \in S, NEW x \in S
    PROVE  ToSet(Append(s, x)) = ToSet(s) \cup {x}
<1> DEFINE t == Append(s, x)
<1>0. /\ IsList(t) /\ Len(t) = Len(s) + 1
      /\ \A i \in DOMAIN t : t[i] \in S
      /\ \A i \in DOMAIN s : t[i] = s[i]
      /\ t[Len(s) + 1] = x
    BY Appended
<1> HIDE DEF t
<1>1. /\ IsList(t) /\ Len(t) = Len(s) + 1 /\ (\A i \in DOMAIN s : t[i] = s[i]) /\ t[Len(s) + 1] = x
    BY <1>0
<1>2. Len(s) \in Nat /\ DOMAIN s = 1 .. Len(s) /\ DOMAIN t = 1 .. Len(s) + 1
    BY <1>1 DEF IsList
<1>3. \A i \in DOMAIN t : i \in DOMAIN s \/ i = Len(s) + 1
    BY <1>2
<1>4. DOMAIN s \subseteq DOMAIN t /\ Len(s) + 1 \in DOMAIN t
    BY <1>2
<1>5. ToSet(t) = ToSet(s) \cup {x}
    BY <1>1, <1>3, <1>4 DEF ToSet
<1> QED BY <1>5 DEF t

LEMMA MergeStep ==
    ASSUME NEW so, RingList(so), NEW m \in Media, NEW a, IsState(a, Len(so)), NEW chs, MergedSo(a, so, chs, m),
           NEW c \in ToSet(chs), Adds(c), FitsIn(c, m)
    PROVE  MergedSo(ApplyEntry(a, c, TRUE, {}), so, chs, m)
<1> DEFINE yes == TRUE
           b == ApplyEntry(a, c, yes, {})
           ks == Targets(a.rings, c, yes, {})
<1>1. IsRingChange(c) /\ c.id = NoId /\ c.remove = FALSE
    BY DEF Adds
<1>2. AppliedOnce(a, b, c, ks)
  <2> DEFINE n == Len(so)
  <2>1. IsState(a, n)
      OBVIOUS
  <2> HIDE DEF yes, n
  <2> QED BY <1>1, <2>1, EntryApplied
<1>3. ks = {k \in DOMAIN a.rings : IF HasIdentity(c) THEN IdentifiedMatch(a.rings[k], c) ELSE ContainedMatch(a.rings[k], c)}
    BY <1>1 DEF Targets, MatchingRings
<1>4. yes = TRUE
    OBVIOUS
<1> HIDE DEF b, ks, yes
<1>5. /\ IsList(a.rings) /\ DOMAIN a.rings = DOMAIN so /\ \A k \in DOMAIN so : a.rings[k] \in Rings
      /\ IsList(a.added) /\ \A k \in DOMAIN a.added : a.added[k] \in Rings
    BY DEF IsState, RingList, IsList
<1>6. CASE ks = {}
  <2> DEFINE x == Plain(EmptyRing, c)
  <2>1. b.rings = a.rings /\ b.added = Append(a.added, x)
      BY <1>1, <1>2, <1>6 DEF AppliedOnce
  <2>2. x \in Rings
      BY <1>1, EmptyRingIs, PlainEntry
  <2>3. \A k \in DOMAIN so : Apart(a.rings[k], x)
    <3> SUFFICES ASSUME NEW k \in DOMAIN so PROVE Apart(a.rings[k], x)
        OBVIOUS
    <3>1. HasIdentity(c) => ~IdentifiedMatch(a.rings[k], c)
        BY <1>3, <1>5, <1>6
    <3> QED BY <1>5, <3>1, AdditionApart
  <2> HIDE DEF x
  <2>4. ToSet(b.added) = ToSet(a.added) \cup {x}
      BY <1>5, <2>1, <2>2, AppendedSet
  <2>5. \A y \in ToSet(b.added) : \E d \in ToSet(chs) : y = Plain(EmptyRing, d)
      BY <2>4 DEF MergedSo, x
  <2> QED BY <1>4, <2>1, <2>3, <2>4, <2>5 DEF MergedSo, b
<1>7. CASE ks # {}
  <2>1. PICK k \in ks : b.added = a.added /\ b.rings = [a.rings EXCEPT ![k] = Merged(a.rings[k], c)]
      BY <1>1, <1>2, <1>7 DEF AppliedOnce
  <2>2. k \in DOMAIN so /\ (HasIdentity(c) => IdentifiedMatch(a.rings[k], c)) /\ (~HasIdentity(c) => ContainedMatch(a.rings[k], c))
      BY <1>3, <1>5
  <2>3. Grows(a.rings[k], Merged(a.rings[k], c))
      BY <1>5, <2>2, MergeGrows
  <2>4. IsFit(Merged(a.rings[k], c), m)
    <3>1. IsFit(a.rings[k], m)
        BY <2>2 DEF MergedSo
    <3> QED BY <1>5, <2>2, <2>3, <3>1, MergedFit
  <2>5. \A j \in DOMAIN so : Grows(a.rings[j], b.rings[j]) /\ IsFit(b.rings[j], m)
    <3> SUFFICES ASSUME NEW j \in DOMAIN so PROVE Grows(a.rings[j], b.rings[j]) /\ IsFit(b.rings[j], m)
        OBVIOUS
    <3>1. CASE j = k
        BY <1>5, <2>1, <2>2, <2>3, <2>4, <3>1
    <3>2. CASE j # k
      <4>1. b.rings[j] = a.rings[j]
          BY <1>5, <2>1, <3>2
      <4> QED BY <4>1, GrowsItself DEF MergedSo
    <3> QED BY <3>1, <3>2
  <2>6. \A j \in DOMAIN so : Grows(so[j], b.rings[j])
      BY <2>5, GrowsOn DEF MergedSo
  <2>7. \A j \in DOMAIN so : \A x \in ToSet(b.added) : Apart(b.rings[j], x)
      BY <2>1, <2>5, StaysApart DEF MergedSo
  <2> QED BY <1>4, <2>1, <2>5, <2>6, <2>7 DEF MergedSo, b
<1> QED BY <1>6, <1>7

\* The additions of a submission, one after the other.
LEMMA MergeRun ==
    ASSUME NEW old, RingList(old), NEW m \in Media, \A r \in ToSet(old) : IsFit(r, m),
           NEW chs, ChangeList(chs), \A c \in ToSet(chs) : Adds(c) /\ FitsIn(c, m)
    PROVE  \A n \in 0 .. Len(chs) : MergedSo(Applications(old, chs, TRUE, {})[n], SortRings(old), chs, m)
<1> DEFINE yes == TRUE
           acc == Applications(old, chs, yes, {})
           so == SortRings(old)
           last == Len(chs)
           Keeps(n) == MergedSo(acc[n], so, chs, m)
           Bad == {n \in 0 .. last : ~Keeps(n)}
<1>1. last \in Nat /\ DOMAIN chs = 1 .. last
    BY DEF ChangeList, IsList
<1>2. acc[0] = [rings |-> so, added |-> <<>>] /\ \A n \in 1 .. last : acc[n] = ApplyEntry(acc[n - 1], chs[n], yes, {})
  <2> HIDE DEF yes
  <2> QED BY <1>1, ApplicationsAre
<1>3. \A n \in 0 .. last : IsState(acc[n], Len(old))
  <2> HIDE DEF yes
  <2>1. \A n \in 0 .. Len(chs) :
              LET a == Applications(old, chs, yes, {})[n] IN
              /\ IsState(a, Len(old))
              /\ \A k \in 1 .. Len(old) : a.rings[k].id = SortRings(old)[k].id
      BY RunKeeps
  <2> QED BY <2>1
<1>4. RingList(so) /\ Len(so) = Len(old) /\ ToSet(so) = ToSet(old)
    BY SortedRings, SortedHas
<1>5. yes = TRUE
    OBVIOUS
<1> HIDE DEF acc, so, last, yes
<1>6. Keeps(0)
  <2>1. acc[0].rings = so /\ acc[0].added = <<>>
      BY <1>2
  <2>2. ToSet(<<>>) = {}
      BY NoRingsAre DEF NoRings
  <2>3. \A k \in DOMAIN so : Grows(so[k], so[k]) /\ IsFit(so[k], m)
      BY <1>4, GrowsItself DEF ToSet
  <2> QED BY <2>1, <2>2, <2>3 DEF MergedSo
<1>7. ASSUME NEW n \in 1 .. last, Keeps(n - 1) PROVE Keeps(n)
  <2> DEFINE a == acc[n - 1]
             c == chs[n]
  <2>1. acc[n] = ApplyEntry(a, c, TRUE, {}) /\ c \in ToSet(chs)
      BY <1>1, <1>2, <1>5 DEF ToSet
  <2>2. IsState(a, Len(so)) /\ MergedSo(a, so, chs, m)
      BY <1>1, <1>3, <1>4, <1>7
  <2>3. Adds(c) /\ FitsIn(c, m)
      BY <2>1
  <2> HIDE DEF a, c
  <2>4. MergedSo(ApplyEntry(a, c, TRUE, {}), so, chs, m)
      BY <1>4, <2>1, <2>2, <2>3, MergeStep
  <2> QED BY <2>1, <2>4
<1> HIDE DEF Keeps
<1>8. CASE Bad = {}
    BY <1>5, <1>8 DEF Keeps, acc, so, last
<1>9. CASE Bad # {}
  <2>1. PICK n \in Bad : \A j \in Bad : n <= j
    <3>1. Bad \in SUBSET Nat
        BY <1>1
    <3> HIDE DEF Bad
    <3> QED BY <1>9, <3>1, LeastNumber
  <2>2. n # 0 /\ n \in 0 .. last
      BY <1>6, <2>1
  <2>3. n \in 1 .. last /\ n - 1 \in 0 .. last /\ ~(n <= n - 1)
      BY <1>1, <2>2
  <2>4. Keeps(n - 1)
      BY <2>1, <2>3
  <2> QED BY <1>7, <2>1, <2>3, <2>4
<1> QED BY <1>8, <1>9

\* What a page shows of a verification: each entry of the disc, grown, and
\* entries that are apart from them.
Verified(rs, old, m) ==
    /\ RingList(rs) /\ HasIds(rs)
    /\ \A q \in ToSet(rs) : IsFit(q, m) /\ (q.id = NoId \/ q.id \in RingIds(old))
    /\ \A o \in ToSet(old) : \E q \in ToSet(rs) : Grows(o, q)
    /\ \A q, r \in ToSet(rs) : q.id # NoId /\ r.id = NoId => Apart(q, r)

LEMMA AppliedVerify ==
    ASSUME NEW old, RingList(old), HasIds(old), \A k \in DOMAIN old : old[k].id # NoId,
           NEW m \in Media, \A r \in ToSet(old) : IsFit(r, m),
           NEW new, RingList(new), HasIds(new),
           \A c \in ToSet(RingChanges(NoRings, new, FALSE)) : FitsIn(c, m)
    PROVE  Verified(ApplyRings(old, RingChanges(NoRings, new, FALSE), TRUE), old, m)
<1> DEFINE no == FALSE
           yes == TRUE
           chs == RingChanges(NoRings, new, no)
           e == Additions(chs)
           rs == ApplyRings(old, chs, yes)
           so == SortRings(old)
           done == LastOf(old, chs, yes)
           K == {k \in 1 .. Len(old) : so[k].id \notin RemovedIds(chs)}
<1>0. no = FALSE /\ yes = TRUE
    OBVIOUS
<1>1. AreAdditions(chs) /\ DOMAIN e = DOMAIN chs
      /\ \A i \in DOMAIN chs : e[i] = Plain(EmptyRing, chs[i]) /\ RingEntryChange(EmptyRing, e[i]) = chs[i]
    BY AdditionsOfNone
<1>2. \A c \in ToSet(chs) : FitsIn(c, m)
    OBVIOUS
<1>3. \A r \in ToSet(e) : IsFit(r, m)
  <2>1. \A c \in ToSet(RingChanges(NoRings, new, FALSE)) :
               (c.offset # Absent => IsCd[m]) /\ \A i \in DOMAIN c.layers : i <= Layers[m] + 1
      BY <1>2 DEF FitsIn
  <2> QED BY <2>1, AddedFit
<1>4. RingList(e)
    BY AdditionsOfNone
<1> HIDE DEF no, yes, chs, e
<1>5. ChangeList(chs) /\ \A c \in ToSet(chs) : c.remove = FALSE
    BY <1>1 DEF AreAdditions, ToSet
<1>6. \A c \in ToSet(chs) : Adds(c)
  <2> SUFFICES ASSUME NEW i \in DOMAIN chs PROVE Adds(chs[i])
      BY DEF ToSet
  <2>1. e[i] \in Rings
      BY <1>1, <1>4 DEF RingList
  <2>2. Adds(RingEntryChange(EmptyRing, e[i]))
      BY <2>1, AdditionAdds
  <2> QED BY <1>1, <2>2
<1>7. RemovedIds(chs) = {}
    BY <1>5 DEF RemovedIds
<1>8. RingList(so) /\ Len(so) = Len(old) /\ ToSet(so) = ToSet(old) /\ DOMAIN so = 1 .. Len(old)
    BY SortedRings, SortedHas DEF RingList, IsList
<1>9. MergedSo(done, so, chs, m)
  <2>1. Len(chs) \in 0 .. Len(chs)
      BY <1>5 DEF ChangeList, IsList
  <2>2. \A n \in 0 .. Len(chs) : MergedSo(Applications(old, chs, TRUE, {})[n], SortRings(old), chs, m)
      BY <1>2, <1>5, <1>6, MergeRun
  <2> QED BY <1>0, <1>7, <2>1, <2>2 DEF LastOf
<1>10. /\ IsState(done, Len(old)) /\ \A k \in 1 .. Len(old) : done.rings[k].id = so[k].id
       /\ ToSet(rs) = {done.rings[k] : k \in K} \cup ToSet(done.added)
    BY <1>5, AppliedAre, ZenonT(60)
<1>11. RingList(rs) /\ HasIds(rs) /\ \A q \in ToSet(rs) : q.id = NoId \/ q.id \in RingIds(old)
    BY <1>5, AppliedRings
<1>12. K = DOMAIN so
    BY <1>7, <1>8
<1>13. \A x \in ToSet(done.added) : x.id = NoId
    BY <1>10 DEF IsState, ToSet
<1>14. \A k \in DOMAIN so : so[k].id # NoId
  <2>1. \A o \in ToSet(old) : o.id # NoId
      BY DEF ToSet
  <2> HIDE DEF so
  <2> QED BY <1>8, <2>1 DEF ToSet
<1> HIDE DEF so, done, rs, K
<1>15. \A q \in ToSet(rs) : IsFit(q, m)
  <2>1. \A x \in ToSet(done.added) : IsFit(x, m)
    <3>1. \A c \in ToSet(chs) : Plain(EmptyRing, c) \in ToSet(e)
        BY <1>1 DEF ToSet
    <3> QED BY <1>3, <1>9, <3>1 DEF MergedSo
  <2> QED BY <1>9, <1>10, <1>12, <2>1 DEF MergedSo
<1>16. \A o \in ToSet(old) : \E q \in ToSet(rs) : Grows(o, q)
  <2>1. \A o \in ToSet(so) : \E k \in DOMAIN so : o = so[k]
      BY DEF ToSet
  <2> QED BY <1>8, <1>9, <1>10, <1>12, <2>1 DEF MergedSo
<1>17. \A q, r \in ToSet(rs) : q.id # NoId /\ r.id = NoId => Apart(q, r)
  <2> SUFFICES ASSUME NEW q \in ToSet(rs), NEW r \in ToSet(rs), q.id # NoId, r.id = NoId PROVE Apart(q, r)
      OBVIOUS
  <2>1. PICK k \in DOMAIN so : q = done.rings[k]
      BY <1>10, <1>12, <1>13
  <2>2. r \in ToSet(done.added)
      BY <1>8, <1>10, <1>12, <1>14
  <2> QED BY <1>9, <2>1, <2>2 DEF MergedSo
<1>18. Verified(rs, old, m)
    BY <1>11, <1>15, <1>16, <1>17 DEF Verified
<1> QED BY <1>0, <1>18 DEF rs, chs

\* A submission that says nothing of entries shows those of the disc.
LEMMA NothingVerified ==
    ASSUME NEW old, RingList(old), HasIds(old), \A k \in DOMAIN old : old[k].id # NoId,
           NEW m \in Media, \A r \in ToSet(old) : IsFit(r, m)
    PROVE  Verified(old, old, m)
<1>1. \A q \in ToSet(old) : q.id # NoId /\ q.id \in RingIds(old)
    BY DEF ToSet, RingIds
<1>2. \A o \in ToSet(old) : \E q \in ToSet(old) : Grows(o, q)
    BY GrowsItself
<1> QED BY <1>1, <1>2 DEF Verified

\* An entry of the disc that comes of an entry p of the page.
ComesOf(u, p, old) ==
    /\ u.offset = p.offset /\ u.comment = p.comment /\ \A i \in Nat \ {0} : CodeAt(u, i) = CodeAt(p, i)
    /\ IF u.id \in RingIds(old) THEN p.id = u.id ELSE p.id \notin RingIds(old)

LEMMA MediaCodes ==
    ASSUME NEW u \in Rings, NEW q \in Rings, NEW p \in Rings, NEW m \in Media, IsFit(p, m),
           u.layers = MediaLayers(q, m), u.offset = q.offset, u.comment = q.comment, Alike(q, p)
    PROVE  u.offset = p.offset /\ u.comment = p.comment /\ \A i \in Nat \ {0} : CodeAt(u, i) = CodeAt(p, i)
<1>1. /\ DOMAIN u.layers = 1 .. Layers[m] + 1
      /\ \A i \in 1 .. Layers[m] + 1 : u.layers[i] = LayerAt(q, i)
  <2>1. DOMAIN MediaLayers(q, m) = 1 .. Layers[m] + 1
        /\ \A i \in 1 .. Layers[m] + 1 : MediaLayers(q, m)[i] = LayerAt(q, i)
      BY MediaLayersAre
  <2> QED BY <2>1
<1>2. Layers[m] \in Nat /\ Len(p.layers) \in Nat /\ DOMAIN p.layers = 1 .. Len(p.layers) /\ Len(p.layers) <= Layers[m] + 1
    BY RingLayers, ReferenceAssumption DEF IsFit, IsList
<1>3. ASSUME NEW i \in Nat \ {0} PROVE CodeAt(u, i) = CodeAt(p, i)
  <2>1. CASE i \in 1 .. Layers[m] + 1
    <3>1. LayerAt(u, i) = LayerAt(q, i)
        BY <1>1, <2>1 DEF LayerAt
    <3>2. LayerAt(q, i) = LayerAt(p, i)
        BY DEF Alike
    <3> QED BY <3>1, <3>2 DEF CodeAt
  <2>2. CASE i \notin 1 .. Layers[m] + 1
    <3>1. i \notin DOMAIN u.layers /\ i \notin DOMAIN p.layers
        BY <1>1, <1>2, <2>2
    <3> QED BY <3>1 DEF CodeAt, LayerAt
  <2> QED BY <2>1, <2>2
<1> QED BY <1>3 DEF Alike

\* Each entry of the disc comes of the entry with its id, or of a new one.
LEMMA StoredComesOf ==
    ASSUME NEW old, NEW m \in Media, NEW new, Verified(new, old, m),
           NEW rs, AreEntriesOf(rs, new, old), NEW nextId \in Nat, \A i \in RingIds(old) : i < nextId,
           NEW t, IsStored(t, rs, m, nextId), NEW u \in ToSet(t)
    PROVE  \E p \in ToSet(new) : ComesOf(u, p, old)
<1>1. /\ \A q \in ToSet(rs) : q \in Rings
      /\ \A p \in ToSet(new) : p \in Rings /\ IsFit(p, m)
      /\ \A v \in ToSet(t) : v \in Rings /\ v.id # NoId
    BY DEF AreEntriesOf, Verified, IsStored, RingList, ToSet
<1>2. /\ \A q \in ToSet(rs) : \E p \in ToSet(new) : Alike(q, p) /\ IF q.id = NoId THEN p.id \notin RingIds(old) ELSE p.id = q.id
      /\ \A q \in ToSet(rs) : q.id = NoId \/ q.id \in RingIds(old)
    BY DEF AreEntriesOf
<1>3. \A v \in ToSet(t) : \E q \in ToSet(rs) : /\ v.offset = q.offset /\ v.comment = q.comment
                                               /\ v.layers = MediaLayers(q, m) /\ (q.id # NoId => v.id = q.id)
    BY DEF IsStored
<1>4. \A q \in ToSet(rs) : \E v \in ToSet(t) : /\ v.offset = q.offset /\ v.comment = q.comment
                                               /\ v.layers = MediaLayers(q, m) /\ (q.id # NoId => v.id = q.id)
    BY DEF IsStored
<1>5. \A v \in ToSet(t) : v.id < nextId => \E q \in ToSet(rs) : q.id = v.id
    BY DEF IsStored
<1>6. \A v, w \in ToSet(t) : v.id = w.id => v = w
  <2>1. HasIds(t)
      BY DEF IsStored
  <2> QED BY <1>1, <2>1 DEF HasIds, ToSet
<1>7. CASE u.id \in RingIds(old)
  <2>1. PICK q \in ToSet(rs) : q.id = u.id
      BY <1>5, <1>7
  <2>2. q.id # NoId
      BY <1>1, <2>1
  <2>3. PICK v \in ToSet(t) : v.offset = q.offset /\ v.comment = q.comment /\ v.layers = MediaLayers(q, m) /\ v.id = q.id
      BY <1>4, <2>2
  <2>4. v = u
      BY <1>6, <2>1, <2>3
  <2>5. PICK p \in ToSet(new) : Alike(q, p) /\ p.id = q.id
      BY <1>2, <2>2
  <2>6. u.offset = p.offset /\ u.comment = p.comment /\ \A i \in Nat \ {0} : CodeAt(u, i) = CodeAt(p, i)
      BY <1>1, <2>3, <2>4, <2>5, MediaCodes
  <2> QED BY <1>7, <2>1, <2>5, <2>6 DEF ComesOf
<1>8. CASE u.id \notin RingIds(old)
  <2>1. PICK q \in ToSet(rs) : u.offset = q.offset /\ u.comment = q.comment /\ u.layers = MediaLayers(q, m) /\ (q.id # NoId => u.id = q.id)
      BY <1>3
  <2>2. q.id = NoId
      BY <1>2, <1>8, <2>1
  <2>3. PICK p \in ToSet(new) : Alike(q, p) /\ p.id \notin RingIds(old)
      BY <1>2, <2>2
  <2>4. u.offset = p.offset /\ u.comment = p.comment /\ \A i \in Nat \ {0} : CodeAt(u, i) = CodeAt(p, i)
      BY <1>1, <2>1, <2>3, MediaCodes
  <2> QED BY <1>8, <2>3, <2>4 DEF ComesOf
<1> QED BY <1>7, <1>8

LEMMA NeverTheSame ==
    ASSUME NEW old, NEW u, NEW v, NEW p, NEW x, ComesOf(u, p, old), ComesOf(v, x, old), Apart(p, x),
           u.offset = v.offset, u.comment = v.comment, \A i \in Nat \ {0} : CodeAt(u, i) = CodeAt(v, i),
           \E i \in Nat \ {0} : CodeAt(v, i) # 0
    PROVE  FALSE
    BY DEF ComesOf, Apart

\* An entry of the disc is kept with its codes and its tool marks.
LEMMA EntryKept ==
    ASSUME NEW old, RingList(old), NEW m \in Media, NEW new, Verified(new, old, m),
           NEW rs, AreEntriesOf(rs, new, old), NEW nextId \in Nat, NEW t, IsStored(t, rs, m, nextId),
           NEW r \in ToSet(old), r.id # NoId, Len(r.layers) = Layers[m] + 1
    PROVE  \E q \in ToSet(t) :
              /\ q.id = r.id
              /\ \A i \in DOMAIN r.layers : /\ q.layers[i].code = r.layers[i].code
                                            /\ r.layers[i].tools \subseteq q.layers[i].tools
<1>1. r.id \in RingIds(old) /\ r \in Rings
    BY DEF RingIds, RingList, ToSet
<1>2. PICK p \in ToSet(new) : Grows(r, p)
    BY DEF Verified
<1>3. p.id = r.id
    BY <1>2 DEF Grows
<1>4. PICK q \in ToSet(rs) : Alike(q, p) /\ q.id = p.id
    BY <1>1, <1>3 DEF AreEntriesOf
<1>5. PICK u \in ToSet(t) : u.layers = MediaLayers(q, m) /\ u.id = q.id
  <2>1. \A w \in ToSet(rs) : \E v \in ToSet(t) : v.layers = MediaLayers(w, m) /\ (w.id # NoId => v.id = w.id)
      BY DEF IsStored
  <2> QED BY <1>3, <1>4, <2>1
<1>6. q \in Rings
    BY DEF AreEntriesOf, RingList, ToSet
<1>7. \A i \in 1 .. Layers[m] + 1 : u.layers[i] = LayerAt(q, i)
  <2>1. \A i \in 1 .. Layers[m] + 1 : MediaLayers(q, m)[i] = LayerAt(q, i)
      BY <1>6, MediaLayersAre
  <2> QED BY <1>5, <2>1
<1>8. DOMAIN r.layers = 1 .. Layers[m] + 1
    BY <1>1, RingLayers DEF IsList
<1>9. ASSUME NEW i \in DOMAIN r.layers
      PROVE  u.layers[i].code = r.layers[i].code /\ r.layers[i].tools \subseteq u.layers[i].tools
  <2>1. i \in Nat \ {0} /\ LayerAt(r, i) = r.layers[i]
      BY <1>1, RingLayers DEF LayerAt
  <2>2. u.layers[i] = LayerAt(p, i)
      BY <1>4, <1>7, <1>8, <2>1 DEF Alike
  <2>3. CodeAt(p, i) = CodeAt(r, i) /\ LayerAt(r, i).tools \subseteq LayerAt(p, i).tools
      BY <1>2, <2>1 DEF Grows
  <2> QED BY <2>1, <2>2, <2>3 DEF CodeAt
<1> QED BY <1>3, <1>4, <1>5, <1>9

\* Two entries of the disc that are the same to a reader.
LEMMA SameCodes ==
    ASSUME NEW q \in Rings, NEW r \in Rings, SameMastering(q, r), \E i \in DOMAIN q.layers : q.layers[i].code # 0
    PROVE  /\ q.offset = r.offset /\ q.comment = r.comment /\ \A i \in Nat \ {0} : CodeAt(q, i) = CodeAt(r, i)
           /\ \E i \in Nat \ {0} : CodeAt(q, i) # 0
           /\ \E i \in Nat \ {0} : CodeAt(r, i) # 0
<1>1. /\ DOMAIN q.layers \subseteq Nat \ {0} /\ DOMAIN r.layers \subseteq Nat \ {0}
      /\ \A i : i \notin DOMAIN q.layers => CodeAt(q, i) = 0
      /\ \A i : i \notin DOMAIN r.layers => CodeAt(r, i) = 0
    BY RingLayers
<1>2. \A i \in Nat \ {0} : CodeAt(q, i) = CodeAt(r, i)
    BY <1>1 DEF SameMastering, CodeAt
<1>3. PICK i \in DOMAIN q.layers : q.layers[i].code # 0
    OBVIOUS
<1>4. i \in Nat \ {0} /\ CodeAt(q, i) # 0
    BY <1>1, <1>3 DEF CodeAt, LayerAt
<1> QED BY <1>2, <1>4 DEF SameMastering

\* No entry is added that is the same as one of the disc.
LEMMA NoneAgain ==
    ASSUME NEW old, NEW m \in Media, NEW new, Verified(new, old, m),
           NEW rs, AreEntriesOf(rs, new, old), NEW nextId \in Nat, \A i \in RingIds(old) : i < nextId,
           NEW t, IsStored(t, rs, m, nextId), NEW q \in ToSet(t), NEW r \in ToSet(t),
           SameMastering(q, r), \E i \in DOMAIN q.layers : q.layers[i].code # 0
    PROVE  {q.id, r.id} \subseteq RingIds(old) \/ {q.id, r.id} \cap RingIds(old) = {}
<1>1. q \in Rings /\ r \in Rings
    BY DEF IsStored, RingList, ToSet
<1>2. /\ q.offset = r.offset /\ q.comment = r.comment /\ \A i \in Nat \ {0} : CodeAt(q, i) = CodeAt(r, i)
      /\ \E i \in Nat \ {0} : CodeAt(q, i) # 0
      /\ \E i \in Nat \ {0} : CodeAt(r, i) # 0
    BY <1>1, SameCodes
<1>3. PICK p \in ToSet(new) : ComesOf(q, p, old)
    BY StoredComesOf
<1>4. PICK x \in ToSet(new) : ComesOf(r, x, old)
    BY StoredComesOf
<1>5. \A a, b \in ToSet(new) : a.id \in RingIds(old) /\ b.id \notin RingIds(old) => Apart(a, b)
    BY DEF Verified, RingIds
<1>6. CASE q.id \in RingIds(old) /\ r.id \notin RingIds(old)
  <2>1. Apart(p, x)
      BY <1>3, <1>4, <1>5, <1>6 DEF ComesOf
  <2> QED BY <1>2, <1>3, <1>4, <2>1, NeverTheSame
<1>7. CASE r.id \in RingIds(old) /\ q.id \notin RingIds(old)
  <2>1. Apart(x, p)
      BY <1>3, <1>4, <1>5, <1>7 DEF ComesOf
  <2> QED BY <1>2, <1>3, <1>4, <2>1, NeverTheSame
<1> QED BY <1>6, <1>7

\* The first break of a list stays on a disc of several layers.
LEMMA BreaksStay ==
    ASSUME NEW s \in Seq(Nat), NEW L \in Nat, L > 1, s # <<>>, \A i \in DOMAIN s : s[i] <= MaxInt
    PROVE  BreaksOf(s, L) # <<>>
<1> DEFINE K == {i \in DOMAIN s : i < L}
           t == Select(s, K)
           J == {i \in DOMAIN t : t[i] <= MaxInt}
<1>1. IsList(s) /\ K \subseteq DOMAIN s
    BY InSeq
<1>2. 1 \in K
  <2>1. Len(s) \in Nat /\ Len(s) # 0 /\ DOMAIN s = 1 .. Len(s)
      OBVIOUS
  <2> QED BY <2>1
<1>3. BreaksOf(s, L) = Select(t, J)
    BY DEF BreaksOf
<1> HIDE DEF K
<1>4. t \in Seq(Nat) /\ ToSet(t) = Picked(s, K)
    BY <1>1, SelectedFrom
<1>5. IsList(t)
    BY <1>4, InSeq
<1> HIDE DEF t
<1>6. \A i \in DOMAIN t : t[i] <= MaxInt
  <2>1. \A x \in ToSet(t) : x <= MaxInt
      BY <1>1, <1>4 DEF Picked
  <2> QED BY <2>1 DEF ToSet
<1>7. J = DOMAIN t
    BY <1>6
<1>8. s[1] \in ToSet(t)
    BY <1>2, <1>4 DEF Picked
<1>9. t # <<>>
  <2>1. ToSet(<<>>) = {}
      BY NoRingsAre DEF NoRings
  <2> QED BY <1>8, <2>1
<1> HIDE DEF J
<1> QED BY <1>3, <1>5, <1>7, <1>9, SelectAll

LEMMA BreaksKept ==
    ASSUME NEW form, IsForm(form), Chosen(form), form.breaks # <<>>,
           \A i \in DOMAIN form.breaks : form.breaks[i] <= MaxInt, Layers[form.media] > 1
    PROVE  NormalForm(form).breaks # <<>>
<1> DEFINE x == Filtered(form)
           n == FlatForm(x)
           b == form.breaks
           L == Layers[form.media]
<1>1. IsRecord(form) /\ IsForm(x)
    BY FilteredTypes, FormFields DEF IsForm
<1>2. IsRecord(x)
    BY <1>1, FormFields DEF IsForm
<1>3. x.breaks = Select(b, {i \in DOMAIN b : i < L})
    BY <1>1, FilteredIs
<1> HIDE DEF x
<1>4. n.breaks = Select(x.breaks, {i \in DOMAIN x.breaks : x.breaks[i] <= MaxInt})
    BY <1>2, FlatIs
<1>5. n.breaks = BreaksOf(b, L)
    BY <1>3, <1>4 DEF BreaksOf
<1>6. b \in Seq(Nat) /\ L \in Nat /\ L > 1 /\ b # <<>> /\ \A i \in DOMAIN b : b[i] <= MaxInt
  <2>1. form.breaks \in Seq(Nat) \cup {Null} /\ form.breaks # Null
      BY FormFields DEF IsForm
  <2> QED BY <2>1, ReferenceAssumption DEF Chosen
<1> HIDE DEF n, b, L
<1>7. BreaksOf(b, L) # <<>>
    BY <1>6, BreaksStay
<1> QED BY <1>5, <1>7 DEF n, x, NormalForm

\* Removing the delimiter leaves the paragraphs.
LEMMA StrippedHas ==
    ASSUME NEW x \in Seq(Texts) \cup {Null}
    PROVE  Paragraphs(WithoutDelimiter(x)) = Paragraphs(x)
<1>1. CASE x = Null
    BY <1>1 DEF WithoutDelimiter
<1>2. CASE x # Null
  <2> DEFINE K == {i \in DOMAIN x : x[i] # Delimiter}
             t == Select(x, K)
  <2>1. x \in Seq(Texts) /\ K \subseteq DOMAIN x
      BY <1>2
  <2>2. t \in Seq(Texts) /\ ToSet(t) = Picked(x, K)
    <3> HIDE DEF K
    <3> QED BY <2>1, SelectedFrom
  <2>3. WithoutDelimiter(x) = t
      BY <1>2 DEF WithoutDelimiter
  <2>4. Picked(x, K) \ {Delimiter} = ToSet(x) \ {Delimiter}
      BY DEF Picked, ToSet
  <2>5. t # Null
      BY <2>2, NullIsNone
  <2> HIDE DEF t, K
  <2> QED BY <1>2, <2>2, <2>3, <2>4, <2>5 DEF Paragraphs
<1> QED BY <1>1, <1>2

LEMMA ComposedHas ==
    ASSUME NEW old \in Seq(Texts) \cup {Null}, NEW new \in Seq(Texts) \cup {Null}
    PROVE  Paragraphs(old) \subseteq Paragraphs(ComposedComments(old, new))
<1> DEFINE a == IF old = Null THEN <<>> ELSE old
           b == <<Delimiter>>
           c == IF new = Null THEN <<>> ELSE new
           ab == a \o b
           abc == ab \o c
<1>1. IsList(a) /\ IsList(b) /\ IsList(c)
  <2>1. Delimiter \in Texts
      BY ReferenceAssumption
  <2>2. a \in Seq(Texts) /\ b \in Seq(Texts) /\ c \in Seq(Texts)
    <3>1. <<>> \in Seq(Texts)
        OBVIOUS
    <3> QED BY <2>1, <3>1
  <2> HIDE DEF a, b, c
  <2> QED BY <2>2, InSeq
<1>2. Paragraphs(old) \subseteq ToSet(a) \ {Delimiter}
    BY DEF Paragraphs
<1>3. ComposedComments(old, new) = abc
    BY DEF ComposedComments
<1>4. abc # Null
    BY <1>3, ComposedTypes, NullIsNone, ZenonT(60)
<1> HIDE DEF a, b, c
<1>5. IsJoin(ab, a, b)
    BY <1>1, Joined
<1> HIDE DEF ab
<1>6. IsList(ab) /\ ToSet(ab) = ToSet(a) \cup ToSet(b)
    BY <1>1, <1>5, JoinedOf DEF IsJoin
<1>7. IsJoin(abc, ab, c)
    BY <1>1, <1>6, Joined
<1> HIDE DEF abc
<1>8. ToSet(abc) = ToSet(ab) \cup ToSet(c)
    BY <1>1, <1>6, <1>7, JoinedOf
<1>9. Paragraphs(abc) = ToSet(abc) \ {Delimiter}
    BY <1>4 DEF Paragraphs
<1> QED BY <1>2, <1>3, <1>6, <1>8, <1>9

\* The form takes nothing from the content x.
Upholds(form, x) ==
    /\ form.system = x.system /\ form.media = x.media /\ form.title = x.title
    /\ Paragraphs(x.comments) \subseteq Paragraphs(form.comments)
    /\ x.version # Null => form.version # Null
    /\ x.bca # Null => form.bca # Null
    /\ x.errors # Null => form.errors # Null /\ form.errors <= MaxInt
    /\ x.ranges # <<>> => form.ranges \notin {Null, <<>>}
    /\ x.breaks # Null => form.breaks # <<>> /\ \A i \in DOMAIN form.breaks : form.breaks[i] <= MaxInt
    /\ x.serial \subseteq form.serial /\ x.mastering \subseteq form.mastering

\* What a disc and an addition to it are resolved to.
LEMMA ResolvedUpholds ==
    ASSUME NEW x, IsContent(x), NEW ch, IsAddition(ch), NEW r, IsResolved(r, x, ch, TRUE)
    PROVE  /\ \A f \in {"version", "bca"} : x[f] # Null => r[f] # Null
           /\ x.errors # Null => r.errors # Null /\ r.errors <= MaxInt
           /\ x.ranges # <<>> => r.ranges \notin {Null, <<>>}
           /\ x.breaks # Null => /\ r.breaks \notin {Null, <<>>}
                                 /\ x.breaks # <<>> /\ \A i \in DOMAIN x.breaks : x.breaks[i] <= MaxInt
                                 /\ \A i \in DOMAIN r.breaks : r.breaks[i] <= MaxInt
           /\ \A f \in SetFields : x[f] \subseteq r[f]
<1>1. /\ \A f \in ScalarFields : r[f] = IF ch[f] = Absent THEN x[f] ELSE ch[f]
      /\ \A f \in SetFields : r[f] = IF ch[f] = Absent THEN x[f] ELSE SetApplied(x[f], ch[f])
    BY DEF IsResolved
<1>2. /\ \A f \in ScalarFields : ch[f] = Absent \/ ~IsEmpty(f, ch[f])
      /\ ch.errors # Absent => ch.errors <= MaxInt
      /\ ch.breaks # Absent => \A i \in DOMAIN ch.breaks : ch.breaks[i] <= MaxInt
      /\ \A f \in SetFields : ch[f] = Absent \/ (ch[f].remove = {} /\ ch[f].add # {})
    BY DEF IsAddition
<1>3. /\ x.errors # Null => x.errors <= MaxInt
      /\ x.breaks # Null => Len(x.breaks) \in 1 .. Layers[x.media] - 1 /\ \A i \in DOMAIN x.breaks : x.breaks[i] <= MaxInt
      /\ x.ranges # Null
    BY DEF IsContent
<1>4. x.breaks # Null => x.breaks # <<>>
  <2>1. Len(<<>>) = 0
      OBVIOUS
  <2>2. \A n : 0 \notin 1 .. n
      OBVIOUS
  <2> QED BY <1>3, <2>1, <2>2
<1>5. {"version", "bca", "errors", "ranges", "breaks"} \subseteq ScalarFields
    BY DEF ScalarFields
<1>6. \A f \in ScalarFields : ch[f] = Absent \/ (ch[f] # Null /\ (f \in ListFields => ch[f] # <<>>))
    BY <1>2 DEF IsEmpty
<1>7. \A f \in {"version", "bca"} : x[f] # Null => r[f] # Null
    BY <1>1, <1>5, <1>6
<1>8. x.errors # Null => r.errors # Null /\ r.errors <= MaxInt
    BY <1>1, <1>2, <1>3, <1>5, <1>6
<1>9. x.ranges # <<>> => r.ranges \notin {Null, <<>>}
    BY <1>1, <1>3, <1>5, <1>6 DEF ListFields
<1>10. x.breaks # Null => r.breaks \notin {Null, <<>>} /\ \A i \in DOMAIN r.breaks : r.breaks[i] <= MaxInt
    BY <1>1, <1>2, <1>3, <1>4, <1>5, <1>6 DEF ListFields
<1>11. \A f \in SetFields : x[f] \subseteq r[f]
    BY <1>1, <1>2 DEF SetApplied
<1> QED BY <1>3, <1>4, <1>7, <1>8, <1>9, <1>10, <1>11

\* A page that is shown of an addition to the disc.
LEMMA VerificationUpholds ==
    ASSUME EditInv, NEW sub, IsSubmission(sub, disc, nextRing), sub.target, sub.type = "Disc", IsAddition(sub.changes),
           NEW form, form \in {ReviewForm(sub), [ReviewForm(sub) EXCEPT !.comments = WithoutDelimiter(@)]}
    PROVE  Upholds(form, disc) /\ form.rings = Resolve(disc, sub.changes, TRUE).rings
<1> DEFINE yes == TRUE
           ch == sub.changes
           r == Resolve(disc, ch, yes)
           y == ReviewForm(sub)
<1>1. IsContent(disc) /\ IsBase(disc) /\ HasTypes(disc) /\ IsRecord(disc) /\ IsChange(ch) /\ IsAddition(ch)
    BY ContentIs DEF IsSubmission, OnDisc
<1>2. /\ IsRecord(r) /\ HasTypes(r) /\ y.rings = r.rings
      /\ y.comments = (IF disc.comments # r.comments THEN ComposedComments(disc.comments, r.comments) ELSE r.comments)
      /\ \A f \in Keys \ {"comments", "status"} : y[f] \in {disc[f], FormOf(r)[f]}
  <2>1. yes = TRUE
      OBVIOUS
  <2> HIDE DEF yes
  <2> QED BY <2>1, ReviewFormIs
<1>3. IsResolved(r, disc, ch, TRUE)
  <2> HIDE DEF ch
  <2>1. yes = TRUE
      OBVIOUS
  <2> HIDE DEF yes
  <2>2. IsResolved(Resolve(disc, ch, yes), disc, ch, yes)
      BY <1>1, ResolveIs
  <2> QED BY <2>1, <2>2
<1>4. IsForm(y)
    BY <1>1, ReviewFormTypes
<1>5. y.system = disc.system /\ y.media = disc.media /\ y.title = disc.title
  <2>1. Base(sub) = disc
      BY DEF Base
  <2> QED BY <2>1 DEF ReviewForm, Keys, ScalarFields
<1>6. form = y \/ form = [y EXCEPT !.comments = WithoutDelimiter(@)]
    OBVIOUS
<1>7. yes = TRUE
    OBVIOUS
<1> HIDE DEF yes, r, y, ch
<1>8. form.comments \in {y.comments, WithoutDelimiter(y.comments)} /\ \A f \in Keys \ {"comments"} : form[f] = y[f]
  <2>1. y = [f \in Keys |-> y[f]] /\ DOMAIN y = Keys
      BY <1>4, FormFields DEF IsForm, IsRecord
  <2> QED BY <1>6, <2>1 DEF Keys, ScalarFields
<1>9. form.system = disc.system /\ form.media = disc.media /\ form.title = disc.title /\ form.rings = r.rings
    BY <1>2, <1>5, <1>8 DEF Keys, ScalarFields
<1>10. Paragraphs(disc.comments) \subseteq Paragraphs(form.comments)
  <2>1. disc.comments \in Seq(Texts) \cup {Null} /\ r.comments \in Seq(Texts) \cup {Null} /\ y.comments \in Seq(Texts) \cup {Null}
      BY <1>1, <1>2, <1>4, FormFields DEF IsForm
  <2>2. Paragraphs(disc.comments) \subseteq Paragraphs(y.comments)
      BY <1>2, <2>1, ComposedHas
  <2>3. Paragraphs(WithoutDelimiter(y.comments)) = Paragraphs(y.comments)
      BY <2>1, StrippedHas
  <2> QED BY <1>8, <2>2, <2>3
<1>11. /\ \A f \in {"version", "bca"} : disc[f] # Null => r[f] # Null
       /\ disc.errors # Null => r.errors # Null /\ r.errors <= MaxInt
       /\ disc.ranges # <<>> => r.ranges \notin {Null, <<>>}
       /\ disc.breaks # Null => /\ r.breaks \notin {Null, <<>>}
                                /\ disc.breaks # <<>> /\ \A i \in DOMAIN disc.breaks : disc.breaks[i] <= MaxInt
                                /\ \A i \in DOMAIN r.breaks : r.breaks[i] <= MaxInt
       /\ \A f \in SetFields : disc[f] \subseteq r[f]
    BY <1>1, <1>3, ResolvedUpholds
<1>12. /\ Same(FormOf(r), r, Keys \ {"breaks", "edc"})
       /\ FormOf(r).breaks = (IF r.breaks = Null THEN <<>> ELSE r.breaks)
    BY <1>2, FormOfIs
<1>13. \A f \in {"version", "bca", "errors", "ranges", "serial", "mastering"} : form[f] \in {disc[f], r[f]}
    BY <1>2, <1>8, <1>12 DEF Same, Keys, ScalarFields, SetFields
<1>14. form.breaks \in {disc.breaks, IF r.breaks = Null THEN <<>> ELSE r.breaks}
    BY <1>2, <1>8, <1>12 DEF Keys, ScalarFields
<1>15. disc.errors # Null => disc.errors <= MaxInt
    BY <1>1 DEF IsContent
<1>16. disc.ranges # Null
    BY <1>1 DEF IsContent
<1>17. disc.version # Null => form.version # Null
    BY <1>11, <1>13
<1>18. disc.bca # Null => form.bca # Null
    BY <1>11, <1>13
<1>19. disc.errors # Null => form.errors # Null /\ form.errors <= MaxInt
    BY <1>11, <1>13, <1>15
<1>20. disc.ranges # <<>> => form.ranges \notin {Null, <<>>}
    BY <1>11, <1>13, <1>16
<1>21. disc.breaks # Null => form.breaks # <<>> /\ \A i \in DOMAIN form.breaks : form.breaks[i] <= MaxInt
    BY <1>11, <1>14
<1>22. disc.serial \subseteq form.serial /\ disc.mastering \subseteq form.mastering
    BY <1>11, <1>13 DEF SetFields
<1>23. Upholds(form, disc)
    BY <1>9, <1>10, <1>17, <1>18, <1>19, <1>20, <1>21, <1>22 DEF Upholds
<1> QED BY <1>7, <1>9, <1>23 DEF r, ch

\* The content y has what x has.
Keeps(y, x) ==
    /\ \A f \in {"system", "media", "title"} : y[f] = x[f]
    /\ \A f \in NullableFields \ {"comments"} : ~IsEmpty(f, x[f]) => ~IsEmpty(f, y[f])
    /\ Paragraphs(x.comments) \subseteq Paragraphs(y.comments)
    /\ \A f \in SetFields : x[f] \subseteq y[f]

LEMMA ContentKept ==
    ASSUME NEW x, IsContent(x), NEW form, IsForm(form), Chosen(form), form.dat # Null, Upholds(form, x),
           NEW ch, AreHistory(ch, NormalForm(form), x, TRUE), NEW z, IsResolved(z, x, ch, FALSE),
           NEW nextId, NEW y, y = UpdateDisc(x, z, nextId), IsRecord(y), AsPosted(y, form)
    PROVE  Keeps(y, x)
<1> DEFINE n == NormalForm(form)
<1>1. IsNormal(n, form)
    BY NormalIs
<1>2. /\ \A f \in Keys \ {"rings", "status", "ranges"} : FormOf(y)[f] = n[f]
      /\ n.ranges # <<>> => FormOf(y).ranges = n.ranges
    BY DEF AsPosted, NormalForm
<1>3. x.breaks # Null => n.breaks # <<>>
  <2> HAVE x.breaks # Null
  <2>1. form.breaks # <<>> /\ \A i \in DOMAIN form.breaks : form.breaks[i] <= MaxInt
      BY DEF Upholds
  <2>2. Layers[form.media] > 1
    <3>1. form.media = x.media /\ Len(x.breaks) \in 1 .. Layers[x.media] - 1
        BY DEF Upholds, IsContent
    <3>2. Layers[x.media] \in Nat
        BY <3>1, ReferenceAssumption DEF Chosen
    <3> QED BY <3>1, <3>2
  <2> QED BY <2>1, <2>2, BreaksKept
<1>4. /\ ch.ranges = ScalarChange("ranges", x.ranges, n.ranges)
      /\ z.ranges = IF ch.ranges = Absent THEN x.ranges ELSE ch.ranges
    BY DEF AreHistory, IsResolved, ScalarFields
<1>5. IsRecord(z)
    BY FormFields DEF IsResolved
<1>6. y.ranges = IF z.ranges = Null THEN x.ranges ELSE z.ranges
  <2>1. LET w == UpdateDisc(x, z, nextId) IN
        /\ IsRecord(w) /\ Same(w, z, {"system", "media", "title", "version", "comments", "errors", "bca", "dat", "serial"})
        /\ w.ranges = IF z.ranges = Null THEN x.ranges ELSE z.ranges
        /\ w.breaks = IF z.breaks = <<>> THEN Null ELSE z.breaks
        /\ w.edc = IF z.edc = Null THEN FALSE ELSE z.edc
        /\ w.mastering = IF AllowsMastering[z.media] THEN z.mastering ELSE {}
        /\ w.status = IF z.status = Null THEN "Unverified" ELSE z.status
        /\ w.rings = StoredRings(z.rings, z.media, nextId)
      BY <1>5, UpdatedIs
  <2>2. UpdateDisc(x, z, nextId).ranges = IF z.ranges = Null THEN x.ranges ELSE z.ranges
      BY <2>1
  <2> QED BY <2>2
<1> HIDE DEF n
<1>7. /\ Same(FormOf(y), y, Keys \ {"breaks", "edc"})
      /\ FormOf(y).breaks = (IF y.breaks = Null THEN <<>> ELSE y.breaks)
    BY FormOfIs
<1>8. /\ y.system = n.system /\ y.media = n.media /\ y.title = n.title /\ y.version = n.version /\ y.comments = n.comments
      /\ y.errors = n.errors /\ y.bca = n.bca /\ y.dat = n.dat /\ y.serial = n.serial /\ y.mastering = n.mastering
      /\ (n.ranges # <<>> => y.ranges = n.ranges)
      /\ n.breaks = (IF y.breaks = Null THEN <<>> ELSE y.breaks)
    BY <1>2, <1>7 DEF Same, Keys, ScalarFields, SetFields
<1>9. /\ n.system = form.system /\ n.media = form.media /\ n.title = form.title /\ n.dat = form.dat /\ n.serial = form.serial
      /\ n.comments = (IF form.comments = <<>> THEN Null ELSE form.comments)
      /\ n.version = (IF "version" \in Has[form.system] THEN form.version ELSE Null)
      /\ n.bca = (IF "bca" \in Has[form.system] THEN form.bca ELSE Null)
      /\ n.errors = (IF form.errors # Null /\ "errors" \in Has[n.system] /\ IsCd[n.media] /\ form.errors <= MaxInt
                     THEN form.errors ELSE Null)
      /\ n.ranges = (IF "ranges" \in Has[n.system] /\ form.ranges # Null THEN form.ranges ELSE <<>>)
      /\ n.ranges \in Seq(Nat)
      /\ n.mastering = (IF AllowsMastering[n.media] THEN form.mastering ELSE {})
    BY <1>1 DEF IsNormal, Same
<1>10. /\ x.version # Null => "version" \in Has[x.system]
       /\ x.errors # Null => "errors" \in Has[x.system] /\ IsCd[x.media]
       /\ x.bca # Null => "bca" \in Has[x.system]
       /\ x.mastering # {} => AllowsMastering[x.media]
       /\ x.ranges # Null
    BY DEF IsContent
<1>11. /\ form.system = x.system /\ form.media = x.media /\ form.title = x.title
       /\ Paragraphs(x.comments) \subseteq Paragraphs(form.comments)
       /\ x.version # Null => form.version # Null
       /\ x.bca # Null => form.bca # Null
       /\ x.errors # Null => form.errors # Null /\ form.errors <= MaxInt
       /\ x.ranges # <<>> => form.ranges \notin {Null, <<>>}
       /\ x.serial \subseteq form.serial /\ x.mastering \subseteq form.mastering
    BY DEF Upholds
<1>12. y.system = x.system /\ y.media = x.media /\ y.title = x.title
    BY <1>8, <1>9, <1>11
<1>13. x.version # Null => y.version # Null
    BY <1>8, <1>9, <1>10, <1>11
<1>14. x.bca # Null => y.bca # Null
    BY <1>8, <1>9, <1>10, <1>11
<1>15. x.errors # Null => y.errors # Null
    BY <1>8, <1>9, <1>10, <1>11
<1>16. y.dat # Null
    BY <1>8, <1>9
<1>17. x.breaks # Null => y.breaks \notin {Null, <<>>}
    BY <1>3, <1>8
<1>18. x.ranges # <<>> => y.ranges \notin {Null, <<>>}
  <2> HAVE x.ranges # <<>>
  <2>1. CASE "ranges" \in Has[n.system]
    <3>1. n.ranges = form.ranges /\ form.ranges \notin {Null, <<>>}
        BY <1>9, <1>11, <2>1
    <3> QED BY <1>8, <3>1
  <2>2. CASE "ranges" \notin Has[n.system]
    <3>1. n.ranges = <<>>
        BY <1>9, <2>2
    <3>2. ch.ranges = Null
        BY <1>4, <1>10, <3>1 DEF ScalarChange, IsEmpty, ListFields
    <3>3. z.ranges = Null
        BY <1>4, <3>2, NullIsNone
    <3>4. y.ranges = x.ranges
        BY <1>6, <3>3
    <3> QED BY <1>10, <3>4
  <2> QED BY <2>1, <2>2
<1>19. Paragraphs(x.comments) \subseteq Paragraphs(y.comments)
  <2>1. Paragraphs(<<>>) = Paragraphs(Null)
    <3>1. ToSet(<<>>) = {}
        BY NoRingsAre DEF NoRings
    <3> QED BY <3>1 DEF Paragraphs
  <2> QED BY <1>8, <1>9, <1>11, <2>1
<1>20. x.serial \subseteq y.serial /\ x.mastering \subseteq y.mastering
    BY <1>8, <1>9, <1>10, <1>11
<1>21. \A f \in NullableFields \ {"comments"} : ~IsEmpty(f, x[f]) => ~IsEmpty(f, y[f])
    BY <1>13, <1>14, <1>15, <1>16, <1>17, <1>18 DEF NullableFields, ScalarFields, ListFields, IsEmpty
<1> QED BY <1>12, <1>19, <1>20, <1>21 DEF Keeps, SetFields

\* The entries on the page of an addition for which the disc has a place.
LEMMA RingsVerified ==
    ASSUME NEW x, IsContent(x), NEW ch, IsAddition(ch), \A c \in ToSet(ch.rings) : FitsIn(c, x.media),
           NEW r, IsResolved(r, x, ch, TRUE)
    PROVE  Verified(r.rings, x.rings, x.media)
<1> DEFINE old == x.rings
           m == x.media
<1>1. /\ RingList(old) /\ HasIds(old) /\ (\A k \in DOMAIN old : old[k].id # NoId) /\ m \in Media
      /\ \A q \in ToSet(old) : IsFit(q, m)
  <2>1. RingList(old) /\ m \in Media
      BY ContentIs, FormFields
  <2>2. HasIds(old) /\ \A k \in DOMAIN old : LET q == old[k] IN
           q.id # NoId /\ ~RingIsEmpty(q) /\ (q.offset # 0 => IsCd[m]) /\ Len(q.layers) = Layers[m] + 1
      BY DEF IsContent
  <2>3. Layers[m] + 1 <= Layers[m] + 1
      BY <2>1, ReferenceAssumption
  <2> QED BY <2>1, <2>2, <2>3 DEF IsFit, ToSet
<1>2. PICK new : RingList(new) /\ HasIds(new) /\ ch.rings = RingChanges(NoRings, new, FALSE)
    BY DEF IsAddition
<1>3. r.rings = IF ch.rings = <<>> THEN old ELSE ApplyRings(old, ch.rings, TRUE)
    BY DEF IsResolved
<1>4. \A c \in ToSet(ch.rings) : FitsIn(c, m)
    OBVIOUS
<1> HIDE DEF old, m
<1>5. CASE ch.rings = <<>>
  <2>1. Verified(old, old, m)
      BY <1>1, NothingVerified
  <2> QED BY <1>3, <1>5, <2>1 DEF old, m
<1>6. CASE ch.rings # <<>>
  <2>1. \A c \in ToSet(RingChanges(NoRings, new, FALSE)) : FitsIn(c, m)
      BY <1>2, <1>4
  <2>2. Verified(ApplyRings(old, RingChanges(NoRings, new, FALSE), TRUE), old, m)
      BY <1>1, <1>2, <2>1, AppliedVerify
  <2>3. Verified(ApplyRings(old, ch.rings, TRUE), old, m)
      BY <1>2, <2>2
  <2> QED BY <1>3, <1>6, <2>3 DEF old, m
<1> QED BY <1>5, <1>6

\* What the disc y has of the entries of x.
KeepsRings(y, x) ==
    /\ \A r \in ToSet(x.rings) : \E q \in ToSet(y.rings) :
          /\ q.id = r.id
          /\ \A i \in DOMAIN r.layers : /\ q.layers[i].code = r.layers[i].code
                                        /\ r.layers[i].tools \subseteq q.layers[i].tools
    /\ \A q, r \in ToSet(y.rings) :
          q.id # r.id /\ SameMastering(q, r) /\ (\E i \in DOMAIN q.layers : q.layers[i].code # 0)
             => {q.id, r.id} \subseteq RingIds(x.rings) \/ {q.id, r.id} \cap RingIds(x.rings) = {}

LEMMA RingsStored ==
    ASSUME NEW next, next \in Nat, NEW x, OnDisc(x, next), NEW new, Verified(new, x.rings, x.media),
           NEW z, RingList(z.rings), HasIds(z.rings), AreEntriesOf(z.rings, new, x.rings), z.media = x.media,
           NEW y, y.rings = StoredRings(z.rings, z.media, next)
    PROVE  KeepsRings(y, x)
<1> DEFINE old == x.rings
           m == x.media
           rs == z.rings
           t == StoredRings(rs, m, next)
<1>1. /\ RingList(old) /\ m \in Media /\ \A r \in ToSet(old) : r.id # NoId /\ Len(r.layers) = Layers[m] + 1
  <2>1. IsContent(x)
      BY DEF OnDisc
  <2>2. RingList(old) /\ m \in Media
      BY <2>1, ContentIs, FormFields
  <2>3. \A k \in DOMAIN old : old[k].id # NoId /\ Len(old[k].layers) = Layers[m] + 1
      BY <2>1 DEF IsContent
  <2> QED BY <2>2, <2>3 DEF ToSet
<1>2. \A i \in RingIds(old) : i < next
    BY DEF OnDisc, RingIds
<1>3. AreEntriesOf(rs, new, old) /\ Verified(new, old, m) /\ y.rings = t
    OBVIOUS
<1>4. RingList(rs) /\ HasIds(rs) /\ \A q \in ToSet(rs) : q.id # NoId => q.id < next
    BY <1>2, <1>3 DEF AreEntriesOf
<1> HIDE DEF old, m, rs
<1>5. IsStored(t, rs, m, next)
    BY <1>1, <1>4, StoredAre
<1> HIDE DEF t
<1>6. \A r \in ToSet(old) : \E q \in ToSet(t) :
          /\ q.id = r.id
          /\ \A i \in DOMAIN r.layers : /\ q.layers[i].code = r.layers[i].code
                                        /\ r.layers[i].tools \subseteq q.layers[i].tools
    BY <1>1, <1>3, <1>5, EntryKept
<1>7. \A q, r \in ToSet(t) :
          SameMastering(q, r) /\ (\E i \in DOMAIN q.layers : q.layers[i].code # 0)
             => {q.id, r.id} \subseteq RingIds(old) \/ {q.id, r.id} \cap RingIds(old) = {}
    BY <1>1, <1>2, <1>3, <1>5, NoneAgain
<1> QED BY <1>3, <1>6, <1>7 DEF KeepsRings, old

LEMMA RingsWritten ==
    ASSUME NEW x, IsRecord(x), NEW old, NEW nextId
    PROVE  /\ IsRecord(UpdateDisc(old, x, nextId))
           /\ UpdateDisc(old, x, nextId).rings = StoredRings(x.rings, x.media, nextId)
<1>1. LET y == UpdateDisc(old, x, nextId) IN
      /\ IsRecord(y) /\ Same(y, x, {"system", "media", "title", "version", "comments", "errors", "bca", "dat", "serial"})
      /\ y.ranges = IF x.ranges = Null THEN old.ranges ELSE x.ranges
      /\ y.breaks = IF x.breaks = <<>> THEN Null ELSE x.breaks
      /\ y.edc = IF x.edc = Null THEN FALSE ELSE x.edc
      /\ y.mastering = IF AllowsMastering[x.media] THEN x.mastering ELSE {}
      /\ y.status = IF x.status = Null THEN "Unverified" ELSE x.status
      /\ y.rings = StoredRings(x.rings, x.media, nextId)
    BY UpdatedIs
<1> QED BY <1>1

\* What the approval of an addition stores that is reviewed as it is shown.
LEMMA AdditionStored ==
    ASSUME EditInv, NEW sub, IsSubmission(sub, disc, nextRing), sub.target, sub.type = "Disc", IsAddition(sub.changes),
           NEW form, form \in {ReviewForm(sub), [ReviewForm(sub) EXCEPT !.comments = WithoutDelimiter(@)]},
           IsForm(form), Chosen(form), form.title # Null, form.dat # Null,
           NEW ch, IsChange(ch), AreHistory(ch, NormalForm(form), disc, TRUE),
           StoreDisc(sub, ch), AsPosted(disc', form)
    PROVE  Keeps(disc', disc) /\ ("rings" \notin NoPlace(sub.changes) => KeepsRings(disc', disc))
<1> DEFINE yes == TRUE
           no == FALSE
           said == sub.changes
           z == Resolve(disc, ch, no)
           r == Resolve(disc, said, yes)
           n == NormalForm(form)
<1>1. yes = TRUE /\ no = FALSE /\ nextRing \in Nat /\ Base(sub) = disc /\ OnDisc(disc, nextRing) /\ IsAddition(said)
    BY DEF EditInv, IsSubmission, Base
<1>2. IsContent(disc) /\ IsBase(disc) /\ disc.media \in Media /\ IsChange(said)
    BY <1>1, ContentIs DEF OnDisc, IsAddition
<1>3. disc' = UpdateDisc(disc, z, nextRing)
    BY <1>1 DEF StoreDisc
<1>4. Upholds(form, disc) /\ form.rings = r.rings
    BY VerificationUpholds
<1>5. IsRestored(z, n, disc)
  <2>1. yes \/ disc = Blank
      OBVIOUS
  <2>2. AreHistory(ch, NormalForm(form), disc, yes)
      OBVIOUS
  <2> HIDE DEF yes
  <2> QED BY <1>2, <2>1, <2>2, ContentRestored
<1>6. IsNormal(n, form)
    BY NormalIs
<1> HIDE DEF yes, no
<1>7. IsResolved(z, disc, ch, no) /\ IsResolved(r, disc, said, yes)
  <2>1. IsResolved(Resolve(disc, ch, no), disc, ch, no)
      BY <1>2, ResolveIs
  <2> HIDE DEF said
  <2>2. IsResolved(Resolve(disc, said, yes), disc, said, yes)
      BY <1>2, ResolveIs
  <2> QED BY <2>1, <2>2
<1> HIDE DEF z, r, n, said
<1>8. IsRecord(z)
    BY <1>5, FormFields DEF IsRestored
<1>9. IsRecord(disc') /\ disc'.rings = StoredRings(z.rings, z.media, nextRing)
  <2>1. /\ IsRecord(UpdateDisc(disc, z, nextRing))
        /\ UpdateDisc(disc, z, nextRing).rings = StoredRings(z.rings, z.media, nextRing)
      BY <1>8, RingsWritten
  <2> QED BY <1>3, <2>1
<1>10. Keeps(disc', disc)
  <2>1. AreHistory(ch, NormalForm(form), disc, TRUE)
      OBVIOUS
  <2>2. IsResolved(z, disc, ch, FALSE)
      BY <1>1, <1>7
  <2> QED BY <1>2, <1>3, <1>4, <1>9, <2>1, <2>2, ContentKept
<1>11. ASSUME "rings" \notin NoPlace(said) PROVE KeepsRings(disc', disc)
  <2>1. \A c \in ToSet(said.rings) : FitsIn(c, disc.media)
    <3> DEFINE f == "rings"
    <3>1. f = "rings" /\ f \in Keys /\ f \notin NoPlace(said)
        BY <1>11 DEF Keys
    <3> HIDE DEF f
    <3>2. Placed(f, said, disc.system, disc.media)
        BY <1>1, <1>2, <3>1, HasPlace
    <3> QED BY <3>1, <3>2 DEF Placed, FitsIn
  <2>2. IsResolved(r, disc, said, TRUE)
      BY <1>1, <1>7
  <2>3. Verified(form.rings, disc.rings, disc.media)
    <3>1. Verified(r.rings, disc.rings, disc.media)
        BY <1>1, <1>2, <2>1, <2>2, RingsVerified
    <3> QED BY <1>4, <3>1
  <2>4. form.media = disc.media
      BY <1>4 DEF Upholds
  <2>5. n.rings = form.rings /\ n.media = disc.media
    <3>1. RingList(form.rings) /\ (\A q \in ToSet(form.rings) : IsFit(q, disc.media))
        BY <2>3 DEF Verified
    <3>2. n.rings = FilteredRings(form.rings, disc.media) /\ n.media = form.media
        BY <1>6, <2>4 DEF IsNormal, Same
    <3> DEFINE rs == form.rings
               m == disc.media
    <3>3. RingList(rs) /\ m \in Media /\ \A q \in ToSet(rs) : IsFit(q, m)
        BY <1>2, <3>1
    <3> HIDE DEF rs, m
    <3>4. FilteredRings(rs, m) = rs
        BY <3>3, FilteredRingsAre
    <3> QED BY <2>4, <3>2, <3>4 DEF rs, m
  <2>6. /\ RingList(z.rings) /\ HasIds(z.rings) /\ AreEntriesOf(z.rings, form.rings, disc.rings)
    <3>1. AreEntriesOf(z.rings, n.rings, disc.rings)
        BY <1>5 DEF IsRestored
    <3>2. AreEntriesOf(z.rings, form.rings, disc.rings)
        BY <2>5, <3>1
    <3> QED BY <3>2 DEF AreEntriesOf
  <2>7. z.media = disc.media
      BY <1>5, <2>5 DEF IsRestored, ScalarFields
  <2> QED BY <1>1, <1>9, <2>3, <2>6, <2>7, RingsStored
<1> QED BY <1>10, <1>11 DEF said

\* What an approval of a page that is as it was shown writes.
LEMMA VerificationWrites ==
    ASSUME EditInv, DraftInv, NEW c \in Clients, Approve(c), disc # Null, AsShown(c), Shown(c).type = "Disc"
    PROVE  Keeps(disc', disc) /\ ("rings" \notin NoPlace(Shown(c).changes) => KeepsRings(disc', disc))
<1> DEFINE s == pages[c].sub
           sub == subs[s]
           form == pages[c].form
           said == sub.changes
           reviewed == DiscChanges(form, disc)
           ch == ApprovalChanges(sub.type, disc, said, reviewed)
           n == NormalForm(form)
<1>1. s \in SubIds /\ IsSubmission(sub, disc, nextRing) /\ IsForm(form)
  <2>1. pages[c].kind = "review"
      BY DEF AsShown
  <2> QED BY <2>1 DEF EditInv, IsPage
<1>2. sub.type = "Disc" /\ form \in {ReviewForm(sub), [ReviewForm(sub) EXCEPT !.comments = WithoutDelimiter(@)]}
    BY DEF AsShown, Shown
<1>3. /\ ValidForm(form, FALSE, FALSE) /\ sub.status = "Pending" /\ sub.target /\ sub # Null
      /\ StoreDisc(sub, ApprovalChanges(sub.type, Base(sub), said, ReviewedChanges(sub, form)))
    BY DEF Approve, Approvable, Reviewing
<1>4. Base(sub) = disc /\ ReviewedChanges(sub, form) = reviewed
    BY <1>2, <1>3 DEF Base, ReviewedChanges
<1>5. StoreDisc(sub, ch)
    BY <1>3, <1>4
<1>6. IsAddition(said)
    BY <1>1, <1>2, <1>3 DEF DraftInv, Said
<1>7. IsBase(disc)
    BY <1>1, <1>3, ContentIs DEF IsSubmission, OnDisc
<1>8. Shown(c) = sub
    BY DEF Shown
<1>9. AsPosted(disc', form)
    BY ApproveKeeps
<1> HIDE DEF s, sub, form
<1>10. Chosen(form) /\ form.title # Null /\ form.dat # Null
  <2> DEFINE no == FALSE
  <2>1. ValidForm(form, no, FALSE)
      BY <1>3
  <2> HIDE DEF no
  <2> QED BY <1>1, <2>1, ValidFormHas
<1>11. IsChange(reviewed) /\ AreHistory(reviewed, n, disc, TRUE)
    BY <1>1, <1>7, EditHistory
<1>12. IsChange(ch) /\ AreHistory(ch, n, disc, TRUE)
  <2> DEFINE type == sub.type
             yes == TRUE
             submitted == sub.changes
  <2>1. IsChange(submitted) /\ AreHistory(reviewed, n, disc, yes) /\ yes = TRUE
      BY <1>1, <1>11 DEF IsSubmission
  <2> HIDE DEF type, yes, submitted, reviewed, n
  <2>2. LET y == ApprovalChanges(type, disc, submitted, reviewed) IN IsChange(y) /\ AreHistory(y, n, disc, yes)
      BY <1>7, <1>11, <2>1, ApprovalIs
  <2> QED BY <2>1, <2>2 DEF type, submitted
<1> HIDE DEF ch, reviewed
<1>13. Keeps(disc', disc) /\ ("rings" \notin NoPlace(sub.changes) => KeepsRings(disc', disc))
  <2>1. AreHistory(ch, NormalForm(form), disc, TRUE)
      BY <1>12
  <2>2. IsAddition(sub.changes)
      BY <1>6
  <2> QED BY <1>1, <1>2, <1>3, <1>5, <1>9, <1>10, <1>12, <2>1, <2>2, AdditionStored
<1> QED BY <1>8, <1>13

LEMMA VerificationStep ==
    ASSUME EditInv, DraftInv, [Next]_vars, NEW c \in Clients, Stores(c), disc # Null, AsShown(c), Shown(c).type = "Disc"
    PROVE  Keeps(disc', disc) /\ ("rings" \notin NoPlace(Shown(c).changes) => KeepsRings(disc', disc))
<1>1. disc' # disc /\ pages[c].kind = "review" /\ pages'[c] = NoPage
    BY SMTT(40) DEF Stores, AsShown
<1>2. PICK d \in Clients : (\E s \in SubIds : PostEdit(d, s) \/ PostAdd(d, s)) \/ Approve(d)
    BY <1>1 DEF Next, vars, OpenEdit, Fill, OpenReview, OpenDraft, PostDraft, ReturnDraft, RefreshReview, Retarget
<1>3. ASSUME NEW s \in SubIds, PostAdd(d, s) PROVE FALSE
    BY <1>1, <1>3 DEF PostAdd, NoPage
<1>4. ASSUME NEW s \in SubIds, PostEdit(d, s) PROVE FALSE
  <2>1. Close(d) /\ pages[d].kind = "edit"
      BY <1>4 DEF PostEdit
  <2>2. c = d
      BY <2>1, PageClosed
  <2> QED BY <1>1, <2>1, <2>2
<1>5. CASE Approve(d)
  <2>1. Close(d)
      BY <1>5 DEF Approve
  <2>2. c = d
      BY <2>1, PageClosed
  <2> QED BY <1>5, <2>2, VerificationWrites
<1> QED BY <1>2, <1>3, <1>4, <1>5

\* What an approval writes of a verification that is reviewed as its page shows
\* it keeps what the disc has, and what it adds is apart from what is there,
\* whatever was submitted, approved or changed since it was posted.
THEOREM VerificationsKeep == Spec => VerificationKeepsTarget
<1>1. Init => DraftInv
    BY DEF Init, DraftInv
<1>2. EditInv /\ DraftInv /\ [Next]_vars => DraftInv'
    BY DraftStep
<1>3. EditInv /\ DraftInv /\ [Next]_vars =>
        [\A c \in Clients :
          Stores(c) /\ disc # Null /\ AsShown(c) /\ Shown(c).type = "Disc" =>
             /\ \A f \in {"system", "media", "title"} : disc'[f] = disc[f]
             /\ \A f \in NullableFields \ {"comments"} : ~IsEmpty(f, disc[f]) => ~IsEmpty(f, disc'[f])
             /\ Paragraphs(disc.comments) \subseteq Paragraphs(disc'.comments)
             /\ \A f \in SetFields : disc[f] \subseteq disc'[f]
             /\ "rings" \notin NoPlace(Shown(c).changes) =>
                /\ \A r \in ToSet(disc.rings) : \E q \in ToSet(disc'.rings) :
                   /\ q.id = r.id
                   /\ \A i \in DOMAIN r.layers : /\ q.layers[i].code = r.layers[i].code
                                                /\ r.layers[i].tools \subseteq q.layers[i].tools
                /\ \A q, r \in ToSet(disc'.rings) :
                   q.id # r.id /\ SameMastering(q, r) /\ (\E i \in DOMAIN q.layers : q.layers[i].code # 0)
                      => {q.id, r.id} \subseteq RingIds(disc.rings)
                         \/ {q.id, r.id} \cap RingIds(disc.rings) = {}]_vars
  <2> SUFFICES ASSUME EditInv, DraftInv, [Next]_vars, NEW c \in Clients,
                      Stores(c), disc # Null, AsShown(c), Shown(c).type = "Disc"
               PROVE  Keeps(disc', disc) /\ ("rings" \notin NoPlace(Shown(c).changes) => KeepsRings(disc', disc))
      BY DEF Keeps, KeepsRings
  <2> QED BY VerificationStep
<1> QED BY <1>1, <1>2, <1>3, EditInvariance, PTL DEF Spec, VerificationKeepsTarget
===============================================================================
