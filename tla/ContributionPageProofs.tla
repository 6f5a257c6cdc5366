-------------------------- MODULE ContributionPageProofs --------------------------
(***************************************************************************)
(* Proofs about ContributionPage: the types of its state, the ids of the   *)
(* list, and that no edition is forgotten.                                 *)
(***************************************************************************)
EXTENDS ContributionPage, SequenceTheorems, FiniteSetTheorems, WellFoundedInduction, TLAPS

-----------------------------------------------------------------------------
(* The inductive invariant.                                                  *)

\* The entries of the list that were edited in this page have the id of the field of
\* their label; those of the review have none.
IdsTellLabels == \A i \in 1 .. Len(list) : list[i].id # NoId => list[i].id = IdOf[list[i].label]

\* A call carries what its server or its callback reads, as long as they may read it.
Carries(call) ==
  call # NoCall =>
    /\ call.about.what = "search" /\ call.outcome \in {"pending", "ok"} => call.about \in Search
    /\ call.about.what = "details" /\ call.outcome \in {"pending", "ok"} =>
         /\ call.about \in Details
         /\ \A i \in 1 .. Len(call.about.list) : call.about.list[i].id = NoId
    /\ call.about.what = "submit" /\ call.outcome = "pending" => call.about \in Submit

CallsCarry == \A c \in Connection : Carries(calls[c])

\* No edition is held to be in the list when the answer of a call may replace it: the
\* submission has all those there were, and the server has accepted them by then.
Spares(call, l) ==
  call # NoCall /\ OwnId(l) /\ kept[l] # NoEdition =>
    /\ call.about.what # "details"
    /\ call.about.what = "submit" => call.outcome # "ok"
    /\ call.about.what = "submit" /\ call.outcome = "pending" => Listed(call.about.list, l)

NothingKeptIsReplaced == \A c \in Connection, l \in Label : Spares(calls[c], l)

PageInv ==
  /\ PageTypeOK /\ UniqueIds /\ NoEditionForgotten
  /\ IdsTellLabels /\ CallsCarry /\ NothingKeptIsReplaced

-----------------------------------------------------------------------------
(* The list, as data.                                                        *)

\* The least element of a set of naturals, and the greatest one of a bounded one.
LEMMA LeastOfNaturals == ASSUME NEW S, S \subseteq Nat, S # {}  PROVE Min(S) \in S
<1>1. PICK n \in S : \A m \in S : <<m, n>> \notin OpToRel(<, Nat)
  BY NatLessThanWellFounded, WFMin
<1>2. ASSUME NEW m \in S  PROVE n <= m
  <2>1. m \in Nat /\ n \in Nat  OBVIOUS
  <2>2. <<m, n>> \notin OpToRel(<, Nat)  BY <1>1
  <2>3. ~(m < n)  BY <2>1, <2>2 DEF OpToRel
  <2> QED  BY <2>1, <2>3
<1> QED  BY <1>2 DEF Min

LEMMA GreatestOfNaturals ==
  ASSUME NEW n \in Nat, NEW S, S \subseteq 1 .. n, S # {}  PROVE Max(S) \in S
<1> DEFINE D == {n - m : m \in S}
<1>0. \A m \in S : m \in Nat /\ m >= 1 /\ m <= n /\ n - m \in Nat  OBVIOUS
<1>1. D \subseteq Nat /\ D # {}  BY <1>0
<1>2. PICK d \in D : \A e \in D : <<e, d>> \notin OpToRel(<, Nat)
  BY <1>1, NatLessThanWellFounded, WFMin
<1>3. PICK k \in S : d = n - k  BY <1>2
<1>4. ASSUME NEW m \in S  PROVE k >= m
  <2>1. m \in Nat /\ k \in Nat /\ n - m \in D /\ n - m \in Nat /\ d \in Nat
    BY <1>0, <1>1, <1>2
  <2>2. <<n - m, d>> \notin OpToRel(<, Nat)  BY <1>2, <2>1
  <2>3. ~(n - m < d)  BY <2>1, <2>2 DEF OpToRel
  <2> QED  BY <1>3, <2>1, <2>3
<1> QED  BY <1>4 DEF Max

\* indexOfContribution finds an entry with the id, when there is one.
LEMMA IndexFacts ==
  ASSUME list \in Seq(Edition), NEW id
  PROVE  /\ IndexOf(id) = 0 => \A i \in 1 .. Len(list) : list[i].id # id
         /\ IndexOf(id) # 0 => IndexOf(id) \in 1 .. Len(list) /\ list[IndexOf(id)].id = id
<1> DEFINE I == {i \in 1 .. Len(list) : list[i].id = id}
<1>1. Len(list) \in Nat /\ I \subseteq Nat  OBVIOUS
<1>2. IndexOf(id) = IF I # {} THEN Min(I) ELSE 0  BY DEF IndexOf, SelectInSeq
<1>3. CASE I = {}  BY <1>2, <1>3
<1>4. CASE I # {}
  <2>1. Min(I) \in I  BY <1>1, <1>4, LeastOfNaturals
  <2> QED  BY <1>2, <1>4, <2>1
<1> QED  BY <1>3, <1>4

LEMMA RemoveAtFacts ==
  ASSUME NEW T, NEW s \in Seq(T), NEW k \in 1 .. Len(s)
  PROVE  /\ RemoveAt(s, k) \in Seq(T) /\ Len(RemoveAt(s, k)) = Len(s) - 1
         /\ \A i \in 1 .. Len(s) - 1 : RemoveAt(s, k)[i] = IF i < k THEN s[i] ELSE s[i + 1]
<1> DEFINE u == SubSeq(s, 1, k - 1)
           v == SubSeq(s, k + 1, Len(s))
<1>1. Len(s) \in Nat /\ k \in Nat /\ k >= 1 /\ k <= Len(s)  OBVIOUS
<1>2. /\ u \in Seq(T) /\ Len(u) = k - 1
      /\ \A i \in 1 .. k - 1 : u[i] = s[i]
  BY <1>1
<1>3. /\ v \in Seq(T) /\ Len(v) = Len(s) - k
      /\ \A i \in 1 .. Len(s) - k : v[i] = s[k + i]
  BY <1>1
<1> HIDE DEF u, v
<1>4. /\ u \o v \in Seq(T) /\ Len(u \o v) = Len(u) + Len(v)
      /\ \A i \in 1 .. Len(u) + Len(v) : (u \o v)[i] = IF i <= Len(u) THEN u[i] ELSE v[i - Len(u)]
  BY <1>2, <1>3, ConcatProperties
<1>5. RemoveAt(s, k) = u \o v  BY DEF RemoveAt, u, v
<1>6. ASSUME NEW i \in 1 .. Len(s) - 1
      PROVE  (u \o v)[i] = IF i < k THEN s[i] ELSE s[i + 1]
  <2>1. CASE i < k
    <3>1. i \in 1 .. k - 1 /\ i \in 1 .. Len(u) + Len(v) /\ i <= Len(u)  BY <1>1, <1>2, <1>3, <2>1
    <3> QED  BY <1>2, <1>4, <2>1, <3>1
  <2>2. CASE ~(i < k)
    <3>1. /\ i - (k - 1) \in 1 .. Len(s) - k /\ i \in 1 .. Len(u) + Len(v) /\ ~(i <= Len(u))
          /\ k + (i - (k - 1)) = i + 1 /\ i - Len(u) = i - (k - 1)
      BY <1>1, <1>2, <1>3, <2>2
    <3>2. (u \o v)[i] = v[i - (k - 1)]  BY <1>4, <3>1
    <3>3. v[i - (k - 1)] = s[i + 1]  BY <1>3, <3>1
    <3> QED  BY <2>2, <3>2, <3>3
  <2> QED  BY <2>1, <2>2
<1>7. Len(u) + Len(v) = Len(s) - 1  BY <1>1, <1>2, <1>3
<1> QED  BY <1>4, <1>5, <1>6, <1>7

\* The changes of the review are sent without the ids of fields.
LEMMA ReviewedFacts ==
  /\ ReviewedList \in Seq(Edition)
  /\ \A i \in 1 .. Len(ReviewedList) : ReviewedList[i].id = NoId
<1> DEFINE entry(l) == [id |-> NoId, label |-> l, new |-> Reviewed[l]]
           S == {entry(l) : l \in DOMAIN Reviewed}
<1>1. \A e \in S : e \in Edition /\ e.id = NoId
  BY ContributionPageAssumption DEF Edition
<1>2. IsFiniteSet(S)
  <2> DEFINE f == [l \in DOMAIN Reviewed |-> entry(l)]
  <2>1. IsFiniteSet(DOMAIN Reviewed)  BY ContributionPageAssumption
  <2>2. f \in [DOMAIN Reviewed -> S] /\ \A e \in S : \E l \in DOMAIN Reviewed : f[l] = e
    OBVIOUS
  <2> HIDE DEF f, S
  <2>3. f \in Surjection(DOMAIN Reviewed, S)  BY <2>2 DEF Surjection
  <2> QED  BY <2>1, <2>3, FS_Surjection
<1>3. ReviewedList = SetToSeq(S)  BY DEF ReviewedList
<1> HIDE DEF S
<1>4. Cardinality(S) \in Nat /\ ExistsBijection(1 .. Cardinality(S), S)
  BY <1>2, FS_CardinalityType
<1>5. \E f \in [1 .. Cardinality(S) -> S] : IsInjective(f)
  BY <1>4 DEF ExistsBijection, Bijection, Injection
<1>6. SetToSeq(S) \in [1 .. Cardinality(S) -> S]  BY <1>5 DEF SetToSeq
<1>7. /\ ReviewedList \in [1 .. Cardinality(S) -> S] /\ Cardinality(S) \in Nat
      /\ \A i \in 1 .. Cardinality(S) : ReviewedList[i] \in S
  BY <1>3, <1>4, <1>6
<1>8. \A i \in 1 .. Cardinality(S) : ReviewedList[i] \in Edition /\ ReviewedList[i].id = NoId
  BY <1>1, <1>7
<1>9. ReviewedList \in Seq(Edition) /\ Len(ReviewedList) = Cardinality(S)
  BY <1>7, <1>8
<1> QED  BY <1>8, <1>9

\* What is written to the source are values of labels.
LEMMA AppliedType ==
  ASSUME source \in [Label -> Value], NEW s \in Seq(Edition)
  PROVE  Applied(s) \in [Label -> Value]
<1> DEFINE I(l) == {i \in 1 .. Len(s) : s[i].label = l}
           last(l) == IF I(l) # {} THEN Max(I(l)) ELSE 0
<1>1. Applied(s) = [l \in Label |-> IF last(l) = 0 THEN source[l] ELSE s[last(l)].new]
  BY DEF Applied, SelectLastInSeq
<1>2. ASSUME NEW l \in Label  PROVE last(l) = 0 \/ last(l) \in 1 .. Len(s)
  <2>1. Len(s) \in Nat /\ I(l) \subseteq 1 .. Len(s)  OBVIOUS
  <2>2. CASE I(l) # {}
    <3>1. Max(I(l)) \in I(l)  BY <2>1, <2>2, GreatestOfNaturals
    <3> QED  BY <2>2, <3>1
  <2>3. CASE I(l) = {}  BY <2>3
  <2> QED  BY <2>2, <2>3
<1> HIDE DEF last
<1>3. ASSUME NEW l \in Label
      PROVE  (IF last(l) = 0 THEN source[l] ELSE s[last(l)].new) \in Value
  <2>1. CASE last(l) = 0  BY <2>1
  <2>2. CASE last(l) # 0
    <3>1. last(l) \in 1 .. Len(s)  BY <1>2, <2>2
    <3>2. s[last(l)] \in Edition  BY <3>1, ElementOfSeq
    <3> QED  BY <2>2, <3>2 DEF Edition
  <2> QED  BY <2>1, <2>2
<1> QED  BY <1>1, <1>3

-----------------------------------------------------------------------------
(* An edition is saved.                                                      *)

Has(s, l, v) == \E i \in 1 .. Len(s) : s[i].label = l /\ s[i].new = v

LEMMA RenewedFacts ==
  ASSUME NEW e \in Edition, NEW v \in Value, NEW g, g = [e EXCEPT !.new = v]
  PROVE  g \in Edition /\ g.id = e.id /\ g.label = e.label /\ g.new = v
  BY DEF Edition

LEMMA SavedListFacts ==
  ASSUME list \in Seq(Edition), UniqueIds, IdsTellLabels,
         NEW l \in Label, NEW e \in Edition, e.id = IdOf[l], e.label = l,
         list' = SavedList(e)
  PROVE  /\ list' \in Seq(Edition) /\ UniqueIds' /\ IdsTellLabels'
         /\ OwnId(l) => Has(list', l, e.new)
         /\ \A m \in Label, v \in Value : m # l /\ OwnId(m) /\ Has(list, m, v) => Has(list', m, v)
<1> DEFINE k == IndexOf(e.id)
<1>1. /\ k = 0 => \A i \in 1 .. Len(list) : list[i].id # e.id
      /\ k # 0 => k \in 1 .. Len(list) /\ list[k].id = e.id
  BY IndexFacts
<1>2. e.id # NoId
  <2>1. e.id \in FieldId  BY ContributionPageAssumption
  <2> QED  BY <2>1, ContributionPageAssumption
<1>3. list' = IF k = 0 THEN Append(list, e) ELSE [list EXCEPT ![k].new = e.new]
  BY DEF SavedList
<1> HIDE DEF k
<1>4. CASE k = 0
  <2>1. /\ list' \in Seq(Edition) /\ Len(list') = Len(list) + 1 /\ Len(list) \in Nat
        /\ list'[Len(list) + 1] = e /\ \A i \in 1 .. Len(list) : list'[i] = list[i]
    BY <1>3, <1>4, AppendProperties
  <2>2. \A i \in 1 .. Len(list') : i = Len(list) + 1 \/ i \in 1 .. Len(list)  BY <2>1
  <2>3. UniqueIds'
    <3> SUFFICES ASSUME NEW i \in 1 .. Len(list'), NEW j \in 1 .. Len(list'),
                        list'[i].id = list'[j].id, list'[i].id # NoId
                 PROVE  i = j
      BY DEF UniqueIds
    <3>1. CASE i \in 1 .. Len(list) /\ j \in 1 .. Len(list)  BY <2>1, <3>1 DEF UniqueIds
    <3>2. CASE i = Len(list) + 1 /\ j \in 1 .. Len(list)  BY <1>1, <1>4, <2>1, <3>2
    <3>3. CASE i \in 1 .. Len(list) /\ j = Len(list) + 1  BY <1>1, <1>4, <2>1, <3>3
    <3> QED  BY <2>2, <3>1, <3>2, <3>3
  <2>4. IdsTellLabels'
    <3> SUFFICES ASSUME NEW i \in 1 .. Len(list'), list'[i].id # NoId
                 PROVE  list'[i].id = IdOf[list'[i].label]
      BY DEF IdsTellLabels
    <3>1. CASE i = Len(list) + 1  BY <2>1, <3>1
    <3>2. CASE i \in 1 .. Len(list)  BY <2>1, <3>2 DEF IdsTellLabels
    <3> QED  BY <2>2, <3>1, <3>2
  <2>5. Has(list', l, e.new)
    <3>1. Len(list) + 1 \in 1 .. Len(list')  BY <2>1
    <3> QED  BY <2>1, <3>1 DEF Has
  <2>6. \A m, v : Has(list, m, v) => Has(list', m, v)
    <3>1. \A i \in 1 .. Len(list) : i \in 1 .. Len(list')  BY <2>1
    <3> QED  BY <2>1, <3>1 DEF Has
  <2> QED  BY <2>1, <2>3, <2>4, <2>5, <2>6
<1>5. CASE k # 0
  <2>1. k \in 1 .. Len(list) /\ list[k].id = e.id  BY <1>1, <1>5
  <2>2. PICK g : g = [list[k] EXCEPT !.new = e.new]  OBVIOUS
  <2>3. list[k] \in Edition /\ e.new \in Value
    <3>1. e.new \in Value  BY DEF Edition
    <3> QED  BY <2>1, <3>1, ElementOfSeq
  <2>4. g \in Edition /\ g.id = e.id /\ g.label = list[k].label /\ g.new = e.new
    BY <2>1, <2>2, <2>3, RenewedFacts
  <2>5. list' = [list EXCEPT ![k] = g]  BY <1>3, <1>5, <2>2
  <2>6. /\ list' \in Seq(Edition) /\ Len(list') = Len(list)
        /\ \A i \in 1 .. Len(list) : list'[i] = IF i = k THEN g ELSE list[i]
    BY <2>1, <2>4, <2>5, ExceptSeq
  <2>7. \A i \in 1 .. Len(list) : list'[i].id = list[i].id /\ list'[i].label = list[i].label
    BY <2>1, <2>4, <2>6
  <2>8. UniqueIds' /\ IdsTellLabels'  BY <2>6, <2>7 DEF UniqueIds, IdsTellLabels
  <2>9. IdOf[list[k].label] = IdOf[l] /\ list[k].label \in Label
    <3>1. list[k].label \in Label  BY <2>3 DEF Edition
    <3> QED  BY <1>2, <2>1, <3>1 DEF IdsTellLabels
  <2>10. OwnId(l) => Has(list', l, e.new)
    <3>1. OwnId(l) => list[k].label = l  BY <2>9 DEF OwnId
    <3> QED  BY <2>1, <2>4, <2>6, <3>1 DEF Has
  <2>11. ASSUME NEW m \in Label, NEW v \in Value, m # l, OwnId(m), Has(list, m, v)
         PROVE  Has(list', m, v)
    <3>1. PICK i \in 1 .. Len(list) : list[i].label = m /\ list[i].new = v
      BY <2>11 DEF Has
    <3>2. i # k  BY <2>9, <2>11, <3>1 DEF OwnId
    <3> QED  BY <2>6, <3>1, <3>2 DEF Has
  <2> QED  BY <2>6, <2>8, <2>10, <2>11
<1> QED  BY <1>4, <1>5

\* What the callbacks of a field do to the list and the history of it.
LEMMA SaveFacts ==
  ASSUME PageInv, NEW l \in Label, SaveEdition(l)
  PROVE  /\ list' \in Seq(Edition) /\ toShow' \in BOOLEAN
         /\ kept' \in [Label -> Value \cup {NoEdition}]
         /\ UniqueIds' /\ IdsTellLabels' /\ NoEditionForgotten'
         /\ Replacing => \A m \in Label : kept'[m] = kept[m] \/ kept'[m] = NoEdition
<1>1. /\ list \in Seq(Edition) /\ toShow \in BOOLEAN /\ fields \in [Label -> Field]
      /\ kept \in [Label -> Value \cup {NoEdition}]
      /\ UniqueIds /\ IdsTellLabels /\ NoEditionForgotten
  BY DEF PageInv, PageTypeOK
<1>2. CASE fields[l].text = fields[l].old
  <2>1. UNCHANGED <<list, toShow, kept>>  BY <1>2 DEF SaveEdition
  <2> QED  BY <1>1, <2>1 DEF UniqueIds, IdsTellLabels, NoEditionForgotten, Listed
<1>3. CASE fields[l].text # fields[l].old
  <2> DEFINE e == EditionOf(l)
             entry == IF Replacing THEN NoEdition ELSE fields[l].text
  <2>1. fields[l] \in Field  BY <1>1
  <2>2. e \in Edition /\ e.id = IdOf[l] /\ e.label = l /\ e.new = fields[l].text
        /\ fields[l].text \in Value
    BY <2>1, ContributionPageAssumption DEF EditionOf, Edition, Field
  <2>3. list' = SavedList(e) /\ toShow' = TRUE /\ kept' = [kept EXCEPT ![l] = entry]
    BY <1>3 DEF SaveEdition, Display
  <2> HIDE DEF e
  <2>4. /\ list' \in Seq(Edition) /\ UniqueIds' /\ IdsTellLabels'
        /\ OwnId(l) => Has(list', l, e.new)
        /\ \A m \in Label, v \in Value : m # l /\ OwnId(m) /\ Has(list, m, v) => Has(list', m, v)
    BY <1>1, <2>2, <2>3, SavedListFacts
  <2>5. entry \in Value \cup {NoEdition}  BY <2>2
  <2>6. entry # NoEdition => entry = e.new  BY <2>2
  <2>7. Replacing => entry = NoEdition  OBVIOUS
  <2> HIDE DEF entry
  <2>8. /\ kept' \in [Label -> Value \cup {NoEdition}] /\ kept'[l] = entry
        /\ \A m \in Label : m # l => kept'[m] = kept[m]
    BY <1>1, <2>3, <2>5
  <2>9. NoEditionForgotten'
    <3> SUFFICES ASSUME NEW m \in Label, OwnId(m), kept'[m] # NoEdition
                 PROVE  Has(list', m, kept'[m])
      BY DEF NoEditionForgotten, Listed, Has, OwnId
    <3>1. CASE m = l  BY <2>4, <2>6, <2>8, <3>1
    <3>2. CASE m # l
      <4>1. kept'[m] = kept[m] /\ kept[m] \in Value  BY <1>1, <2>8, <3>2
      <4>2. Has(list, m, kept[m])  BY <1>1, <4>1 DEF NoEditionForgotten, Listed, Has
      <4> QED  BY <2>4, <3>2, <4>1, <4>2
    <3> QED  BY <3>1, <3>2
  <2>10. Replacing => \A m \in Label : kept'[m] = kept[m] \/ kept'[m] = NoEdition
    BY <2>7, <2>8
  <2> QED  BY <2>3, <2>4, <2>8, <2>9, <2>10
<1> QED  BY <1>2, <1>3

-----------------------------------------------------------------------------
(* The calls.                                                                *)

KeptShrinks == \A l \in Label : kept'[l] = kept[l] \/ kept'[l] = NoEdition

LEMMA SparesShrunk ==
  ASSUME NEW call, NEW l \in Label, Spares(call, l), kept'[l] = kept[l] \/ kept'[l] = NoEdition
  PROVE  Spares(call, l)'
<1>1. CASE kept'[l] = kept[l]  BY <1>1 DEF Spares, Listed, OwnId
<1>2. CASE kept'[l] = NoEdition  BY <1>2 DEF Spares
<1> QED  BY <1>1, <1>2

\* While no call would replace the list, no edition can be replaced.
LEMMA SparesUnlessReplacing ==
  ASSUME ~Replacing, NEW c \in Connection, NEW l \in Label, calls'[c] = calls[c]
  PROVE  Spares(calls[c], l)'
<1>1. calls[c] # NoCall => calls[c].about.what # "submit" /\ calls[c].about.what # "details"
  BY DEF Replacing, Calling, InFlight, About
<1> QED  BY <1>1 DEF Spares

\* Calls end, and an edition is kept only when none of them would replace the list.
LEMMA CallsEnd ==
  ASSUME CallsCarry, NothingKeptIsReplaced,
         \A c \in Connection : calls'[c] = calls[c] \/ calls'[c] = NoCall,
         Replacing => KeptShrinks
  PROVE  CallsCarry' /\ NothingKeptIsReplaced'
<1>1. CallsCarry'
  <2> SUFFICES ASSUME NEW c \in Connection  PROVE Carries(calls'[c])
    BY DEF CallsCarry, Carries, Search, Details, Submit, Edition
  <2>1. CASE calls'[c] = calls[c]
    <3>1. Carries(calls[c])  BY DEF CallsCarry
    <3> QED  BY <2>1, <3>1
  <2>2. CASE calls'[c] = NoCall  BY <2>2 DEF Carries
  <2> QED  BY <2>1, <2>2
<1>2. ASSUME NEW c \in Connection, NEW l \in Label  PROVE Spares(calls[c], l)'
  <2>1. CASE calls'[c] = NoCall  BY <2>1 DEF Spares
  <2>2. CASE calls'[c] = calls[c] /\ ~Replacing  BY <2>2, SparesUnlessReplacing
  <2>3. CASE calls'[c] = calls[c] /\ Replacing
    <3>1. PICK call : call = calls[c]  OBVIOUS
    <3>2. Spares(call, l)
      <4>1. Spares(calls[c], l)  BY DEF NothingKeptIsReplaced
      <4> QED  BY <3>1, <4>1
    <3>3. Spares(call, l)'  BY <2>3, <3>2, SparesShrunk DEF KeptShrinks
    <3> QED  BY <2>3, <3>1, <3>3 DEF Spares
  <2> QED  BY <2>1, <2>2, <2>3
<1> QED  BY <1>1, <1>2 DEF NothingKeptIsReplaced

\* One call changes, to one that carries what it must and spares what is kept.
LEMMA OneCallChanges ==
  ASSUME calls \in [Connection -> {NoCall} \cup PageCall], CallsCarry, NothingKeptIsReplaced,
         NEW c \in Connection, NEW call \in {NoCall} \cup PageCall,
         calls' = [calls EXCEPT ![c] = call], Carries(call), KeptShrinks,
         \A l \in Label : Spares(call, l)'
  PROVE  /\ calls' \in [Connection -> {NoCall} \cup PageCall]
         /\ CallsCarry' /\ NothingKeptIsReplaced'
<1>1. calls' \in [Connection -> {NoCall} \cup PageCall]  OBVIOUS
<1>2. calls'[c] = call /\ \A d \in Connection : d # c => calls'[d] = calls[d]  OBVIOUS
<1>3. CallsCarry'
  <2> SUFFICES ASSUME NEW d \in Connection  PROVE Carries(calls'[d])
    BY DEF CallsCarry, Carries, Search, Details, Submit, Edition
  <2>1. CASE d = c  BY <1>2, <2>1
  <2>2. CASE d # c
    <3>1. Carries(calls[d])  BY DEF CallsCarry
    <3> QED  BY <1>2, <2>2, <3>1
  <2> QED  BY <2>1, <2>2
<1>4. ASSUME NEW d \in Connection, NEW l \in Label  PROVE Spares(calls[d], l)'
  <2>1. CASE d = c
    <3>1. Spares(call, l)'  OBVIOUS
    <3> QED  BY <1>2, <2>1, <3>1 DEF Spares
  <2>2. CASE d # c
    <3>1. PICK other : other = calls[d]  OBVIOUS
    <3>2. Spares(other, l)
      <4>1. Spares(calls[d], l)  BY DEF NothingKeptIsReplaced
      <4> QED  BY <3>1, <4>1
    <3>3. Spares(other, l)'  BY <3>2, SparesShrunk DEF KeptShrinks
    <3> QED  BY <1>2, <2>2, <3>1, <3>3 DEF Spares
  <2> QED  BY <2>1, <2>2
<1> QED  BY <1>1, <1>3, <1>4 DEF NothingKeptIsReplaced

LEMMA OutcomeFacts ==
  ASSUME NEW call \in PageCall, NEW outcome \in Outcome, NEW g, g = [call EXCEPT !.outcome = outcome]
  PROVE  g \in PageCall /\ g # NoCall /\ g.about = call.about /\ g.outcome = outcome
<1>1. g \in PageCall /\ g.about = call.about /\ g.outcome = outcome  BY DEF PageCall
<1>2. g.method \in {"GET", "POST", "DELETE"}  BY <1>1 DEF PageCall
<1> QED  BY <1>1, <1>2 DEF NoCall

LEMMA AboutFacts ==
  ASSUME NEW call \in PageCall, NEW about \in Search \cup Details \cup Submit \cup Reject \cup Settled,
         NEW g, g = [call EXCEPT !.about = about]
  PROVE  g \in PageCall /\ g.outcome = call.outcome /\ g.about = about
  BY DEF PageCall

LEMMA InFlightFacts ==
  ASSUME calls \in [Connection -> {NoCall} \cup PageCall], NEW c \in Connection, InFlight(c)
  PROVE  calls[c] \in PageCall /\ calls[c] # NoCall
  BY DEF InFlight

LEMMA WhatFacts ==
  ASSUME NEW call \in PageCall
  PROVE  /\ call.about \in Search \cup Details \cup Submit \cup Reject \cup Settled
         /\ call.about.what \in {"search", "details", "submit", "reject"}
<1>1. call.about \in Search \cup Details \cup Submit \cup Reject \cup Settled  BY DEF PageCall
<1>2. CASE call.about \in Search  BY <1>1, <1>2 DEF Search
<1>3. CASE call.about \in Details  BY <1>1, <1>3 DEF Details
<1>4. CASE call.about \in Submit  BY <1>1, <1>4 DEF Submit
<1>5. CASE call.about \in Reject  BY <1>1, <1>5 DEF Reject
<1>6. CASE call.about \in Settled  BY <1>1, <1>6 DEF Settled
<1> QED  BY <1>1, <1>2, <1>3, <1>4, <1>5, <1>6

\* A call that is settled keeps nothing but what it was for.
LEMMA SettleFacts ==
  ASSUME calls \in [Connection -> {NoCall} \cup PageCall], NEW c \in Connection, InFlight(c),
         NEW outcome \in Outcome, Settle(c, outcome)
  PROVE  \E call \in PageCall : /\ calls' = [calls EXCEPT ![c] = call] /\ call # NoCall
                                /\ call.about.what = About(c).what /\ call.outcome = outcome
<1>1. calls[c] \in PageCall  BY InFlightFacts
<1>2. PICK e : e = [calls[c] EXCEPT !.outcome = outcome]  OBVIOUS
<1>3. e \in PageCall /\ e # NoCall /\ e.about = calls[c].about /\ e.outcome = outcome
  BY <1>1, <1>2, OutcomeFacts
<1> DEFINE about == [what |-> About(c).what]
<1>4. about \in Settled /\ about.what = About(c).what
  BY <1>1, WhatFacts DEF Settled, About
<1>5. calls' = [calls EXCEPT ![c] = [e EXCEPT !.about = about]]
  BY <1>2 DEF Settle, About
<1> HIDE DEF about
<1>6. PICK g : g = [e EXCEPT !.about = about]  OBVIOUS
<1>7. g \in PageCall /\ g.outcome = e.outcome /\ g.about = about
  BY <1>3, <1>4, <1>6, AboutFacts
<1>8. g # NoCall
  <2>1. g.method \in {"GET", "POST", "DELETE"}  BY <1>7 DEF PageCall
  <2> QED  BY <2>1 DEF NoCall
<1> QED  BY <1>3, <1>4, <1>5, <1>6, <1>7, <1>8

\* A call that failed, or was lost, still spares what is kept.
LEMMA FailingCall ==
  ASSUME PageInv, NEW c \in Connection, InFlight(c), NEW outcome \in {"refused", "lost"},
         Settle(c, outcome), kept' = kept
  PROVE  /\ calls' \in [Connection -> {NoCall} \cup PageCall]
         /\ CallsCarry' /\ NothingKeptIsReplaced'
<1>1. /\ calls \in [Connection -> {NoCall} \cup PageCall]
      /\ CallsCarry /\ NothingKeptIsReplaced /\ outcome \in Outcome
  BY DEF PageInv, PageTypeOK, Outcome
<1>2. PICK call \in PageCall : /\ calls' = [calls EXCEPT ![c] = call] /\ call # NoCall
                               /\ call.about.what = About(c).what /\ call.outcome = outcome
  BY <1>1, SettleFacts
<1>3. Carries(call)  BY <1>2 DEF Carries
<1>4. KeptShrinks  BY DEF KeptShrinks
<1>5. \A l \in Label : Spares(call, l)'
  <2> TAKE l \in Label
  <2>1. Spares(calls[c], l)  BY <1>1 DEF NothingKeptIsReplaced
  <2> QED  BY <1>2, <2>1 DEF Spares, InFlight, About
<1> QED  BY <1>1, <1>2, <1>3, <1>4, <1>5, OneCallChanges

\* A call is sent.
LEMMA SendFacts ==
  ASSUME PageInv, NEW call \in PageCall, Send(call), Carries(call), \A l \in Label : Spares(call, l),
         kept' = kept
  PROVE  /\ calls' \in [Connection -> {NoCall} \cup PageCall]
         /\ CallsCarry' /\ NothingKeptIsReplaced'
<1> DEFINE c == CHOOSE d \in Connection : Free(d)
<1>1. c \in Connection /\ calls' = [calls EXCEPT ![c] = call]  BY DEF Send
<1> HIDE DEF c
<1>2. /\ calls \in [Connection -> {NoCall} \cup PageCall]
      /\ CallsCarry /\ NothingKeptIsReplaced
  BY DEF PageInv, PageTypeOK
<1>3. KeptShrinks  BY DEF KeptShrinks
<1>4. \A l \in Label : Spares(call, l)'
  <2> TAKE l \in Label
  <2>1. Spares(call, l)  OBVIOUS
  <2> QED  BY <2>1, SparesShrunk
<1> QED  BY <1>1, <1>2, <1>3, <1>4, OneCallChanges

LEMMA ReturnFacts ==
  ASSUME calls \in [Connection -> {NoCall} \cup PageCall], NEW c \in Connection, Return(c)
  PROVE  /\ calls' \in [Connection -> {NoCall} \cup PageCall] /\ calls'[c] = NoCall
         /\ \A d \in Connection : calls'[d] = calls[d] \/ calls'[d] = NoCall
         /\ \A d \in Connection : d # c => calls'[d] = calls[d]
  BY DEF Return

-----------------------------------------------------------------------------
(* The steps.                                                                *)

LEMMA PageStart == PageInit => PageInv
<1> SUFFICES ASSUME PageInit  PROVE PageInv  OBVIOUS
<1>1. /\ source = Stored /\ contributionId \in {0, Review} /\ list = <<>>
      /\ shown = [list |-> <<>>, review |-> FALSE] /\ toShow = FALSE /\ fields = NoFields
      /\ focus = NoFocus /\ dialog = "none" /\ left = FALSE
      /\ kept = [l \in Label |-> NoEdition]
  BY DEF PageInit
<1>2. PICK first : calls = [c \in Connection |->
                              IF review /\ c = first THEN DetailsCall ELSE NoCall]
  BY DEF PageInit
<1>3. <<>> \in Seq(Edition)  OBVIOUS
<1>4. /\ DetailsCall \in PageCall /\ DetailsCall.outcome = "pending"
      /\ DetailsCall.about.what = "details" /\ DetailsCall.about.list = <<>>
      /\ DetailsCall.about \in Details
  BY <1>3 DEF DetailsCall, Get, Call, PageCall, Details, Outcome
<1>5. Carries(DetailsCall) /\ Carries(NoCall)
  <2>1. \A i \in 1 .. Len(DetailsCall.about.list) : DetailsCall.about.list[i].id = NoId
    BY <1>4
  <2> QED  BY <1>4, <2>1 DEF Carries
<1>6. calls \in [Connection -> {NoCall} \cup PageCall]  BY <1>2, <1>4
<1>7. CallsCarry
  <2> SUFFICES ASSUME NEW c \in Connection  PROVE Carries(calls[c])  BY DEF CallsCarry
  <2>1. calls[c] = DetailsCall \/ calls[c] = NoCall  BY <1>2
  <2>2. CASE calls[c] = DetailsCall  BY <1>5, <2>2
  <2>3. CASE calls[c] = NoCall  BY <1>5, <2>3
  <2> QED  BY <2>1, <2>2, <2>3
<1>8. NothingKeptIsReplaced /\ NoEditionForgotten
  BY <1>1 DEF NothingKeptIsReplaced, Spares, NoEditionForgotten
<1>9. UniqueIds /\ IdsTellLabels  BY <1>1 DEF UniqueIds, IdsTellLabels
<1>10. PageTypeOK
  <2>1. AnyValue \in Value  BY ContributionPageAssumption DEF AnyValue
  <2>2. fields \in [Label -> Field]  BY <1>1, <2>1 DEF NoFields, NoField, Field
  <2>3. source \in [Label -> Value]  BY <1>1, ContributionPageAssumption
  <2>4. shown \in [list : Seq(Edition), review : BOOLEAN]  BY <1>1, <1>3
  <2> QED  BY <1>1, <1>3, <1>6, <2>2, <2>3, <2>4 DEF PageTypeOK
<1> QED  BY <1>7, <1>8, <1>9, <1>10 DEF PageInv

\* A step that leaves the list alone keeps what it tells.
LEMMA ListUntouched ==
  ASSUME PageInv, UNCHANGED <<list, kept>>
  PROVE  UniqueIds' /\ IdsTellLabels' /\ NoEditionForgotten'
<1>1. UniqueIds /\ IdsTellLabels /\ NoEditionForgotten  BY DEF PageInv
<1> QED  BY <1>1 DEF UniqueIds, IdsTellLabels, NoEditionForgotten, Listed, OwnId

LEMMA CallsUntouched ==
  ASSUME PageInv, UNCHANGED <<calls, kept>>
  PROVE  /\ calls' \in [Connection -> {NoCall} \cup PageCall]
         /\ CallsCarry' /\ NothingKeptIsReplaced'
<1>1. /\ calls \in [Connection -> {NoCall} \cup PageCall]
      /\ CallsCarry /\ NothingKeptIsReplaced
  BY DEF PageInv, PageTypeOK
<1>2. KeptShrinks /\ \A c \in Connection : calls'[c] = calls[c] \/ calls'[c] = NoCall
  BY DEF KeptShrinks
<1> QED  BY <1>1, <1>2, CallsEnd

\* The steps that change neither the list nor the calls.
LEMMA PageKeeps ==
  ASSUME PageInv,
         \/ ShowList \/ PromptReject \/ CloseDialog
         \/ \E l \in Label : Focus(l) \/ Escape(l) \/ \E v \in Value : Type(l, v)
         \/ UNCHANGED contributionVars
  PROVE  PageInv'
<1>1. PageTypeOK /\ UNCHANGED <<calls, source, contributionId, list, left, kept>>
  BY DEF ShowList, PromptReject, CloseDialog, Focus, Escape, Type, contributionVars, PageInv
<1>2. UniqueIds' /\ IdsTellLabels' /\ NoEditionForgotten'  BY <1>1, ListUntouched
<1>3. /\ calls' \in [Connection -> {NoCall} \cup PageCall]
      /\ CallsCarry' /\ NothingKeptIsReplaced'
  BY <1>1, CallsUntouched
<1>4. PageTypeOK'
  <2>1. CASE ShowList
    <3>1. review \in BOOLEAN  BY DEF review
    <3>2. shown' = [list |-> list, review |-> review] /\ toShow' = FALSE
          /\ UNCHANGED <<fields, focus, dialog>>
      BY <2>1 DEF ShowList
    <3> QED  BY <1>1, <1>3, <3>1, <3>2 DEF PageTypeOK
  <2>2. CASE PromptReject \/ CloseDialog
    <3>1. dialog' \in {"none", "error", "prompt"} /\ UNCHANGED <<shown, toShow, fields, focus>>
      BY <2>2 DEF PromptReject, CloseDialog
    <3> QED  BY <1>1, <1>3, <3>1 DEF PageTypeOK
  <2>3. ASSUME NEW l \in Label, Focus(l)  PROVE PageTypeOK'
    BY <1>1, <1>3, <2>3 DEF Focus, PageTypeOK
  <2>4. ASSUME NEW l \in Label, Escape(l) \/ \E v \in Value : Type(l, v)  PROVE PageTypeOK'
    <3>1. UNCHANGED <<shown, toShow, focus, dialog>>  BY <2>4 DEF Escape, Type
    <3>2. fields \in [Label -> Field] /\ fields[l] \in Field  BY <1>1 DEF PageTypeOK
    <3>3. fields' \in [Label -> Field]
      <4>1. CASE Escape(l)
        <5>1. Restored(fields[l]) \in Field  BY <3>2 DEF Restored, Field
        <5> QED  BY <3>2, <4>1, <5>1 DEF Escape
      <4>2. ASSUME NEW v \in Value, Type(l, v)  PROVE fields' \in [Label -> Field]
        <5>1. [fields[l] EXCEPT !.text = v] \in Field  BY <3>2 DEF Field
        <5> QED  BY <3>2, <4>2, <5>1 DEF Type
      <4> QED  BY <2>4, <4>1, <4>2
    <3> QED  BY <1>1, <1>3, <3>1, <3>3 DEF PageTypeOK
  <2>5. CASE UNCHANGED contributionVars
    BY <1>1, <2>5 DEF contributionVars, PageTypeOK
  <2> QED  BY <2>1, <2>2, <2>3, <2>4, <2>5
<1> QED  BY <1>2, <1>3, <1>4 DEF PageInv

\* An edition is saved, by the keyboard or because the field loses the focus.
LEMMA SaveKeeps ==
  ASSUME PageInv, NEW l \in Label, ShiftEnter(l) \/ Blur(l)
  PROVE  PageInv'
<1>1. /\ SaveEdition(l) /\ focus' \in {focus, NoFocus}
      /\ UNCHANGED <<calls, source, contributionId, shown, fields, dialog, left>>
  BY DEF ShiftEnter, Blur
<1>2. PageTypeOK /\ CallsCarry /\ NothingKeptIsReplaced  BY DEF PageInv
<1>3. /\ list' \in Seq(Edition) /\ toShow' \in BOOLEAN
      /\ kept' \in [Label -> Value \cup {NoEdition}]
      /\ UniqueIds' /\ IdsTellLabels' /\ NoEditionForgotten'
      /\ Replacing => \A m \in Label : kept'[m] = kept[m] \/ kept'[m] = NoEdition
  BY <1>1, SaveFacts
<1>4. CallsCarry' /\ NothingKeptIsReplaced'
  <2>1. Replacing => KeptShrinks  BY <1>3 DEF KeptShrinks
  <2>2. \A c \in Connection : calls'[c] = calls[c] \/ calls'[c] = NoCall  BY <1>1
  <2> QED  BY <1>2, <2>1, <2>2, CallsEnd
<1>5. PageTypeOK'  BY <1>1, <1>2, <1>3 DEF PageTypeOK
<1> QED  BY <1>3, <1>4, <1>5 DEF PageInv

\* An edition is removed from the box.
LEMMA RemoveKeeps ==
  ASSUME PageInv, NEW e, RemoveEdition(e)
  PROVE  PageInv'
<1>1. /\ PageTypeOK /\ UniqueIds /\ IdsTellLabels /\ NoEditionForgotten
      /\ CallsCarry /\ NothingKeptIsReplaced
  BY DEF PageInv
<1>2. /\ list \in Seq(Edition) /\ Len(list) \in Nat /\ fields \in [Label -> Field]
      /\ kept \in [Label -> Value \cup {NoEdition}]
  BY <1>1 DEF PageTypeOK
<1>3. /\ UNCHANGED <<calls, source, contributionId, shown, focus, dialog, left>>
      /\ fields' \in [Label -> Field]
  <2>1. PICK l \in Label : fields' = [fields EXCEPT ![l] = Restored(fields[l])]
    BY DEF RemoveEdition
  <2>2. Restored(fields[l]) \in Field
    <3>1. fields[l] \in Field  BY <1>2
    <3> QED  BY <3>1 DEF Restored, Field
  <2> QED  BY <1>2, <2>1, <2>2 DEF RemoveEdition
<1>4. /\ list' \in Seq(Edition) /\ toShow' \in BOOLEAN
      /\ kept' \in [Label -> Value \cup {NoEdition}]
      /\ UniqueIds' /\ IdsTellLabels' /\ NoEditionForgotten' /\ KeptShrinks
  <2>1. CASE IndexOf(e.id) = 0
    <3>1. UNCHANGED <<list, toShow, kept>>  BY <2>1 DEF RemoveEdition
    <3>2. toShow \in BOOLEAN  BY <1>1 DEF PageTypeOK
    <3> QED  BY <1>2, <3>1, <3>2, ListUntouched DEF KeptShrinks
  <2>2. CASE IndexOf(e.id) # 0
    <3>1. PICK k \in 1 .. Len(list) : k = IndexOf(e.id)  BY <1>2, <2>2, IndexFacts
    <3>2. /\ list' = RemoveAt(list, k) /\ toShow' = TRUE
          /\ kept' = [kept EXCEPT ![list[k].label] = NoEdition]
      BY <2>2, <3>1 DEF RemoveEdition, Display
    <3>3. /\ list' \in Seq(Edition) /\ Len(list') = Len(list) - 1
          /\ \A i \in 1 .. Len(list) - 1 : list'[i] = IF i < k THEN list[i] ELSE list[i + 1]
      BY <1>2, <3>2, RemoveAtFacts
    <3>4. list[k].label \in Label
      <4>1. list[k] \in Edition  BY <1>2, ElementOfSeq
      <4> QED  BY <4>1 DEF Edition
    <3>5. /\ kept' \in [Label -> Value \cup {NoEdition}] /\ kept'[list[k].label] = NoEdition
          /\ \A l \in Label : l # list[k].label => kept'[l] = kept[l]
      BY <1>2, <3>2, <3>4
    <3>6. KeptShrinks  BY <3>5 DEF KeptShrinks
    <3>7. UniqueIds'
      <4> SUFFICES ASSUME NEW i \in 1 .. Len(list'), NEW j \in 1 .. Len(list'),
                          list'[i].id = list'[j].id, list'[i].id # NoId
                   PROVE  i = j
        BY DEF UniqueIds
      <4> DEFINE from(n) == IF n < k THEN n ELSE n + 1
      <4>1. /\ from(i) \in 1 .. Len(list) /\ from(j) \in 1 .. Len(list)
            /\ list'[i] = list[from(i)] /\ list'[j] = list[from(j)]
            /\ (from(i) = from(j) => i = j)
        BY <1>2, <3>3
      <4> HIDE DEF from
      <4> QED  BY <1>1, <4>1 DEF UniqueIds
    <3>8. IdsTellLabels'
      <4> SUFFICES ASSUME NEW i \in 1 .. Len(list'), list'[i].id # NoId
                   PROVE  list'[i].id = IdOf[list'[i].label]
        BY DEF IdsTellLabels
      <4>1. PICK n \in 1 .. Len(list) : list'[i] = list[n]
        <5>1. i \in 1 .. Len(list) /\ i + 1 \in 1 .. Len(list)  BY <1>2, <3>3
        <5> QED  BY <3>3, <5>1
      <4> QED  BY <1>1, <4>1 DEF IdsTellLabels
    <3>9. NoEditionForgotten'
      <4> SUFFICES ASSUME NEW l \in Label, OwnId(l), kept'[l] # NoEdition
                   PROVE  Has(list', l, kept'[l])
        BY DEF NoEditionForgotten, Listed, Has, OwnId
      <4>1. l # list[k].label /\ kept'[l] = kept[l]  BY <3>5
      <4>2. PICK i \in 1 .. Len(list) : list[i].label = l /\ list[i].new = kept[l]
        BY <1>1, <4>1 DEF NoEditionForgotten, Listed
      <4>3. i # k  BY <4>1, <4>2
      <4>4. PICK n \in 1 .. Len(list') : list'[n] = list[i]
        <5>1. CASE i < k
          <6>1. i \in 1 .. Len(list')  BY <1>2, <3>3, <5>1
          <6> QED  BY <3>3, <5>1, <6>1
        <5>2. CASE i > k
          <6>1. i - 1 \in 1 .. Len(list') /\ ~(i - 1 < k) /\ (i - 1) + 1 = i
            BY <1>2, <3>3, <5>2
          <6> QED  BY <3>3, <6>1
        <5> QED  BY <4>3, <5>1, <5>2
      <4> QED  BY <4>1, <4>2, <4>4 DEF Has
    <3> QED  BY <3>2, <3>3, <3>5, <3>6, <3>7, <3>8, <3>9
  <2> QED  BY <2>1, <2>2
<1>5. CallsCarry' /\ NothingKeptIsReplaced'
  <2>1. \A c \in Connection : calls'[c] = calls[c] \/ calls'[c] = NoCall  BY <1>3
  <2> QED  BY <1>1, <1>4, <2>1, CallsEnd
<1>6. PageTypeOK'  BY <1>1, <1>3, <1>4 DEF PageTypeOK
<1> QED  BY <1>4, <1>5, <1>6 DEF PageInv

\* The invariant after a step that leaves the list and the fields alone.
LEMMA PageAround ==
  ASSUME PageInv, UNCHANGED <<contributionId, list, shown, toShow, fields, focus, left, kept>>,
         source' \in [Label -> Value], dialog' \in {"none", "error", "prompt"},
         calls' \in [Connection -> {NoCall} \cup PageCall], CallsCarry', NothingKeptIsReplaced'
  PROVE  PageInv'
<1>1. UniqueIds' /\ IdsTellLabels' /\ NoEditionForgotten'  BY ListUntouched
<1>2. PageTypeOK'  BY DEF PageInv, PageTypeOK
<1> QED  BY <1>1, <1>2 DEF PageInv

\* What a new call is about.
LEMMA CallFacts ==
  ASSUME NEW method \in {"GET", "POST", "DELETE"},
         NEW about \in Search \cup Details \cup Submit \cup Reject \cup Settled,
         NEW call, call = Call(method, about)
  PROVE  call \in PageCall /\ call.about = about /\ call.outcome = "pending"
  BY DEF Call, PageCall, Outcome

LEMMA SendSearchKeeps ==
  ASSUME PageInv, SendSearch
  PROVE  PageInv'
<1>1. PICK found \in Matches :
             Send(Post([what |-> "search", values |-> Restrict(Stored, found)]))
  BY DEF SendSearch
<1>2. UnchangedPage /\ UNCHANGED source  BY DEF SendSearch
<1> DEFINE about == [what |-> "search", values |-> Restrict(Stored, found)]
           call == Call("POST", about)
<1>3. about \in Search /\ about.what = "search"
  <2>1. found \subseteq Label /\ Stored \in [Label -> Value]  BY ContributionPageAssumption
  <2>2. Restrict(Stored, found) \in [found -> Value]  BY <2>1 DEF Restrict
  <2> QED  BY <2>2 DEF Search
<1>4. Send(call)  BY <1>1 DEF Post
<1> HIDE DEF about
<1>5. call \in PageCall /\ call.about = about /\ call.outcome = "pending"
  BY <1>3, CallFacts
<1> HIDE DEF call
<1>6. Carries(call) /\ \A l \in Label : Spares(call, l)
  BY <1>3, <1>5 DEF Carries, Spares
<1>7. /\ calls' \in [Connection -> {NoCall} \cup PageCall]
      /\ CallsCarry' /\ NothingKeptIsReplaced'
  BY <1>2, <1>4, <1>5, <1>6, SendFacts DEF UnchangedPage
<1> QED  BY <1>2, <1>7, PageAround DEF UnchangedPage, PageInv, PageTypeOK

LEMMA SendSubmitKeeps ==
  ASSUME PageInv, SendSubmit
  PROVE  PageInv'
<1> DEFINE about == [what |-> "submit", id |-> contributionId, list |-> list]
           call == Call("POST", about)
<1>1. UnchangedPage /\ UNCHANGED source /\ Send(call)  BY DEF SendSubmit, Post
<1>2. about \in Submit /\ about.what = "submit" /\ about.list = list
  BY DEF Submit, PageInv, PageTypeOK
<1> HIDE DEF about
<1>3. call \in PageCall /\ call.about = about /\ call.outcome = "pending"
  BY <1>2, CallFacts
<1> HIDE DEF call
<1>4. Carries(call)  BY <1>2, <1>3 DEF Carries
<1>5. \A l \in Label : Spares(call, l)
  <2> TAKE l \in Label
  <2>1. OwnId(l) /\ kept[l] # NoEdition => Listed(list, l)  BY DEF PageInv, NoEditionForgotten
  <2> QED  BY <1>2, <1>3, <2>1 DEF Spares
<1>6. /\ calls' \in [Connection -> {NoCall} \cup PageCall]
      /\ CallsCarry' /\ NothingKeptIsReplaced'
  BY <1>1, <1>3, <1>4, <1>5, SendFacts DEF UnchangedPage
<1> QED  BY <1>1, <1>6, PageAround DEF UnchangedPage, PageInv, PageTypeOK

LEMMA SendRejectKeeps ==
  ASSUME PageInv, SendReject
  PROVE  PageInv'
<1> DEFINE about == [what |-> "reject", id |-> contributionId]
           call == Call("DELETE", about)
<1>1. /\ UNCHANGED <<source, contributionId, list, shown, toShow, fields, focus, left, kept>>
      /\ dialog' = "none" /\ Send(call)
  BY DEF SendReject, Del
<1>2. about \in Reject /\ about.what = "reject"  BY DEF Reject, PageInv, PageTypeOK
<1> HIDE DEF about
<1>3. call \in PageCall /\ call.about = about /\ call.outcome = "pending"
  BY <1>2, CallFacts
<1> HIDE DEF call
<1>4. Carries(call) /\ \A l \in Label : Spares(call, l)
  BY <1>2, <1>3 DEF Carries, Spares
<1>5. /\ calls' \in [Connection -> {NoCall} \cup PageCall]
      /\ CallsCarry' /\ NothingKeptIsReplaced'
  BY <1>1, <1>3, <1>4, SendFacts
<1> QED  BY <1>1, <1>5, PageAround DEF PageInv, PageTypeOK

\* A record whose data are filled in by the server.
LEMMA ValuesFacts ==
  ASSUME NEW call \in PageCall, call.about \in Search, NEW v,
         \E found \in Matches : v \in [found -> Value]
  PROVE  \E g \in PageCall : /\ g = [[call EXCEPT !.outcome = "ok"] EXCEPT !.about.values = v]
                            /\ g.about \in Search /\ g.about.what = "search" /\ g.outcome = "ok"
<1>1. PICK e : e = [call EXCEPT !.outcome = "ok"]  OBVIOUS
<1>2. e \in PageCall /\ e.about = call.about /\ e.outcome = "ok"
  BY <1>1, OutcomeFacts DEF Outcome
<1>3. PICK a : a = [call.about EXCEPT !.values = v]  OBVIOUS
<1>4. a \in Search /\ a.what = "search"  BY <1>3 DEF Search
<1>5. PICK g : g = [e EXCEPT !.about = a]  OBVIOUS
<1>6. a \in Search \cup Details \cup Submit \cup Reject \cup Settled  BY <1>4
<1>7. g \in PageCall /\ g.outcome = e.outcome /\ g.about = a  BY <1>2, <1>5, <1>6, AboutFacts
<1>8. g = [[call EXCEPT !.outcome = "ok"] EXCEPT !.about.values = v]  BY <1>1, <1>2, <1>3, <1>5
<1> QED  BY <1>2, <1>4, <1>7, <1>8

LEMMA ListFacts ==
  ASSUME NEW call \in PageCall, call.about \in Details, NEW s \in Seq(Edition)
  PROVE  \E g \in PageCall : /\ g = [[call EXCEPT !.outcome = "ok"] EXCEPT !.about.list = s]
                            /\ g.about \in Details /\ g.about.what = "details"
                            /\ g.about.list = s /\ g.outcome = "ok"
<1>1. PICK e : e = [call EXCEPT !.outcome = "ok"]  OBVIOUS
<1>2. e \in PageCall /\ e.about = call.about /\ e.outcome = "ok"
  BY <1>1, OutcomeFacts DEF Outcome
<1>3. PICK a : a = [call.about EXCEPT !.list = s]  OBVIOUS
<1>4. a \in Details /\ a.what = "details" /\ a.list = s  BY <1>3 DEF Details
<1>5. PICK g : g = [e EXCEPT !.about = a]  OBVIOUS
<1>6. a \in Search \cup Details \cup Submit \cup Reject \cup Settled  BY <1>4
<1>7. g \in PageCall /\ g.outcome = e.outcome /\ g.about = a  BY <1>2, <1>5, <1>6, AboutFacts
<1>8. g = [[call EXCEPT !.outcome = "ok"] EXCEPT !.about.list = s]  BY <1>1, <1>2, <1>3, <1>5
<1> QED  BY <1>2, <1>4, <1>7, <1>8

\* The server answers a search, or with the details of the review.
LEMMA ServeReadKeeps ==
  ASSUME PageInv, NEW c \in Connection, ServeRead(c)
  PROVE  PageInv'
<1>1. /\ PageTypeOK /\ CallsCarry /\ NothingKeptIsReplaced
      /\ calls \in [Connection -> {NoCall} \cup PageCall]
      /\ UnchangedPage /\ UNCHANGED source /\ InFlight(c)
  BY DEF PageInv, PageTypeOK, ServeRead, Answered, Reached
<1>2. calls[c] \in PageCall /\ calls[c] # NoCall  BY <1>1, InFlightFacts
<1>3. KeptShrinks  BY <1>1 DEF KeptShrinks, UnchangedPage
<1>4. /\ calls' \in [Connection -> {NoCall} \cup PageCall]
      /\ CallsCarry' /\ NothingKeptIsReplaced'
  <2>1. CASE /\ Answered(c, "search", "pending")
             /\ calls' = [calls EXCEPT ![c].outcome = "ok",
                            ![c].about.values = Restrict(source, DOMAIN About(c).values)]
    <3> DEFINE v == Restrict(source, DOMAIN About(c).values)
    <3>1. calls[c].about \in Search
      <4>1. Carries(calls[c])  BY <1>1 DEF CallsCarry
      <4> QED  BY <1>2, <2>1, <4>1 DEF Answered, Reached, About, Carries
    <3>2. \E found \in Matches : v \in [found -> Value]
      <4>1. PICK found \in Matches : calls[c].about.values \in [found -> Value]
        BY <3>1 DEF Search
      <4>2. found \subseteq Label /\ source \in [Label -> Value]
        BY <1>1, ContributionPageAssumption DEF PageTypeOK
      <4>3. v \in [found -> Value]  BY <4>1, <4>2 DEF Restrict, About
      <4> QED  BY <4>3
    <3> HIDE DEF v
    <3>3. PICK call \in PageCall : call = calls[c]  BY <1>2
    <3>4. PICK g \in PageCall : /\ g = [[call EXCEPT !.outcome = "ok"] EXCEPT !.about.values = v]
                               /\ g.about \in Search /\ g.about.what = "search" /\ g.outcome = "ok"
      BY <3>1, <3>2, <3>3, ValuesFacts
    <3>5. calls' = [calls EXCEPT ![c] = g]  BY <1>1, <2>1, <3>3, <3>4 DEF v
    <3>6. Carries(g) /\ \A l \in Label : Spares(g, l)'  BY <3>4 DEF Carries, Spares
    <3> QED  BY <1>1, <1>3, <3>4, <3>5, <3>6, OneCallChanges
  <2>2. CASE /\ Answered(c, "details", "pending")
             /\ calls' = [calls EXCEPT ![c].outcome = "ok", ![c].about.list = ReviewedList]
    <3>1. calls[c].about \in Details /\ calls[c].about.what = "details"
      <4>1. Carries(calls[c])  BY <1>1 DEF CallsCarry
      <4> QED  BY <1>2, <2>2, <4>1 DEF Answered, Reached, About, Carries
    <3>2. PICK call \in PageCall : call = calls[c]  BY <1>2
    <3>3. PICK s \in Seq(Edition) : s = ReviewedList  BY ReviewedFacts
    <3>4. PICK g \in PageCall : /\ g = [[call EXCEPT !.outcome = "ok"] EXCEPT !.about.list = s]
                               /\ g.about \in Details /\ g.about.what = "details"
                               /\ g.about.list = s /\ g.outcome = "ok"
      BY <3>1, <3>2, ListFacts
    <3>5. Carries(g)
      <4>1. \A i \in 1 .. Len(s) : s[i].id = NoId  BY <3>3, ReviewedFacts
      <4> QED  BY <3>4, <4>1 DEF Carries
    <3>6. \A l \in Label : Spares(g, l)'
      <4> TAKE l \in Label
      <4>1. Spares(calls[c], l)  BY <1>1 DEF NothingKeptIsReplaced
      <4>2. OwnId(l) => kept[l] = NoEdition  BY <1>2, <3>1, <4>1 DEF Spares
      <4> QED  BY <1>1, <4>2 DEF Spares, UnchangedPage, OwnId
    <3>7. calls' = [calls EXCEPT ![c] = g]  BY <1>1, <2>2, <3>2, <3>3, <3>4
    <3> QED  BY <1>1, <1>3, <3>4, <3>5, <3>6, <3>7, OneCallChanges
  <2> QED  BY <2>1, <2>2 DEF ServeRead
<1> QED  BY <1>1, <1>4, PageAround DEF UnchangedPage, PageTypeOK

\* A submission is served: what it has of the editions is accepted.
LEMMA ServeSubmitKeeps ==
  ASSUME PageInv, NEW c \in Connection, ServeSubmit(c)
  PROVE  PageInv'
<1>1. /\ PageTypeOK /\ CallsCarry /\ NothingKeptIsReplaced /\ NoEditionForgotten
      /\ UniqueIds /\ IdsTellLabels
      /\ calls \in [Connection -> {NoCall} \cup PageCall]
      /\ InFlight(c) /\ About(c).what = "submit" /\ calls[c].outcome = "pending"
      /\ Settle(c, "ok") /\ source' \in {source, Applied(About(c).list)}
      /\ kept' = [l \in Label |-> IF Listed(About(c).list, l) THEN NoEdition ELSE kept[l]]
      /\ UNCHANGED <<contributionId, list, shown, toShow, fields, focus, dialog, left>>
  BY DEF PageInv, PageTypeOK, ServeSubmit, Answered, Reached
<1>2. calls[c] # NoCall /\ About(c) = calls[c].about  BY <1>1 DEF InFlight, About
<1>3. About(c) \in Submit
  <2>1. Carries(calls[c])  BY <1>1 DEF CallsCarry
  <2> QED  BY <1>1, <1>2, <2>1 DEF Carries
<1>4. kept' \in [Label -> Value \cup {NoEdition}] /\ KeptShrinks
  BY <1>1 DEF PageTypeOK, KeptShrinks
<1>5. \A l \in Label : OwnId(l) => kept'[l] = NoEdition
  <2> SUFFICES ASSUME NEW l \in Label, OwnId(l), ~Listed(About(c).list, l), kept[l] # NoEdition
               PROVE  FALSE
    BY <1>1
  <2>1. Spares(calls[c], l)  BY <1>1 DEF NothingKeptIsReplaced
  <2> QED  BY <1>1, <1>2, <2>1 DEF Spares
<1>6. PICK call \in PageCall : /\ calls' = [calls EXCEPT ![c] = call] /\ call # NoCall
                               /\ call.about.what = "submit" /\ call.outcome = "ok"
  BY <1>1, SettleFacts DEF Outcome
<1>7. Carries(call)  BY <1>6 DEF Carries
<1>8. \A l \in Label : Spares(call, l)'  BY <1>5 DEF Spares, OwnId
<1>9. /\ calls' \in [Connection -> {NoCall} \cup PageCall]
      /\ CallsCarry' /\ NothingKeptIsReplaced'
  BY <1>1, <1>4, <1>6, <1>7, <1>8, OneCallChanges
<1>10. source' \in [Label -> Value]
  <2>1. source \in [Label -> Value] /\ About(c).list \in Seq(Edition)
    BY <1>1, <1>3 DEF PageTypeOK, Submit
  <2>2. Applied(About(c).list) \in [Label -> Value]  BY <2>1, AppliedType
  <2> QED  BY <1>1, <2>1, <2>2
<1>11. UniqueIds' /\ IdsTellLabels'  BY <1>1 DEF UniqueIds, IdsTellLabels
<1>12. NoEditionForgotten'  BY <1>5 DEF NoEditionForgotten, OwnId
<1>13. PageTypeOK'  BY <1>1, <1>4, <1>9, <1>10 DEF PageTypeOK
<1> QED  BY <1>9, <1>11, <1>12, <1>13 DEF PageInv

LEMMA ServeRejectKeeps ==
  ASSUME PageInv, NEW c \in Connection, ServeReject(c)
  PROVE  PageInv'
<1>1. /\ PageTypeOK /\ CallsCarry /\ NothingKeptIsReplaced
      /\ calls \in [Connection -> {NoCall} \cup PageCall]
      /\ InFlight(c) /\ About(c).what = "reject" /\ Serve(c, "ok")
      /\ UnchangedPage /\ UNCHANGED source
  BY DEF PageInv, PageTypeOK, ServeReject, Answered, Reached
<1>2. calls[c] \in PageCall  BY <1>1, InFlightFacts
<1>3. PICK call : call = [calls[c] EXCEPT !.outcome = "ok"]  OBVIOUS
<1>4. call \in PageCall /\ call.about = calls[c].about  BY <1>2, <1>3, OutcomeFacts DEF Outcome
<1>5. calls' = [calls EXCEPT ![c] = call]  BY <1>1, <1>3 DEF Serve
<1>6. Carries(call) /\ \A l \in Label : Spares(call, l)'
  BY <1>1, <1>4 DEF Carries, Spares, About
<1>7. KeptShrinks  BY <1>1 DEF KeptShrinks, UnchangedPage
<1>8. /\ calls' \in [Connection -> {NoCall} \cup PageCall]
      /\ CallsCarry' /\ NothingKeptIsReplaced'
  BY <1>1, <1>4, <1>5, <1>6, <1>7, OneCallChanges
<1> QED  BY <1>1, <1>8, PageAround DEF UnchangedPage, PageTypeOK

\* The server refuses a call, or the network loses it.
LEMMA LossKeeps ==
  ASSUME PageInv, NEW c \in Connection, Refuse(c) \/ LoseCall(c)
  PROVE  PageInv'
<1>1. PICK outcome \in {"refused", "lost"} : Settle(c, outcome)  BY DEF Refuse, LoseCall
<1>2. InFlight(c) /\ UnchangedPage /\ UNCHANGED source  BY DEF Refuse, LoseCall, Reached
<1>3. /\ calls' \in [Connection -> {NoCall} \cup PageCall]
      /\ CallsCarry' /\ NothingKeptIsReplaced'
  BY <1>1, <1>2, FailingCall DEF UnchangedPage
<1> QED  BY <1>2, <1>3, PageAround DEF UnchangedPage, PageInv, PageTypeOK

\* The calls after one of them has come back.
LEMMA ReturnKeeps ==
  ASSUME PageInv, NEW c \in Connection, Return(c), kept' = kept
  PROVE  /\ calls' \in [Connection -> {NoCall} \cup PageCall]
         /\ CallsCarry' /\ NothingKeptIsReplaced'
<1>1. /\ calls \in [Connection -> {NoCall} \cup PageCall]
      /\ CallsCarry /\ NothingKeptIsReplaced
  BY DEF PageInv, PageTypeOK
<1>2. /\ calls' \in [Connection -> {NoCall} \cup PageCall]
      /\ \A d \in Connection : calls'[d] = calls[d] \/ calls'[d] = NoCall
  BY <1>1, ReturnFacts
<1>3. KeptShrinks  BY DEF KeptShrinks
<1> QED  BY <1>1, <1>2, <1>3, CallsEnd

\* The results of a search replace the fields.
LEMMA FoundKeeps ==
  ASSUME PageInv, NEW c \in Connection, Found(c)
  PROVE  PageInv'
<1> DEFINE values == About(c).values
<1>1. /\ PageTypeOK /\ CallsCarry /\ Return(c) /\ focus' = NoFocus
      /\ InFlight(c) /\ About(c).what = "search" /\ calls[c].outcome = "ok"
      /\ UNCHANGED <<source, contributionId, list, shown, toShow, dialog, left, kept>>
      /\ fields' = [l \in Label |-> IF l \in DOMAIN values
                                    THEN [present |-> TRUE, text |-> values[l], old |-> values[l]]
                                    ELSE NoField]
  BY DEF PageInv, Found, Answered, Reached
<1>2. About(c) \in Search
  <2>1. Carries(calls[c])  BY <1>1 DEF CallsCarry
  <2> QED  BY <1>1, <2>1 DEF Carries, InFlight, About
<1>3. \A l \in DOMAIN values : values[l] \in Value
  <2>1. PICK found \in Matches : values \in [found -> Value]  BY <1>2 DEF Search
  <2> QED  BY <2>1
<1> HIDE DEF values
<1>4. fields' \in [Label -> Field]
  <2>1. AnyValue \in Value  BY ContributionPageAssumption DEF AnyValue
  <2>2. NoField \in Field  BY <2>1 DEF NoField, Field
  <2>3. \A v \in Value : [present |-> TRUE, text |-> v, old |-> v] \in Field  BY DEF Field
  <2> QED  BY <1>1, <1>3, <2>2, <2>3
<1>5. /\ calls' \in [Connection -> {NoCall} \cup PageCall]
      /\ CallsCarry' /\ NothingKeptIsReplaced'
  BY <1>1, ReturnKeeps
<1>6. UniqueIds' /\ IdsTellLabels' /\ NoEditionForgotten'  BY <1>1, ListUntouched
<1>7. PageTypeOK'  BY <1>1, <1>4, <1>5 DEF PageTypeOK
<1> QED  BY <1>5, <1>6, <1>7 DEF PageInv

\* The details of the review become the list.
LEMMA GotDetailsKeeps ==
  ASSUME PageInv, NEW c \in Connection, GotDetails(c)
  PROVE  PageInv'
<1>1. /\ PageTypeOK /\ CallsCarry /\ NothingKeptIsReplaced
      /\ InFlight(c) /\ About(c).what = "details" /\ calls[c].outcome = "ok"
      /\ Return(c) /\ list' = About(c).list /\ toShow' = TRUE
      /\ UNCHANGED <<source, contributionId, shown, fields, focus, dialog, left, kept>>
  BY DEF PageInv, GotDetails, Answered, Reached, Display
<1>2. calls[c] # NoCall /\ About(c) = calls[c].about  BY <1>1 DEF InFlight, About
<1>3. list' \in Seq(Edition) /\ \A i \in 1 .. Len(list') : list'[i].id = NoId
  <2>1. Carries(calls[c])  BY <1>1 DEF CallsCarry
  <2>2. About(c) \in Details /\ \A i \in 1 .. Len(About(c).list) : About(c).list[i].id = NoId
    BY <1>1, <1>2, <2>1 DEF Carries
  <2>3. About(c).list \in Seq(Edition)  BY <2>2 DEF Details
  <2> QED  BY <1>1, <2>2, <2>3
<1>4. UniqueIds' /\ IdsTellLabels'  BY <1>3 DEF UniqueIds, IdsTellLabels
<1>5. NoEditionForgotten'
  <2> SUFFICES ASSUME NEW l \in Label, OwnId(l), kept[l] # NoEdition  PROVE FALSE
    BY <1>1 DEF NoEditionForgotten, OwnId
  <2>1. Spares(calls[c], l)  BY <1>1 DEF NothingKeptIsReplaced
  <2> QED  BY <1>1, <1>2, <2>1 DEF Spares
<1>6. /\ calls' \in [Connection -> {NoCall} \cup PageCall]
      /\ CallsCarry' /\ NothingKeptIsReplaced'
  BY <1>1, ReturnKeeps
<1>7. PageTypeOK'  BY <1>1, <1>3, <1>6 DEF PageTypeOK
<1> QED  BY <1>4, <1>5, <1>6, <1>7 DEF PageInv

\* The answer to a submission clears the page.
LEMMA SubmittedKeeps ==
  ASSUME PageInv, NEW c \in Connection, Submitted(c)
  PROVE  PageInv'
<1>1. /\ PageTypeOK /\ CallsCarry /\ NothingKeptIsReplaced
      /\ InFlight(c) /\ About(c).what = "submit" /\ calls[c].outcome = "ok"
      /\ Return(c) /\ contributionId' = 0 /\ list' = <<>> /\ toShow' = TRUE
      /\ fields' = NoFields /\ focus' = NoFocus
      /\ UNCHANGED <<source, shown, dialog, left, kept>>
  BY DEF PageInv, Submitted, Answered, Reached, Display
<1>2. calls[c] # NoCall /\ About(c) = calls[c].about  BY <1>1 DEF InFlight, About
<1>3. UniqueIds' /\ IdsTellLabels'  BY <1>1 DEF UniqueIds, IdsTellLabels
<1>4. NoEditionForgotten'
  <2> SUFFICES ASSUME NEW l \in Label, OwnId(l), kept[l] # NoEdition  PROVE FALSE
    BY <1>1 DEF NoEditionForgotten, OwnId
  <2>1. Spares(calls[c], l)  BY <1>1 DEF NothingKeptIsReplaced
  <2> QED  BY <1>1, <1>2, <2>1 DEF Spares
<1>5. /\ calls' \in [Connection -> {NoCall} \cup PageCall]
      /\ CallsCarry' /\ NothingKeptIsReplaced'
  BY <1>1, ReturnKeeps
<1>6. fields' \in [Label -> Field] /\ list' \in Seq(Edition)
  <2>1. AnyValue \in Value  BY ContributionPageAssumption DEF AnyValue
  <2>2. NoField \in Field  BY <2>1 DEF NoField, Field
  <2>3. list' \in Seq(Edition)  BY <1>1
  <2> QED  BY <1>1, <2>2, <2>3 DEF NoFields
<1>7. PageTypeOK'  BY <1>1, <1>5, <1>6 DEF PageTypeOK
<1> QED  BY <1>3, <1>4, <1>5, <1>7 DEF PageInv

\* The user leaves the page.
LEMMA RejectedKeeps ==
  ASSUME PageInv, NEW c \in Connection, Rejected(c)
  PROVE  PageInv'
<1>1. /\ PageTypeOK /\ CallsCarry /\ NothingKeptIsReplaced
      /\ left' = TRUE /\ calls' = [d \in Connection |-> NoCall]
      /\ toShow' = FALSE /\ focus' = NoFocus /\ dialog' = "none"
      /\ UNCHANGED <<source, contributionId, list, shown, fields, kept>>
  BY DEF PageInv, Rejected
<1>2. UniqueIds' /\ IdsTellLabels' /\ NoEditionForgotten'  BY <1>1, ListUntouched
<1>3. calls' \in [Connection -> {NoCall} \cup PageCall]
      /\ \A d \in Connection : calls'[d] = calls[d] \/ calls'[d] = NoCall
  <2> HIDE DEF NoCall
  <2> QED  BY <1>1
<1>4. KeptShrinks  BY <1>1 DEF KeptShrinks
<1>5. CallsCarry' /\ NothingKeptIsReplaced'  BY <1>1, <1>3, <1>4, CallsEnd
<1>6. PageTypeOK'  BY <1>1, <1>3 DEF PageTypeOK
<1> QED  BY <1>2, <1>5, <1>6 DEF PageInv

\* The user is told of a failure, in a dialog that takes the focus from the field.
LEMMA FailedKeeps ==
  ASSUME PageInv, NEW c \in Connection, Failed(c)
  PROVE  PageInv'
<1>1. /\ PageTypeOK /\ CallsCarry /\ NothingKeptIsReplaced /\ Return(c)
      /\ calls \in [Connection -> {NoCall} \cup PageCall]
      /\ UNCHANGED <<source, contributionId, shown, fields, left>>
      /\ focus' \in {focus, NoFocus} /\ dialog' \in {dialog, "error"}
  BY DEF PageInv, PageTypeOK, Failed
<1>2. /\ list' \in Seq(Edition) /\ toShow' \in BOOLEAN
      /\ kept' \in [Label -> Value \cup {NoEdition}]
      /\ UniqueIds' /\ IdsTellLabels' /\ NoEditionForgotten'
      /\ Replacing => KeptShrinks
  <2>1. CASE UNCHANGED <<list, toShow, kept>>
    <3>1. UniqueIds' /\ IdsTellLabels' /\ NoEditionForgotten'  BY <2>1, ListUntouched
    <3> QED  BY <1>1, <2>1, <3>1 DEF PageTypeOK, KeptShrinks
  <2>2. CASE focus # NoFocus /\ SaveEdition(focus)
    <3>1. focus \in Label  BY <1>1, <2>2 DEF PageTypeOK
    <3> QED  BY <2>2, <3>1, SaveFacts DEF KeptShrinks
  <2> QED  BY <2>1, <2>2 DEF Failed
<1>3. /\ calls' \in [Connection -> {NoCall} \cup PageCall]
      /\ \A d \in Connection : calls'[d] = calls[d] \/ calls'[d] = NoCall
  BY <1>1, ReturnFacts
<1>4. CallsCarry' /\ NothingKeptIsReplaced'  BY <1>1, <1>2, <1>3, CallsEnd
<1>5. PageTypeOK'  BY <1>1, <1>2, <1>3 DEF PageTypeOK
<1> QED  BY <1>2, <1>4, <1>5 DEF PageInv

LEMMA PageStep == PageInv /\ [PageNext]_contributionVars => PageInv'
<1> SUFFICES ASSUME PageInv, [PageNext]_contributionVars  PROVE PageInv'  OBVIOUS
<1>1. CASE ShowList \/ PromptReject \/ CloseDialog \/ UNCHANGED contributionVars
  BY <1>1, PageKeeps
<1>2. CASE SendSearch  BY <1>2, SendSearchKeeps
<1>3. CASE SendSubmit  BY <1>3, SendSubmitKeeps
<1>4. CASE SendReject  BY <1>4, SendRejectKeeps
<1>5. ASSUME NEW i \in 1 .. Len(shown.list), RemoveEdition(shown.list[i])  PROVE PageInv'
  <2>1. PICK e : e = shown.list[i]  OBVIOUS
  <2>2. RemoveEdition(e)  BY <1>5, <2>1
  <2> QED  BY <2>2, RemoveKeeps
<1>6. ASSUME NEW l \in Label,
             \/ Focus(l) \/ ShiftEnter(l) \/ Blur(l) \/ Escape(l)
             \/ \E v \in Value : Type(l, v)
      PROVE  PageInv'
  BY <1>6, PageKeeps, SaveKeeps
<1>7. ASSUME NEW c \in Connection,
             \/ ServeRead(c) \/ ServeSubmit(c) \/ ServeReject(c) \/ Refuse(c) \/ LoseCall(c)
             \/ Found(c) \/ GotDetails(c) \/ Submitted(c) \/ Rejected(c) \/ Failed(c)
      PROVE  PageInv'
  BY <1>7, ServeReadKeeps, ServeSubmitKeeps, ServeRejectKeeps, LossKeeps, FoundKeeps,
     GotDetailsKeeps, SubmittedKeeps, RejectedKeeps, FailedKeeps
<1> QED  BY <1>1, <1>2, <1>3, <1>4, <1>5, <1>6, <1>7 DEF PageNext

\* The parts of the invariant are inductive together: an answer that replaces the list must
\* have nothing to forget, which the calls in flight tell (app/contribution.js).
THEOREM PageInvariant == PageSpec => []PageInv
<1>1. PageInit => PageInv  BY PageStart
<1>2. PageInv /\ [PageNext]_contributionVars => PageInv'  BY PageStep
<1> QED  BY <1>1, <1>2, PTL DEF PageSpec

-----------------------------------------------------------------------------
(* What the run checks, for any labels, values, ids of fields and calls.     *)

\* The state of the page keeps its types: in particular a restored field shows a value, and
\* each entry of the list is an edition (app/contribution.js:saveEdition,
\* prepareContributionList).
THEOREM PageTypesHold == PageSpec => []PageTypeOK
<1>1. PageInv => PageTypeOK  BY DEF PageInv
<1> QED  BY <1>1, PageInvariant, PTL

\* An id of a field has one entry in the list, whatever is saved, removed, submitted or
\* loaded in between (app/contribution.js:indexOfContribution, saveEdition).
THEOREM IdsAreUnique == PageSpec => []UniqueIds
<1>1. PageInv => UniqueIds  BY DEF PageInv
<1> QED  BY <1>1, PageInvariant, PTL

\* No edition that was saved while no answer was due that replaces the list is lost before
\* the server has it, for the labels whose field has an id of its own
\* (app/contribution.js:saveEdition, submitContributions).
THEOREM NothingSavedIsForgotten == PageSpec => []NoEditionForgotten
<1>1. PageInv => NoEditionForgotten  BY DEF PageInv
<1> QED  BY <1>1, PageInvariant, PTL
==============================================================================
