----------------------------- MODULE ListPageProofs -----------------------------
(***************************************************************************)
(* Proofs about the dynamic lists of the pages, for every list, every size *)
(* of the pages, and any number of calls in flight.                        *)
(***************************************************************************)
EXTENDS ListPage, SequenceTheorems, WellFoundedInduction, TLAPS

-----------------------------------------------------------------------------
(* Flattening a sequence of sequences.                                       *)

LEMMA Induction ==
  ASSUME NEW S, 0 \in S, \A n \in Nat : n \in S => n + 1 \in S
  PROVE  Nat \subseteq S
<1>1. SUFFICES ASSUME Nat \ S # {} PROVE FALSE  OBVIOUS
<1>2. PICK n \in Nat \ S : \A m \in Nat \ S : <<m, n>> \notin OpToRel(<, Nat)
  BY <1>1, NatLessThanWellFounded, WFMin
<1>3. \A m \in Nat \ S : ~(m < n)  BY <1>2 DEF OpToRel
<1>4. n # 0 /\ n - 1 \in Nat /\ n - 1 \in S  BY <1>3
<1> QED  BY <1>4

LEMMA LeastOfNaturals == ASSUME NEW S, S \subseteq Nat, S # {}  PROVE Min(S) \in S
<1>1. PICK n \in S : \A m \in S : <<m, n>> \notin OpToRel(<, Nat)
  BY NatLessThanWellFounded, WFMin
<1>2. ASSUME NEW m \in S  PROVE n <= m
  <2>1. m \in Nat /\ n \in Nat  OBVIOUS
  <2>2. <<m, n>> \notin OpToRel(<, Nat)  BY <1>1
  <2>3. ~(m < n)  BY <2>1, <2>2 DEF OpToRel
  <2> QED  BY <2>1, <2>3
<1> QED  BY <1>2 DEF Min

\* Concatenation, and the partial concatenations of a sequence of sequences.
Cat(s, t) == s \o t

Sums(n, s, f) == \A i \in 1 .. n : f[i] = IF i = 1 THEN s[1] ELSE Cat(f[i - 1], s[i])

LEMMA SumsOfFirst ==
  ASSUME NEW n \in Nat, NEW s, NEW f, n # 0, Sums(n, s, f)
  PROVE  f[1] = s[1]
  BY DEF Sums

LEMMA SumsOfNext ==
  ASSUME NEW n \in Nat, NEW s, NEW f, Sums(n, s, f), NEW i \in Nat, i # 0, i + 1 \in 1 .. n
  PROVE  f[i + 1] = Cat(f[i], s[i + 1])
<1>1. i + 1 # 1 /\ (i + 1) - 1 = i  OBVIOUS
<1> QED  BY <1>1 DEF Sums

LEMMA SumsExist ==
  ASSUME NEW U, \A u, v \in U : Cat(u, v) \in U, NEW n \in Nat, NEW s \in [1 .. n -> U]
  PROVE  \E f \in [1 .. n -> U] : Sums(n, s, f)
<1> DEFINE P(k) == k <= n => \E f \in [1 .. k -> U] : Sums(k, s, f)
           S == {k \in Nat : P(k)}
<1>1. 0 \in S
  <2>1. [i \in 1 .. 0 |-> s] \in [1 .. 0 -> U]  OBVIOUS
  <2>2. Sums(0, s, [i \in 1 .. 0 |-> s])  BY DEF Sums
  <2>3. \E f \in [1 .. 0 -> U] : Sums(0, s, f)  BY <2>1, <2>2
  <2> HIDE DEF Sums
  <2> QED  BY <2>3
<1>2. ASSUME NEW k \in Nat, k \in S  PROVE k + 1 \in S
  <2>1. SUFFICES ASSUME k + 1 <= n  PROVE \E f \in [1 .. k + 1 -> U] : Sums(k + 1, s, f)
    OBVIOUS
  <2>2. PICK g \in [1 .. k -> U] : Sums(k, s, g)  BY <1>2, <2>1
  <2> DEFINE last == IF k = 0 THEN s[1] ELSE Cat(g[k], s[k + 1])
             f == [i \in 1 .. k + 1 |-> IF i = k + 1 THEN last ELSE g[i]]
  <2>3. s[k + 1] \in U  BY <2>1
  <2>4. last \in U  BY <2>3
  <2> HIDE DEF last
  <2>5. f \in [1 .. k + 1 -> U]
    <3>1. \A i \in 1 .. k + 1 : i # k + 1 => i \in 1 .. k  OBVIOUS
    <3> QED  BY <2>4, <3>1
  <2>6. ASSUME NEW i \in 1 .. k + 1
        PROVE  f[i] = IF i = 1 THEN s[1] ELSE Cat(f[i - 1], s[i])
    <3>1. CASE i = k + 1  BY <3>1 DEF last
    <3>2. CASE i # k + 1
      <4>1. i \in 1 .. k /\ f[i] = g[i]  BY <3>2
      <4>2. i # 1 => f[i - 1] = g[i - 1]  BY <3>2
      <4> QED  BY <2>2, <4>1, <4>2 DEF Sums
    <3> QED  BY <3>1, <3>2
  <2> QED  BY <2>5, <2>6 DEF Sums
<1> HIDE DEF P
<1>3. Nat \subseteq S
  <2> HIDE DEF S
  <2> QED  BY <1>1, <1>2, Induction
<1>4. P(n)  BY <1>3
<1> QED  BY <1>4 DEF P

LEMMA SumsAgree ==
  ASSUME NEW n \in Nat, NEW m \in Nat, m <= n, NEW s, NEW t, \A i \in 1 .. m : s[i] = t[i],
         NEW f, NEW g, Sums(m, s, f), Sums(n, t, g)
  PROVE  \A i \in 1 .. m : f[i] = g[i]
<1> DEFINE P(k) == k \in 1 .. m => f[k] = g[k]
           S == {k \in Nat : P(k)}
<1>1. 0 \in S  OBVIOUS
<1>2. ASSUME NEW k \in Nat, k \in S  PROVE k + 1 \in S
  <2>1. SUFFICES ASSUME k + 1 \in 1 .. m  PROVE f[k + 1] = g[k + 1]  OBVIOUS
  <2>2. CASE k = 0  BY <2>1, <2>2, SumsOfFirst
  <2>3. CASE k # 0
    <3>1. f[k] = g[k]  BY <1>2, <2>1, <2>3
    <3>2. f[k + 1] = Cat(f[k], s[k + 1])  BY <2>1, <2>3, SumsOfNext
    <3>3. g[k + 1] = Cat(g[k], t[k + 1])  BY <2>1, <2>3, SumsOfNext
    <3> QED  BY <2>1, <3>1, <3>2, <3>3
  <2> QED  BY <2>2, <2>3
<1> HIDE DEF P
<1>3. Nat \subseteq S
  <2> HIDE DEF S
  <2> QED  BY <1>1, <1>2, Induction
<1> QED  BY <1>3 DEF P

SumsOver(U, n, s, f) ==
  n \in Nat /\ n # 0 /\ s \in [1 .. n -> U] /\ f \in [1 .. n -> U] /\ Sums(n, s, f)

\* Two sequences, of which one may be longer.
Agree(n, s, t) == \A i \in 1 .. n : s[i] = t[i]

\* One is the tail of the other.
Follows(n, s, t) == \A i \in 1 .. n : t[i] = s[i + 1]

Associative(U) == \A u, v, w \in U : Cat(Cat(u, v), w) = Cat(u, Cat(v, w))

LEMMA SumsOfAppend ==
  ASSUME NEW U, NEW s, NEW t, NEW n, NEW m, NEW f, NEW g,
         SumsOver(U, n, s, f), SumsOver(U, m, t, g), m = n + 1, Agree(n, s, t)
  PROVE  g[m] = Cat(f[n], t[m])
<1>1. /\ n \in Nat /\ n # 0 /\ m \in Nat /\ n <= m /\ n \in 1 .. n /\ n + 1 \in 1 .. m
      /\ Sums(n, s, f) /\ Sums(m, t, g)
  BY DEF SumsOver
<1>2. f[n] = g[n]  BY <1>1, SumsAgree DEF Agree
<1>3. g[n + 1] = Cat(g[n], t[n + 1])  BY <1>1, SumsOfNext
<1> QED  BY <1>2, <1>3

LEMMA AppendsAssociate == ASSUME NEW T  PROVE Associative(Seq(T))
<1> SUFFICES ASSUME NEW u \in Seq(T), NEW v \in Seq(T), NEW w \in Seq(T)
             PROVE  Cat(Cat(u, v), w) = Cat(u, Cat(v, w))
  BY DEF Associative
<1> QED  BY ConcatAssociative DEF Cat

\* The partial concatenations of a sequence after something else.
Prefixed(n, p, t, h) ==
  h[1] = Cat(p, t[1]) /\ \A i \in 1 .. n : i # 1 => h[i] = Cat(h[i - 1], t[i])

LEMMA SumsWithPrefix ==
  ASSUME NEW U, Associative(U), NEW n \in Nat, NEW p \in U, NEW t \in [1 .. n -> U],
         NEW g \in [1 .. n -> U], Sums(n, t, g), NEW h, Prefixed(n, p, t, h)
  PROVE  \A i \in 1 .. n : h[i] = Cat(p, g[i])
<1> DEFINE P(k) == k \in 1 .. n => h[k] = Cat(p, g[k])
           S == {k \in Nat : P(k)}
<1>1. 0 \in S  OBVIOUS
<1>2. ASSUME NEW k \in Nat, k \in S  PROVE k + 1 \in S
  <2>1. SUFFICES ASSUME k + 1 \in 1 .. n  PROVE h[k + 1] = Cat(p, g[k + 1])  OBVIOUS
  <2>2. CASE k = 0
    <3>1. g[1] = t[1]  BY <2>1, <2>2 DEF Sums
    <3> QED  BY <2>2, <3>1 DEF Prefixed
  <2>3. CASE k # 0
    <3>1. h[k] = Cat(p, g[k]) /\ g[k] \in U
      <4>1. k \in 1 .. n  BY <2>1, <2>3
      <4> QED  BY <1>2, <4>1
    <3>2. g[k + 1] = Cat(g[k], t[k + 1])
      <4>1. k + 1 # 1 /\ (k + 1) - 1 = k  BY <2>3
      <4> QED  BY <2>1, <4>1 DEF Sums
    <3>3. h[k + 1] = Cat(h[k], t[k + 1])
      <4>1. k + 1 # 1 /\ (k + 1) - 1 = k  BY <2>3
      <4> QED  BY <2>1, <4>1 DEF Prefixed
    <3>4. Cat(Cat(p, g[k]), t[k + 1]) = Cat(p, Cat(g[k], t[k + 1]))
      <4>1. t[k + 1] \in U  BY <2>1
      <4> QED  BY <3>1, <4>1 DEF Associative
    <3> QED  BY <3>1, <3>2, <3>3, <3>4
  <2> QED  BY <2>2, <2>3
<1> HIDE DEF P
<1>3. Nat \subseteq S
  <2> HIDE DEF S
  <2> QED  BY <1>1, <1>2, Induction
<1> QED  BY <1>3 DEF P

LEMMA SumsOfTail ==
  ASSUME NEW U, Associative(U), NEW s, NEW t, NEW n, NEW m, NEW f, NEW g,
         SumsOver(U, m, s, f), SumsOver(U, n, t, g), m = n + 1, Follows(n, s, t)
  PROVE  f[m] = Cat(s[1], g[n])
<1>0. /\ n \in Nat /\ n # 0 /\ m \in Nat /\ m # 0 /\ m = n + 1 /\ Sums(m, s, f) /\ Sums(n, t, g)
      /\ s \in [1 .. m -> U] /\ t \in [1 .. n -> U] /\ g \in [1 .. n -> U]
  BY DEF SumsOver
<1> DEFINE h == [i \in 1 .. n |-> f[i + 1]]
<1>1. f[1] = s[1]
  <2>1. 1 \in 1 .. m  BY <1>0
  <2> QED  BY <1>0, <2>1 DEF Sums
<1>2. h[1] = Cat(s[1], t[1])
  <2>1. f[1 + 1] = Cat(f[1], s[1 + 1])
    <3>1. 1 + 1 \in 1 .. m /\ m \in Nat  BY <1>0
    <3> QED  BY <1>0, <3>1, SumsOfNext
  <2>2. 1 \in 1 .. n  BY <1>0
  <2>3. t[1] = s[1 + 1] /\ h[1] = f[1 + 1]  BY <1>0, <2>2 DEF Follows
  <2> QED  BY <1>1, <2>1, <2>3
<1>3. ASSUME NEW i \in 1 .. n, i # 1  PROVE h[i] = Cat(h[i - 1], t[i])
  <2>1. i + 1 \in 1 .. m /\ m \in Nat /\ i \in Nat /\ i # 0  BY <1>0
  <2>2. f[i + 1] = Cat(f[i], s[i + 1])  BY <1>0, <2>1, SumsOfNext
  <2>3. h[i - 1] = f[i]
    <3>1. i - 1 \in 1 .. n /\ (i - 1) + 1 = i  BY <1>0, <1>3
    <3> QED  BY <1>0, <3>1
  <2>4. t[i] = s[i + 1] /\ h[i] = f[i + 1]  BY <1>0 DEF Follows
  <2> QED  BY <2>2, <2>3, <2>4
<1> HIDE DEF h
<1>4. s[1] \in U  BY <1>0
<1>5. \A i \in 1 .. n : h[i] = Cat(s[1], g[i])
  <2>1. Prefixed(n, s[1], t, h)  BY <1>2, <1>3 DEF Prefixed
  <2> QED  BY <1>0, <1>4, <2>1, SumsWithPrefix
<1>6. n \in 1 .. n /\ h[n] = f[m]  BY <1>0 DEF h
<1> QED  BY <1>5, <1>6

\* FlattenSeq is the last of them.
LEMMA FlattenIsLastSum ==
  ASSUME NEW s, NEW n \in Nat, n # 0, Len(s) = n, NEW f, DOMAIN f = 1 .. n,
         f = [i \in 1 .. n |-> f[i]], Sums(n, s, f)
  PROVE  FlattenSeq(s) = f[n]
<1> DEFINE Step(h) == [i \in 1 .. n |-> IF i = 1 THEN s[i] ELSE h[i - 1] \o s[i]]
           flat == CHOOSE h : h = Step(h)
<1>1. FlattenSeq(s) = flat[n]  BY DEF FlattenSeq
<1>2. f = Step(f)
  <2>1. \A i \in 1 .. n : f[i] = Step(f)[i]  BY DEF Sums, Cat
  <2> QED  BY <2>1
<1>3. flat = Step(flat)
  <2> HIDE DEF Step
  <2> QED  BY <1>2
<1>4. Sums(n, s, flat)
  <2> HIDE DEF flat
  <2>1. \A i \in 1 .. n : Step(flat)[i] = IF i = 1 THEN s[1] ELSE Cat(flat[i - 1], s[i])
    BY DEF Cat
  <2> HIDE DEF Step
  <2> QED  BY <1>3, <2>1 DEF Sums
<1> HIDE DEF flat
<1>5. n <= n /\ n \in 1 .. n  OBVIOUS
<1>6. flat[n] = f[n]  BY <1>4, <1>5, SumsAgree
<1> QED  BY <1>1, <1>6

LEMMA FlattenEmpty == FlattenSeq(<<>>) = <<>>
<1>1. Len(<<>>) = 0  OBVIOUS
<1> QED  BY <1>1 DEF FlattenSeq

LEMMA FlattenSums ==
  ASSUME NEW T, NEW s \in Seq(Seq(T)), s # <<>>
  PROVE  \E f : SumsOver(Seq(T), Len(s), s, f) /\ FlattenSeq(s) = f[Len(s)]
<1>1. PICK n \in Nat : n = Len(s) /\ n # 0 /\ s \in [1 .. n -> Seq(T)]  OBVIOUS
<1>2. \A u, v \in Seq(T) : Cat(u, v) \in Seq(T)  BY DEF Cat
<1>3. PICK f \in [1 .. n -> Seq(T)] : Sums(n, s, f)  BY <1>1, <1>2, SumsExist
<1>4. f = [i \in 1 .. n |-> f[i]] /\ DOMAIN f = 1 .. n  OBVIOUS
<1>5. FlattenSeq(s) = f[n]  BY <1>1, <1>3, <1>4, FlattenIsLastSum
<1>6. SumsOver(Seq(T), n, s, f)  BY <1>1, <1>3 DEF SumsOver
<1> QED  BY <1>1, <1>5, <1>6

LEMMA FlattenType ==
  ASSUME NEW T, NEW s \in Seq(Seq(T))
  PROVE  FlattenSeq(s) \in Seq(T)
<1>1. CASE s = <<>>
  <2>1. <<>> \in Seq(T)  OBVIOUS
  <2> QED  BY <1>1, <2>1, FlattenEmpty, Zenon
<1>2. CASE s # <<>>
  <2>1. PICK f : SumsOver(Seq(T), Len(s), s, f) /\ FlattenSeq(s) = f[Len(s)]
    BY <1>2, FlattenSums
  <2>2. f[Len(s)] \in Seq(T)  BY <2>1 DEF SumsOver
  <2> QED  BY <2>1, <2>2
<1> QED  BY <1>1, <1>2

LEMMA FlattenAppend ==
  ASSUME NEW T, NEW s \in Seq(Seq(T)), NEW x \in Seq(T)
  PROVE  FlattenSeq(Append(s, x)) = FlattenSeq(s) \o x
<1> DEFINE t == Append(s, x)
<1>1. t \in Seq(Seq(T)) /\ t # <<>> /\ Len(t) = Len(s) + 1 /\ t[Len(t)] = x /\ Agree(Len(s), s, t)
  <2>1. t \in Seq(Seq(T)) /\ t # <<>> /\ Len(t) = Len(s) + 1 /\ Len(s) \in Nat
        /\ (\A i \in 1 .. Len(s) : t[i] = s[i]) /\ t[Len(t)] = x
    BY AppendProperties, LenProperties
  <2> QED  BY <2>1 DEF Agree
<1> HIDE DEF t
<1>2. PICK g : SumsOver(Seq(T), Len(t), t, g) /\ FlattenSeq(t) = g[Len(t)]
  BY <1>1, FlattenSums
<1>3. CASE s = <<>>
  <2>1. Len(t) = 1  BY <1>1, <1>3
  <2>2. g[1] = t[1]  BY <1>2, <2>1, SumsOfFirst DEF SumsOver
  <2> QED  BY <1>1, <1>2, <1>3, <2>1, <2>2, FlattenEmpty, ConcatEmptySeq DEF t
<1>4. CASE s # <<>>
  <2>1. PICK f : SumsOver(Seq(T), Len(s), s, f) /\ FlattenSeq(s) = f[Len(s)]
    BY <1>4, FlattenSums
  <2>2. g[Len(t)] = Cat(f[Len(s)], t[Len(t)])
    <3> DEFINE U == Seq(T)
               n == Len(s)
               m == Len(t)
    <3>1. SumsOver(U, n, s, f) /\ SumsOver(U, m, t, g) /\ m = n + 1 /\ Agree(n, s, t)
      BY <1>1, <1>2, <2>1
    <3> HIDE DEF U, n, m
    <3>2. g[m] = Cat(f[n], t[m])  BY <3>1, SumsOfAppend
    <3> QED  BY <3>2 DEF n, m
  <2> QED  BY <1>1, <1>2, <2>1, <2>2 DEF t, Cat
<1> QED  BY <1>3, <1>4

LEMMA FlattenTail ==
  ASSUME NEW T, NEW s \in Seq(Seq(T)), s # <<>>
  PROVE  FlattenSeq(s) = Head(s) \o FlattenSeq(Tail(s))
<1> DEFINE t == Tail(s)
<1>1. t \in Seq(Seq(T)) /\ Len(s) = Len(t) + 1 /\ Head(s) = s[1] /\ s[1] \in Seq(T)
      /\ Follows(Len(t), s, t)
  <2>1. t \in Seq(Seq(T)) /\ Len(t) = Len(s) - 1 /\ Head(s) = s[1] /\ s[1] \in Seq(T)
        /\ Len(s) \in Nat /\ \A i \in 1 .. Len(t) : t[i] = s[i + 1]
    OBVIOUS
  <2> QED  BY <2>1 DEF Follows
<1> HIDE DEF t
<1>2. PICK f : SumsOver(Seq(T), Len(s), s, f) /\ FlattenSeq(s) = f[Len(s)]
  BY FlattenSums
<1>3. CASE t = <<>>
  <2>1. Len(s) = 1  BY <1>1, <1>3
  <2>2. f[1] = s[1]  BY <1>2, <2>1, SumsOfFirst DEF SumsOver
  <2> QED  BY <1>1, <1>2, <1>3, <2>1, <2>2, FlattenEmpty, ConcatEmptySeq DEF t
<1>4. CASE t # <<>>
  <2>1. t \in Seq(Seq(T)) /\ t # <<>>  BY <1>1, <1>4
  <2>2. PICK g : SumsOver(Seq(T), Len(t), t, g) /\ FlattenSeq(t) = g[Len(t)]
    BY <2>1, FlattenSums
  <2>3. f[Len(s)] = Cat(s[1], g[Len(t)])
    <3> DEFINE U == Seq(T)
               n == Len(t)
               m == Len(s)
    <3>1. SumsOver(U, m, s, f) /\ SumsOver(U, n, t, g) /\ m = n + 1 /\ Follows(n, s, t)
          /\ Associative(U)
      BY <1>1, <1>2, <2>2, AppendsAssociate
    <3> HIDE DEF U, n, m
    <3>2. f[m] = Cat(s[1], g[n])  BY <3>1, SumsOfTail
    <3> QED  BY <3>2 DEF n, m
  <2> QED  BY <1>1, <1>2, <2>2, <2>3 DEF t, Cat
<1> QED  BY <1>3, <1>4

-----------------------------------------------------------------------------
(* The inductive invariant.                                                  *)

\* Nothing happens before the section is in the page.
NothingBeforeStart ==
  ~started => /\ \A c \in Connection : Free(c)
              /\ rendering = <<>> /\ rows = <<>> /\ offset = 0 /\ ~moreShown

\* A list that is loaded as a whole replaces the table.
WholeListReplaces ==
  ~more => /\ ~moreShown
           /\ \A c \in Connection : Is(c, "GET") => ~About(c).append
           /\ \A i \in 1 .. Len(rendering) : ~rendering[i].append

\* The page that starts a table is the first one to be asked for, and to be rendered.
FirstPageFirst ==
  more => /\ \A c \in Connection : ~Is(c, "DELETE")
          /\ \A c \in Connection : Is(c, "GET") /\ ~About(c).append =>
               /\ rendering = <<>> /\ rows = <<>> /\ offset = 0 /\ ~moreShown
               /\ \A d \in Connection : d # c => Free(d)
          /\ \A i \in 1 .. Len(rendering) : ~rendering[i].append => i = 1 /\ rows = <<>>

\* While the list does not change and every load succeeds, the next page is the one that
\* is asked for, once, and the button is there as long as there is one.
NextPageNext ==
  paged /\ clean =>
    /\ offset <= Len(listing)
    /\ \A c \in Connection : Is(c, "GET") =>
         /\ About(c).offset = offset
         /\ calls[c].outcome = "ok" => About(c).items = Page(offset)
         /\ \A d \in Connection : Is(d, "GET") => d = c
    /\ ~moreShown /\ offset # 0 => offset = Len(listing)

\* So that the page has the first items of the list.
FirstItemsReceived == paged /\ clean => Received = SubSeq(listing, 1, offset)

\* A list that does not come page by page, though the page asks for it so, comes whole
\* with each answer; while there is no button it came once.
WholeAtOnce ==
  more /\ ~paged /\ clean =>
    /\ \A c \in Connection : Is(c, "GET") =>
         /\ calls[c].outcome = "ok" => About(c).items = listing
         /\ \A d \in Connection : Is(d, "GET") => d = c
    /\ \/ Received = <<>> /\ ~moreShown
       \/ Received = listing /\ ~moreShown /\ \A c \in Connection : ~Is(c, "GET")
       \/ moreShown /\ PageSize <= Len(listing)

ListInv ==
  /\ ListTypeOK /\ NothingBeforeStart /\ WholeListReplaces /\ OneHandlerPerButton
  /\ FirstPageFirst /\ OffsetCountsRows /\ NextPageNext /\ FirstItemsReceived /\ WholeAtOnce


-----------------------------------------------------------------------------
(* What the page has received.                                               *)

Parts(r) == [i \in 1 .. Len(r) |-> r[i].items]

LEMMA PartsType ==
  ASSUME NEW r \in Seq(PendingPage)
  PROVE  Parts(r) \in Seq(Seq(Item)) /\ Len(Parts(r)) = Len(r)
<1>1. ASSUME NEW i \in 1 .. Len(r)  PROVE r[i].items \in Seq(Item)
  <2>1. r[i] \in PendingPage  BY ElementOfSeq
  <2> QED  BY <2>1 DEF PendingPage
<1> QED  BY <1>1 DEF Parts

LEMMA ReceivedType ==
  ASSUME ListTypeOK
  PROVE  Received \in Seq(Item) /\ FlattenSeq(Parts(rendering)) \in Seq(Item)
<1>1. rendering \in Seq(PendingPage) /\ rows \in Seq(Item)  BY DEF ListTypeOK
<1>2. FlattenSeq(Parts(rendering)) \in Seq(Item)  BY <1>1, PartsType, FlattenType
<1>3. Received = rows \o FlattenSeq(Parts(rendering))  BY DEF Received, Parts
<1> HIDE DEF Parts
<1> QED  BY <1>1, <1>2, <1>3

LEMMA ReceivedNothing ==
  ASSUME rows = <<>>, rendering = <<>>
  PROVE  Received = <<>>
<1>1. Parts(rendering) = <<>>  BY DEF Parts
<1>2. FlattenSeq(Parts(rendering)) = <<>>  BY <1>1, FlattenEmpty
<1>3. Received = <<>> \o <<>>  BY <1>2 DEF Received, Parts
<1> QED  BY <1>3

LEMMA ReceivedMore ==
  ASSUME ListTypeOK, NEW page \in PendingPage,
         rendering' = Append(rendering, page), rows' = rows
  PROVE  Received' = Received \o page.items
<1> DEFINE flat == FlattenSeq(Parts(rendering))
<1>1. rendering \in Seq(PendingPage) /\ rows \in Seq(Item)  BY DEF ListTypeOK
<1>2. page.items \in Seq(Item)  BY DEF PendingPage
<1>3. Parts(rendering') = Append(Parts(rendering), page.items)
  <2> DEFINE r == Append(rendering, page)
  <2>1. Len(r) = Len(rendering) + 1 /\ r[Len(rendering) + 1] = page
        /\ \A i \in 1 .. Len(rendering) : r[i] = rendering[i]
    BY <1>1, AppendProperties
  <2>2. Parts(rendering) \in Seq(Seq(Item)) /\ Len(Parts(rendering)) = Len(rendering)
    BY <1>1, PartsType
  <2> HIDE DEF r
  <2>3. Parts(r) = Append(Parts(rendering), page.items)
    <3>1. r \in Seq(PendingPage)  BY <1>1, AppendProperties DEF r
    <3>2. Parts(r) \in Seq(Seq(Item)) /\ Len(Parts(r)) = Len(r)  BY <3>1, PartsType
    <3>3. ASSUME NEW i \in 1 .. Len(rendering) + 1
          PROVE  Parts(r)[i] = Append(Parts(rendering), page.items)[i]
      <4>1. Parts(r)[i] = r[i].items  BY <2>1, <3>3 DEF Parts
      <4>2. CASE i = Len(rendering) + 1
        <5>1. Append(Parts(rendering), page.items)[i] = page.items
          BY <1>2, <2>2, <4>2, AppendProperties
        <5> QED  BY <2>1, <4>1, <4>2, <5>1
      <4>3. CASE i # Len(rendering) + 1
        <5>1. i \in 1 .. Len(rendering)  BY <1>1, <4>3, LenProperties
        <5>2. Append(Parts(rendering), page.items)[i] = Parts(rendering)[i]
          BY <1>2, <2>2, <5>1, AppendProperties
        <5>3. Parts(rendering)[i] = rendering[i].items  BY <5>1 DEF Parts
        <5> QED  BY <2>1, <4>1, <5>1, <5>2, <5>3
      <4> QED  BY <4>2, <4>3
    <3>4. /\ Append(Parts(rendering), page.items) \in Seq(Seq(Item))
          /\ Len(Append(Parts(rendering), page.items)) = Len(rendering) + 1
      BY <1>2, <2>2, AppendProperties
    <3> QED  BY <2>1, <3>2, <3>3, <3>4, SeqEqual
  <2> QED  BY <2>3 DEF r
<1>4. FlattenSeq(Parts(rendering')) = flat \o page.items
  BY <1>1, <1>2, <1>3, PartsType, FlattenAppend
<1>5. Received = rows \o flat /\ Received' = rows' \o FlattenSeq(Parts(rendering'))
  BY DEF Received, Parts
<1>6. flat \in Seq(Item)  BY ReceivedType
<1> HIDE DEF flat
<1>7. rows \o (flat \o page.items) = (rows \o flat) \o page.items
  <2>1. Cat(rows, Cat(flat, page.items)) = Cat(Cat(rows, flat), page.items)
    BY <1>1, <1>2, <1>6, AppendsAssociate DEF Associative
  <2> QED  BY <2>1 DEF Cat
<1> QED  BY <1>4, <1>5, <1>7

LEMMA ReceivedRendered ==
  ASSUME ListTypeOK, rendering # <<>>, rendering' = Tail(rendering),
         rows' = rows \o Head(rendering).items
  PROVE  Received' = Received
<1> DEFINE flat == FlattenSeq(Parts(rendering))
           rest == FlattenSeq(Parts(Tail(rendering)))
           items == Head(rendering).items
<1>1. rendering \in Seq(PendingPage) /\ rows \in Seq(Item)  BY DEF ListTypeOK
<1>2. Tail(rendering) \in Seq(PendingPage) /\ Head(rendering) \in PendingPage
      /\ Head(rendering) = rendering[1]
      /\ Len(Tail(rendering)) = Len(rendering) - 1 /\ Len(rendering) \in Nat /\ Len(rendering) # 0
      /\ \A i \in 1 .. Len(Tail(rendering)) : Tail(rendering)[i] = rendering[i + 1]
  BY <1>1
<1>3. items \in Seq(Item)  BY <1>2 DEF PendingPage
<1>4. /\ Parts(rendering) \in Seq(Seq(Item)) /\ Len(Parts(rendering)) = Len(rendering)
      /\ Parts(Tail(rendering)) \in Seq(Seq(Item))
      /\ Len(Parts(Tail(rendering))) = Len(rendering) - 1
  BY <1>1, <1>2, PartsType
<1>5. Parts(rendering) # <<>> /\ Head(Parts(rendering)) = items
  <2>1. Parts(rendering) # <<>> /\ Head(Parts(rendering)) = Parts(rendering)[1]  BY <1>2, <1>4
  <2>2. 1 \in 1 .. Len(rendering)  BY <1>2
  <2>3. Parts(rendering)[1] = rendering[1].items  BY <2>2 DEF Parts
  <2> QED  BY <1>2, <2>1, <2>3
<1>6. Tail(Parts(rendering)) = Parts(Tail(rendering))
  <2> DEFINE t == Tail(Parts(rendering))
             u == Parts(Tail(rendering))
  <2>1. t \in Seq(Seq(Item)) /\ Len(t) = Len(rendering) - 1
        /\ \A i \in 1 .. Len(t) : t[i] = Parts(rendering)[i + 1]
    BY <1>4, <1>5, HeadTailProperties
  <2>2. ASSUME NEW i \in 1 .. Len(rendering) - 1  PROVE t[i] = u[i]
    <3>1. i + 1 \in 1 .. Len(rendering) /\ i \in 1 .. Len(Tail(rendering)) /\ i \in 1 .. Len(t)
      BY <1>2, <2>1
    <3>2. t[i] = rendering[i + 1].items
      <4>1. t[i] = Parts(rendering)[i + 1]  BY <2>1, <3>1
      <4> QED  BY <3>1, <4>1 DEF Parts
    <3>3. u[i] = Tail(rendering)[i].items  BY <3>1 DEF Parts
    <3> QED  BY <1>2, <3>1, <3>2, <3>3
  <2>3. u \in Seq(Seq(Item)) /\ Len(u) = Len(rendering) - 1  BY <1>4
  <2> HIDE DEF t, u
  <2>4. t = u  BY <2>1, <2>2, <2>3, SeqEqual
  <2> QED  BY <2>4 DEF t, u
<1>7. flat = items \o rest  BY <1>4, <1>5, <1>6, FlattenTail
<1>8. rest \in Seq(Item)  BY <1>4, FlattenType
<1>9. Received = rows \o flat /\ Received' = rows' \o rest
  BY DEF Received, Parts
<1> HIDE DEF flat, rest, items
<1>10. rows \o (items \o rest) = (rows \o items) \o rest
  <2>1. Cat(rows, Cat(items, rest)) = Cat(Cat(rows, items), rest)
    BY <1>1, <1>3, <1>8, AppendsAssociate DEF Associative
  <2> QED  BY <2>1 DEF Cat
<1>11. rows' = rows \o items  BY DEF items
<1> QED  BY <1>7, <1>9, <1>10, <1>11

\* The pages of the server.
LEMMA PageFacts ==
  ASSUME ListTypeOK, NEW from \in Nat
  PROVE  /\ Page(from) \in Seq(Item)
         /\ ~paged => Page(from) = listing
         /\ paged /\ from <= Len(listing) =>
              /\ from + Len(Page(from)) <= Len(listing)
              /\ Page(from) = SubSeq(listing, from + 1, from + Len(Page(from)))
              /\ Len(Page(from)) < PageSize => from + Len(Page(from)) = Len(listing)
<1> DEFINE last == IF from + PageSize < Len(listing) THEN from + PageSize ELSE Len(listing)
<1>1. listing \in Seq(Item) /\ Len(listing) \in Nat  BY DEF ListTypeOK
<1>2. last \in Nat /\ last <= Len(listing)  BY <1>1, ListAssumption
<1>3. from <= Len(listing) => from <= last /\ (last < from + PageSize => last = Len(listing))
  BY <1>1, ListAssumption
<1>4. CASE paged
  <2>1. Page(from) = SubSeq(listing, from + 1, last)  BY <1>4 DEF Page
  <2> HIDE DEF last
  <2>2. \A i \in from + 1 .. last : listing[i] \in Item
    <3>1. \A i \in from + 1 .. last : i \in 1 .. Len(listing)  BY <1>1, <1>2
    <3> QED  BY <1>1, <3>1, ElementOfSeq
  <2>3. /\ SubSeq(listing, from + 1, last) \in Seq(Item)
        /\ Len(SubSeq(listing, from + 1, last)) =
             IF from + 1 <= last THEN last - (from + 1) + 1 ELSE 0
    BY <1>2, <2>2, SubSeqProperties
  <2>4. from <= last => from + Len(Page(from)) = last  BY <1>2, <2>1, <2>3
  <2>5. Len(Page(from)) \in Nat  BY <2>1, <2>3
  <2> QED  BY <1>1, <1>2, <1>3, <1>4, <2>1, <2>3, <2>4, <2>5, ListAssumption
<1>5. CASE ~paged  BY <1>1, <1>5 DEF Page
<1> QED  BY <1>4, <1>5


-----------------------------------------------------------------------------
(* The calls.                                                                *)

LEMMA CallCases ==
  ASSUME ListTypeOK, NEW c \in Connection
  PROVE  \/ calls[c] = NoCall /\ Free(c) /\ ~InFlight(c) /\ ~Is(c, "GET") /\ ~Is(c, "DELETE")
         \/ calls[c] \in LoadCall /\ ~Free(c) /\ InFlight(c) /\ Is(c, "GET") /\ ~Is(c, "DELETE")
         \/ calls[c] \in DeleteCall /\ ~Free(c) /\ InFlight(c) /\ Is(c, "DELETE") /\ ~Is(c, "GET")
<1>1. calls[c] \in {NoCall} \cup LoadCall \cup DeleteCall  BY DEF ListTypeOK
<1>2. \A call \in LoadCall : call.method = "GET" /\ call # NoCall
  BY DEF LoadCall, NoCall
<1>3. \A call \in DeleteCall : call.method = "DELETE" /\ call # NoCall
  BY DEF DeleteCall, NoCall
<1> QED  BY <1>1, <1>2, <1>3 DEF Free, Is, InFlight

\* What a connection is used for, from its call.
LEMMA CallKinds ==
  /\ \A call \in LoadCall : call.method = "GET" /\ call # NoCall /\ call.about \in LoadAbout
  /\ \A call \in DeleteCall : call.method = "DELETE" /\ call # NoCall /\ call.about.item \in Item
  BY DEF LoadCall, DeleteCall, NoCall

LEMMA SendFacts ==
  ASSUME ListTypeOK, NEW call \in LoadCall \cup DeleteCall, Send(call)
  PROVE  \E c \in Connection : /\ Free(c) /\ calls' = [calls EXCEPT ![c] = call]
                               /\ calls'[c] = call
                               /\ \A d \in Connection : d # c => calls'[d] = calls[d]
                               /\ calls' \in [Connection -> {NoCall} \cup LoadCall \cup DeleteCall]
<1> DEFINE c == CHOOSE d \in Connection : Free(d)
<1>1. c \in Connection /\ Free(c)  BY DEF Send
<1>2. calls' = [calls EXCEPT ![c] = call]  BY DEF Send
<1>3. calls \in [Connection -> {NoCall} \cup LoadCall \cup DeleteCall]  BY DEF ListTypeOK
<1> HIDE DEF c
<1>4. calls' \in [Connection -> {NoCall} \cup LoadCall \cup DeleteCall]  BY <1>1, <1>2, <1>3
<1>5. calls'[c] = call /\ \A d \in Connection : d # c => calls'[d] = calls[d]
  BY <1>1, <1>2, <1>3
<1> QED  BY <1>1, <1>2, <1>4, <1>5

LEMMA LoadFacts ==
  ASSUME NEW append \in BOOLEAN, NEW from \in Nat
  PROVE  /\ Load(append, from) \in LoadCall
         /\ Load(append, from).method = "GET" /\ Load(append, from).outcome = "pending"
         /\ Load(append, from).about.append = append
         /\ Load(append, from).about.offset = from
<1>1. <<>> \in Seq(Item)  OBVIOUS
<1> QED  BY <1>1 DEF Load, Get, Call, LoadCall, LoadAbout, Outcome

LEMMA OutcomeFacts ==
  ASSUME NEW call \in LoadCall \cup DeleteCall, NEW outcome \in Outcome, NEW g,
         g = [call EXCEPT !.outcome = outcome]
  PROVE  /\ g \in LoadCall \cup DeleteCall
         /\ g.method = call.method /\ g.about = call.about /\ g.outcome = outcome
<1>1. CASE call \in LoadCall  BY <1>1 DEF LoadCall
<1>2. CASE call \in DeleteCall  BY <1>2 DEF DeleteCall
<1> QED  BY <1>1, <1>2

LEMMA ItemsFacts ==
  ASSUME NEW call \in LoadCall, NEW items \in Seq(Item), NEW g, g = [call EXCEPT !.about.items = items]
  PROVE  /\ g \in LoadCall /\ g.outcome = call.outcome
         /\ g.about.append = call.about.append /\ g.about.offset = call.about.offset
         /\ g.about.items = items
<1>1. PICK a : a = [call.about EXCEPT !.items = items]  OBVIOUS
<1>2. g = [call EXCEPT !.about = a]  BY <1>1
<1>3. call.about \in LoadAbout  BY DEF LoadCall
<1>4. /\ a \in LoadAbout /\ a.items = items
      /\ a.append = call.about.append /\ a.offset = call.about.offset
  BY <1>1, <1>3 DEF LoadAbout
<1>5. g \in LoadCall /\ g.outcome = call.outcome /\ g.about = a  BY <1>2, <1>4 DEF LoadCall
<1> QED  BY <1>4, <1>5

\* A call that stays in flight keeps what it is about, and gets no page.
Shrunk(c) ==
  \/ calls'[c] = calls[c]
  \/ calls'[c] = NoCall
  \/ /\ calls'[c] \in LoadCall \cup DeleteCall /\ calls[c] \in LoadCall \cup DeleteCall
     /\ calls'[c].method = calls[c].method /\ calls'[c].about = calls[c].about
     /\ calls'[c].outcome = "ok" => ~Is(c, "GET")

LEMMA ServeFacts ==
  ASSUME ListTypeOK, NEW c \in Connection, InFlight(c), NEW outcome \in Outcome, Serve(c, outcome),
         outcome = "ok" => ~Is(c, "GET")
  PROVE  /\ calls' \in [Connection -> {NoCall} \cup LoadCall \cup DeleteCall]
         /\ \A d \in Connection : Shrunk(d)
<1>1. calls[c] \in LoadCall \cup DeleteCall  BY CallCases DEF Free, InFlight
<1>2. calls \in [Connection -> {NoCall} \cup LoadCall \cup DeleteCall]  BY DEF ListTypeOK
<1>3. PICK g : g = [calls[c] EXCEPT !.outcome = outcome]  OBVIOUS
<1>4. calls' = [calls EXCEPT ![c] = g]  BY <1>3 DEF Serve
<1>5. /\ g \in LoadCall \cup DeleteCall
      /\ g.method = calls[c].method /\ g.about = calls[c].about /\ g.outcome = outcome
  BY <1>1, <1>3, OutcomeFacts
<1>6. calls'[c] = g /\ \A d \in Connection : d # c => calls'[d] = calls[d]  BY <1>2, <1>4
<1>7. \A d \in Connection : Shrunk(d)  BY <1>1, <1>5, <1>6 DEF Shrunk
<1>8. calls' \in [Connection -> {NoCall} \cup LoadCall \cup DeleteCall]  BY <1>2, <1>4, <1>5
<1> QED  BY <1>7, <1>8

LEMMA ReturnFacts ==
  ASSUME ListTypeOK, NEW c \in Connection, Return(c)
  PROVE  /\ calls' \in [Connection -> {NoCall} \cup LoadCall \cup DeleteCall]
         /\ \A d \in Connection : Shrunk(d) /\ (d # c => calls'[d] = calls[d])
         /\ calls'[c] = NoCall
<1>1. calls \in [Connection -> {NoCall} \cup LoadCall \cup DeleteCall]  BY DEF ListTypeOK
<1>2. calls' = [calls EXCEPT ![c] = NoCall]  BY DEF Return
<1>3. calls'[c] = NoCall /\ \A d \in Connection : d # c => calls'[d] = calls[d]  BY <1>1, <1>2
<1>4. calls' \in [Connection -> {NoCall} \cup LoadCall \cup DeleteCall]  BY <1>1, <1>2
<1> QED  BY <1>3, <1>4 DEF Shrunk

LEMMA ShrunkFacts ==
  ASSUME ListTypeOK, NEW c \in Connection, Shrunk(c)
  PROVE  /\ Free(c) => Free(c)'
         /\ Is(c, "DELETE")' => Is(c, "DELETE")
         /\ Is(c, "GET")' => /\ Is(c, "GET") /\ About(c)' = About(c)
                             /\ (calls'[c].outcome = "ok" => calls[c].outcome = "ok")
<1>1. CASE calls'[c] = calls[c]  BY <1>1 DEF Free, Is, InFlight, About
<1>2. CASE calls'[c] = NoCall  BY <1>2 DEF Free, Is, InFlight
<1>3. CASE /\ calls'[c] \in LoadCall \cup DeleteCall /\ calls[c] \in LoadCall \cup DeleteCall
           /\ calls'[c].method = calls[c].method /\ calls'[c].about = calls[c].about
           /\ calls'[c].outcome = "ok" => ~Is(c, "GET")
  <2>1. calls[c] # NoCall /\ calls'[c] # NoCall  BY <1>3, CallKinds
  <2> QED  BY <1>3, <2>1 DEF Free, Is, InFlight, About
<1> QED  BY <1>1, <1>2, <1>3 DEF Shrunk

LEMMA LoadingFacts ==
  ASSUME NEW el \in Element, NEW show \in BOOLEAN
  PROVE  ShowLoading(el, "container", show) \in Element
<1>1. ShowLoading(el, "container", show) = [el EXCEPT !.loading = show]  BY DEF ShowLoading
<1>2. [el EXCEPT !.loading = show] \in Element  BY DEF Element
<1> QED  BY <1>1, <1>2

LEMMA WithoutType ==
  ASSUME ListTypeOK, NEW item
  PROVE  Without(item) \in Seq(Item)
<1>1. listing \in Seq(Item) /\ Len(listing) \in Nat  BY DEF ListTypeOK
<1> DEFINE I == {i \in 1 .. Len(listing) : listing[i] = item}
<1>2. CASE I = {}  BY <1>1, <1>2 DEF Without, RemoveFirst
<1>3. CASE I # {}
  <2> DEFINE k == Min(I)
  <2>1. Without(item) = RemoveAt(listing, k)  BY <1>3 DEF Without, RemoveFirst, SelectInSeq
  <2>2. k \in 1 .. Len(listing)
    <3>1. I \subseteq Nat  BY <1>1
    <3>2. k \in I  BY <1>3, <3>1, LeastOfNaturals
    <3> QED  BY <3>2
  <2> HIDE DEF k, I
  <2>3. SubSeq(listing, 1, k - 1) \in Seq(Item) /\ SubSeq(listing, k + 1, Len(listing)) \in Seq(Item)
    BY <1>1, <2>2
  <2> QED  BY <2>1, <2>3 DEF RemoveAt
<1> QED  BY <1>2, <1>3


-----------------------------------------------------------------------------
(* The steps.                                                                *)

LEMMA ListStart == ListInit => ListInv
<1> SUFFICES ASSUME ListInit  PROVE ListInv  OBVIOUS
<1>1. /\ calls = [c \in Connection |-> NoCall] /\ started = FALSE /\ offset = 0
      /\ rendering = <<>> /\ rows = <<>> /\ handlers = <<>> /\ moreShown = FALSE
      /\ more \in BOOLEAN /\ paged \in BOOLEAN /\ (paged => more) /\ clean = TRUE
      /\ older = {} /\ error = FALSE /\ section = Plain /\ confirmed = {}
      /\ listing \in Listing
  BY DEF ListInit
<1>2. listing \in Seq(Item)
  <2>1. PICK n \in 0 .. Cardinality(Item) : listing \in [1 .. n -> Item]  BY <1>1 DEF Listing
  <2>2. n \in Nat  BY <2>1
  <2> QED  BY <2>1, <2>2, IsASeq
<1>3. ListTypeOK
  <2>1. calls \in [Connection -> {NoCall} \cup LoadCall \cup DeleteCall]
    <3> HIDE DEF NoCall
    <3> QED  BY <1>1
  <2>2. rendering \in Seq(PendingPage) /\ rows \in Seq(Item) /\ handlers \in Seq(Nat)
        /\ Len(handlers) = Len(rows)
    BY <1>1
  <2>3. section \in Element  BY <1>1 DEF Plain, Element
  <2> QED  BY <1>1, <1>2, <2>1, <2>2, <2>3 DEF ListTypeOK
<1>4. \A c \in Connection : Free(c) /\ ~Is(c, "GET") /\ ~Is(c, "DELETE")
  BY <1>1 DEF Free, Is, InFlight
<1>5. Received = <<>>  BY <1>1, ReceivedNothing
<1>6. OffsetCountsRows  BY <1>1, <1>5 DEF OffsetCountsRows
<1>7. FirstItemsReceived
  <2>1. SubSeq(listing, 1, 0) = <<>>  BY <1>2
  <2> QED  BY <1>1, <1>5, <2>1 DEF FirstItemsReceived
<1>8. NextPageNext  BY <1>1, <1>2, <1>4 DEF NextPageNext
<1>9. NothingBeforeStart /\ WholeListReplaces /\ OneHandlerPerButton /\ FirstPageFirst
  BY <1>1, <1>4 DEF NothingBeforeStart, WholeListReplaces, OneHandlerPerButton, FirstPageFirst
<1>10. WholeAtOnce  BY <1>1, <1>4, <1>5 DEF WholeAtOnce
<1> QED  BY <1>3, <1>6, <1>7, <1>8, <1>9, <1>10 DEF ListInv

\* Steps that change nothing of what the page has received or asked for: failures, and what
\* others do to the list.
LEMMA ShrinkKeeps ==
  ASSUME ListInv, ListTypeOK', \A c \in Connection : Shrunk(c),
         UNCHANGED <<more, paged, started, offset, rendering, rows, handlers, moreShown>>,
         clean' => clean, listing' = listing \/ ~(more /\ clean' /\ started)
  PROVE  ListInv'
<1>1. \A c \in Connection :
        /\ Free(c) => Free(c)'
        /\ Is(c, "DELETE")' => Is(c, "DELETE")
        /\ Is(c, "GET")' => /\ Is(c, "GET") /\ About(c)' = About(c)
                            /\ (calls'[c].outcome = "ok" => calls[c].outcome = "ok")
  BY ShrunkFacts DEF ListInv
<1>2. Received' = Received  BY DEF Received
<1>3. NothingBeforeStart'  BY <1>1 DEF ListInv, NothingBeforeStart
<1>4. WholeListReplaces'  BY <1>1 DEF ListInv, WholeListReplaces
<1>5. FirstPageFirst'  BY <1>1 DEF ListInv, FirstPageFirst
<1>6. OffsetCountsRows' /\ OneHandlerPerButton'
  BY <1>2 DEF ListInv, OffsetCountsRows, OneHandlerPerButton
<1>7. CASE listing' = listing
  <2>1. FirstItemsReceived'  BY <1>2, <1>7 DEF ListInv, FirstItemsReceived
  <2>2. Page(offset)' = Page(offset)  BY <1>7 DEF Page
  <2>3. NextPageNext'
    <3> SUFFICES ASSUME paged, clean, clean'  PROVE NextPageNext'
      BY DEF NextPageNext
    <3>1. /\ offset <= Len(listing)
          /\ \A c \in Connection : Is(c, "GET") =>
               /\ About(c).offset = offset
               /\ calls[c].outcome = "ok" => About(c).items = Page(offset)
               /\ \A d \in Connection : Is(d, "GET") => d = c
          /\ ~moreShown /\ offset # 0 => offset = Len(listing)
      BY DEF ListInv, NextPageNext
    <3>2. \A c \in Connection : Is(c, "GET")' =>
               /\ About(c)'.offset = offset
               /\ calls'[c].outcome = "ok" => About(c)'.items = Page(offset)
               /\ \A d \in Connection : Is(d, "GET")' => d = c
      BY <1>1, <3>1
    <3> QED  BY <1>7, <2>2, <3>1, <3>2 DEF NextPageNext
  <2>4. WholeAtOnce'
    <3> SUFFICES ASSUME more, ~paged, clean, clean'  PROVE WholeAtOnce'
      BY DEF WholeAtOnce
    <3>1. /\ \A c \in Connection : Is(c, "GET") =>
               /\ calls[c].outcome = "ok" => About(c).items = listing
               /\ \A d \in Connection : Is(d, "GET") => d = c
          /\ \/ Received = <<>> /\ ~moreShown
             \/ Received = listing /\ ~moreShown /\ \A c \in Connection : ~Is(c, "GET")
             \/ moreShown /\ PageSize <= Len(listing)
      BY DEF ListInv, WholeAtOnce
    <3>2. \A c \in Connection : Is(c, "GET")' =>
               /\ calls'[c].outcome = "ok" => About(c)'.items = listing
               /\ \A d \in Connection : Is(d, "GET")' => d = c
      BY <1>1, <3>1
    <3>3. (\A c \in Connection : ~Is(c, "GET")) => \A c \in Connection : ~Is(c, "GET")'
      BY <1>1
    <3> QED  BY <1>2, <1>7, <3>1, <3>2, <3>3 DEF WholeAtOnce
  <2> QED  BY <1>3, <1>4, <1>5, <1>6, <2>1, <2>3, <2>4 DEF ListInv
<1>8. CASE ~started
  <2>1. offset = 0 /\ \A c \in Connection : Free(c)  BY <1>8 DEF ListInv, NothingBeforeStart
  <2>2. \A c \in Connection : ~Is(c, "GET")'  BY <1>1, <2>1 DEF Free, Is, InFlight
  <2>3. listing' \in Seq(Item)  BY DEF ListTypeOK
  <2>4. NextPageNext'  BY <2>1, <2>2, <2>3 DEF NextPageNext
  <2>5. Received = <<>>  BY <1>8, ReceivedNothing DEF ListInv, NothingBeforeStart
  <2>6. SubSeq(listing', 1, 0) = <<>>  BY <2>3
  <2>7. FirstItemsReceived'  BY <1>2, <2>1, <2>5, <2>6 DEF FirstItemsReceived
  <2>8. ~moreShown  BY <1>8 DEF ListInv, NothingBeforeStart
  <2>9. WholeAtOnce'  BY <1>2, <2>2, <2>5, <2>8 DEF WholeAtOnce
  <2> QED  BY <1>3, <1>4, <1>5, <1>6, <2>4, <2>7, <2>9 DEF ListInv
<1>9. CASE ~(more /\ clean')
  <2>0. paged => more  BY DEF ListInv, ListTypeOK
  <2>1. NextPageNext' /\ FirstItemsReceived' /\ WholeAtOnce'
    BY <1>9, <2>0 DEF NextPageNext, FirstItemsReceived, WholeAtOnce
  <2> QED  BY <1>3, <1>4, <1>5, <1>6, <2>1 DEF ListInv
<1> QED  BY <1>7, <1>8, <1>9


\* The server answers a load.
LEMMA ServeLoadKeeps ==
  ASSUME ListInv, NEW c \in Connection, ServeLoad(c)
  PROVE  ListInv'
<1>0. ListTypeOK /\ Is(c, "GET") /\ InFlight(c)
      /\ UNCHANGED <<more, paged, listing, started, offset, rendering, rows, handlers, moreShown,
                     section, error, clean, older, confirmed>>
  BY DEF ServeLoad, ListInv, Is
<1>1. CASE Serve(c, "refused")
  <2>1. /\ calls' \in [Connection -> {NoCall} \cup LoadCall \cup DeleteCall]
        /\ \A d \in Connection : Shrunk(d)
    BY <1>0, <1>1, ServeFacts DEF Outcome
  <2>2. ListTypeOK'  BY <1>0, <2>1 DEF ListTypeOK
  <2> QED  BY <1>0, <2>1, <2>2, ShrinkKeeps
<1>2. CASE calls' = [calls EXCEPT ![c].outcome = "ok", ![c].about.items = Page(About(c).offset)]
  <2>1. calls \in [Connection -> {NoCall} \cup LoadCall \cup DeleteCall]  BY <1>0 DEF ListTypeOK
  <2>2. calls[c] \in LoadCall  BY <1>0, CallCases
  <2> DEFINE items == Page(calls[c].about.offset)
  <2>3. items \in Seq(Item)
    <3>1. calls[c].about.offset \in Nat  BY <2>2 DEF LoadCall, LoadAbout
    <3> QED  BY <1>0, <3>1, PageFacts
  <2>4. calls'[c] = [[calls[c] EXCEPT !.outcome = "ok"] EXCEPT !.about.items = items]
        /\ \A d \in Connection : d # c => calls'[d] = calls[d]
    BY <1>2, <2>1 DEF About
  <2> HIDE DEF items
  <2>5. /\ calls'[c] \in LoadCall
        /\ calls'[c].about.append = calls[c].about.append
        /\ calls'[c].about.offset = calls[c].about.offset
        /\ calls'[c].about.items = items /\ calls'[c].outcome = "ok"
    <3>1. PICK e : e = [calls[c] EXCEPT !.outcome = "ok"]  OBVIOUS
    <3>2. e \in LoadCall /\ e.about = calls[c].about /\ e.outcome = "ok"
      BY <2>2, <3>1 DEF LoadCall, Outcome
    <3>3. PICK g : g = [e EXCEPT !.about.items = items]  OBVIOUS
    <3>4. calls'[c] = g  BY <2>4, <3>1, <3>3
    <3>5. /\ g \in LoadCall /\ g.outcome = e.outcome
          /\ g.about.append = e.about.append /\ g.about.offset = e.about.offset
          /\ g.about.items = items
      BY <2>3, <3>2, <3>3, ItemsFacts
    <3> QED  BY <3>2, <3>4, <3>5
  <2>6. calls' \in [Connection -> {NoCall} \cup LoadCall \cup DeleteCall]
    <3>1. DOMAIN calls' = Connection /\ calls' = [d \in Connection |-> calls'[d]]
      BY <1>2, <2>1
    <3>2. \A d \in Connection : calls'[d] \in {NoCall} \cup LoadCall \cup DeleteCall
      BY <2>1, <2>4, <2>5
    <3> QED  BY <3>1, <3>2
  <2>7. ListTypeOK'  BY <1>0, <2>6 DEF ListTypeOK
  <2>8. /\ ~Free(c)' /\ Is(c, "GET")' /\ ~Is(c, "DELETE")'
        /\ \A d \in Connection : d # c => (Free(d)' <=> Free(d)) /\ (Is(d, "GET")' <=> Is(d, "GET"))
             /\ (Is(d, "DELETE")' <=> Is(d, "DELETE")) /\ About(d)' = About(d)
    BY <2>4, <2>5, CallKinds DEF Free, Is, InFlight, About
  <2>9. NothingBeforeStart'  BY <1>0, CallCases DEF ListInv, NothingBeforeStart
  <2>10. WholeListReplaces'
    BY <1>0, <2>5, <2>8 DEF ListInv, WholeListReplaces, About
  <2>11. FirstPageFirst'
    <3> SUFFICES ASSUME more  PROVE FirstPageFirst'  BY <1>0 DEF FirstPageFirst
    <3>1. \A d \in Connection : ~Is(d, "DELETE")'
      BY <2>8 DEF ListInv, FirstPageFirst
    <3>2. ASSUME NEW d \in Connection, Is(d, "GET")', ~About(d)'.append
          PROVE  /\ rendering = <<>> /\ rows = <<>> /\ offset = 0 /\ ~moreShown
                 /\ \A e \in Connection : e # d => Free(e)'
      <4>1. Is(d, "GET") /\ ~About(d).append
        BY <1>0, <2>5, <2>8, <3>2 DEF About
      <4>2. d = c  BY <1>0, <4>1, CallCases DEF ListInv, FirstPageFirst
      <4> QED  BY <2>8, <4>1, <4>2 DEF ListInv, FirstPageFirst
    <3> QED  BY <1>0, <3>1, <3>2 DEF ListInv, FirstPageFirst
  <2>12. Received' = Received  BY <1>0 DEF Received
  <2>13. OffsetCountsRows' /\ FirstItemsReceived' /\ OneHandlerPerButton'
    BY <1>0, <2>12 DEF ListInv, OffsetCountsRows, FirstItemsReceived, OneHandlerPerButton
  <2>14. NextPageNext'
    <3> SUFFICES ASSUME paged, clean  PROVE NextPageNext'  BY <1>0 DEF NextPageNext
    <3>1. Page(offset)' = Page(offset)  BY <1>0 DEF Page
    <3>2. /\ offset <= Len(listing) /\ (~moreShown /\ offset # 0 => offset = Len(listing))
          /\ About(c).offset = offset /\ \A d \in Connection : Is(d, "GET") => d = c
      BY <1>0 DEF ListInv, NextPageNext
    <3>3. /\ About(c)'.offset = offset /\ About(c)'.items = Page(offset)
          /\ \A d \in Connection : Is(d, "GET")' => d = c
      BY <2>5, <2>8, <3>2 DEF About, items
    <3> QED  BY <1>0, <3>1, <3>2, <3>3 DEF NextPageNext
  <2>15. WholeAtOnce'
    <3> SUFFICES ASSUME more, ~paged, clean  PROVE WholeAtOnce'  BY <1>0 DEF WholeAtOnce
    <3>1. \A d \in Connection : Is(d, "GET") => d = c  BY <1>0 DEF ListInv, WholeAtOnce
    <3>2. items = listing  BY DEF items, Page
    <3>3. /\ About(c)'.items = listing /\ \A d \in Connection : Is(d, "GET")' => d = c
      BY <2>5, <2>8, <3>1, <3>2 DEF About
    <3>4. \/ Received = <<>> /\ ~moreShown
          \/ moreShown /\ PageSize <= Len(listing)
      BY <1>0 DEF ListInv, WholeAtOnce
    <3> QED  BY <1>0, <2>12, <3>3, <3>4 DEF WholeAtOnce
  <2> QED  BY <2>7, <2>9, <2>10, <2>11, <2>13, <2>14, <2>15 DEF ListInv
<1> QED  BY <1>1, <1>2 DEF ServeLoad

\* The page sends a call.
LEMMA StartKeeps ==
  ASSUME ListInv, Start
  PROVE  ListInv'
<1>0. /\ ListTypeOK /\ ~started /\ started' = TRUE /\ Send(Load(FALSE, 0)) /\ ShowLoad
      /\ UNCHANGED <<more, paged, listing, offset, rendering, rows, handlers, moreShown, clean, older, confirmed>>
  BY DEF Start, ListInv
<1>1. /\ \A c \in Connection : Free(c)
      /\ rendering = <<>> /\ rows = <<>> /\ offset = 0 /\ ~moreShown
  BY <1>0 DEF ListInv, NothingBeforeStart
<1> DEFINE call == Load(FALSE, 0)
<1>2. /\ call \in LoadCall /\ call.outcome = "pending"
      /\ call.about.append = FALSE /\ call.about.offset = 0
  BY LoadFacts
<1>3. Send(call)  BY <1>0
<1> HIDE DEF call
<1>4. PICK c \in Connection :
             /\ calls'[c] = call
             /\ \A d \in Connection : d # c => calls'[d] = calls[d]
             /\ calls' \in [Connection -> {NoCall} \cup LoadCall \cup DeleteCall]
  BY <1>0, <1>2, <1>3, SendFacts
<1>5. ListTypeOK'
  <2>1. section' \in Element  BY <1>0, LoadingFacts DEF ShowLoad, ListTypeOK
  <2> QED  BY <1>0, <1>4, <2>1 DEF ListTypeOK, ShowLoad
<1>6. /\ Is(c, "GET")' /\ ~Is(c, "DELETE")'
      /\ \A d \in Connection : d # c => Free(d)' /\ ~Is(d, "GET")' /\ ~Is(d, "DELETE")'
  BY <1>1, <1>2, <1>4, CallKinds DEF Free, Is, InFlight
<1>7. Received' = Received  BY <1>0 DEF Received
<1>8. OffsetCountsRows' /\ FirstItemsReceived' /\ OneHandlerPerButton'
  BY <1>0, <1>7 DEF ListInv, OffsetCountsRows, FirstItemsReceived, OneHandlerPerButton
<1>9. NothingBeforeStart'  BY <1>0 DEF NothingBeforeStart
<1>10. WholeListReplaces'
  BY <1>0, <1>1, <1>2, <1>4, <1>6 DEF ListInv, WholeListReplaces, About
<1>11. FirstPageFirst'
  BY <1>0, <1>1, <1>6 DEF FirstPageFirst
<1>12. NextPageNext'
  <2>1. calls'[c].outcome # "ok" /\ About(c)'.offset = offset'  BY <1>0, <1>1, <1>2, <1>4 DEF About
  <2>2. 0 <= Len(listing)  BY <1>0 DEF ListTypeOK
  <2> QED  BY <1>0, <1>1, <1>6, <2>1, <2>2 DEF NextPageNext
<1>13. WholeAtOnce'
  <2>1. calls'[c].outcome # "ok"  BY <1>2, <1>4
  <2>2. Received = <<>>  BY <1>1, ReceivedNothing
  <2> QED  BY <1>0, <1>1, <1>6, <1>7, <2>1, <2>2 DEF WholeAtOnce
<1> QED  BY <1>5, <1>8, <1>9, <1>10, <1>11, <1>12, <1>13 DEF ListInv

LEMMA ClickMoreKeeps ==
  ASSUME ListInv, ClickMore
  PROVE  ListInv'
<1>0. /\ ListTypeOK /\ moreShown /\ Send(Load(TRUE, offset)) /\ ShowLoad
      /\ clean' = (clean /\ Loading = {})
      /\ UNCHANGED <<more, paged, listing, started, offset, rendering, rows, handlers, moreShown,
                     older, confirmed>>
  BY DEF ClickMore, ListInv
<1>1. started /\ more /\ started \in BOOLEAN /\ offset \in Nat
  BY <1>0 DEF ListInv, NothingBeforeStart, WholeListReplaces, ListTypeOK
<1> DEFINE call == Load(TRUE, offset)
<1>2. /\ call \in LoadCall /\ call.outcome = "pending"
      /\ call.about.append = TRUE /\ call.about.offset = offset
  BY <1>1, LoadFacts
<1>3. Send(call)  BY <1>0
<1> HIDE DEF call
<1>4. PICK c \in Connection :
             /\ calls'[c] = call
             /\ \A d \in Connection : d # c => calls'[d] = calls[d]
             /\ calls' \in [Connection -> {NoCall} \cup LoadCall \cup DeleteCall]
  BY <1>0, <1>2, <1>3, SendFacts
<1>5. ListTypeOK'
  <2>1. section' \in Element  BY <1>0, LoadingFacts DEF ShowLoad, ListTypeOK
  <2>2. clean' \in BOOLEAN  BY <1>0
  <2> QED  BY <1>0, <1>4, <2>1, <2>2 DEF ListTypeOK, ShowLoad
<1>6. /\ Is(c, "GET")' /\ ~Is(c, "DELETE")'
      /\ \A d \in Connection : d # c => (Is(d, "GET")' <=> Is(d, "GET"))
           /\ (Is(d, "DELETE")' <=> Is(d, "DELETE")) /\ About(d)' = About(d)
  BY <1>2, <1>4, CallKinds DEF Is, InFlight, About
<1>7. Received' = Received  BY <1>0 DEF Received
<1>8. OffsetCountsRows' /\ FirstItemsReceived' /\ OneHandlerPerButton'
  BY <1>0, <1>7 DEF ListInv, OffsetCountsRows, FirstItemsReceived, OneHandlerPerButton
<1>9. NothingBeforeStart' /\ WholeListReplaces'
  BY <1>0, <1>1 DEF NothingBeforeStart, WholeListReplaces
<1>10. FirstPageFirst'
  <2>1. \A d \in Connection : Is(d, "GET") => About(d).append
    BY <1>0, <1>1 DEF ListInv, FirstPageFirst
  <2>2. \A d \in Connection : Is(d, "GET")' => About(d)'.append
    BY <1>2, <1>4, <1>6, <2>1 DEF About
  <2>3. \A d \in Connection : ~Is(d, "DELETE")'  BY <1>1, <1>6 DEF ListInv, FirstPageFirst
  <2> QED  BY <1>0, <1>1, <2>2, <2>3 DEF ListInv, FirstPageFirst
<1>11. NextPageNext'
  <2> SUFFICES ASSUME clean'  PROVE NextPageNext'  BY DEF NextPageNext
  <2>1. clean /\ \A d \in Connection : ~Is(d, "GET")  BY <1>0 DEF Loading
  <2>2. calls'[c].outcome # "ok" /\ About(c)'.offset = offset'  BY <1>0, <1>2, <1>4 DEF About
  <2>3. \A d \in Connection : Is(d, "GET")' => d = c  BY <1>6, <2>1
  <2>4. paged => offset <= Len(listing)  BY <1>1, <2>1 DEF ListInv, NextPageNext
  <2> QED  BY <1>0, <2>2, <2>3, <2>4 DEF NextPageNext
<1>12. WholeAtOnce'
  <2> SUFFICES ASSUME more, ~paged, clean'  PROVE WholeAtOnce'  BY <1>0 DEF WholeAtOnce
  <2>1. clean /\ \A d \in Connection : ~Is(d, "GET")  BY <1>0 DEF Loading
  <2>2. calls'[c].outcome # "ok"  BY <1>2, <1>4
  <2>3. \A d \in Connection : Is(d, "GET")' => d = c  BY <1>6, <2>1
  <2>4. PageSize <= Len(listing)  BY <1>0, <2>1 DEF ListInv, WholeAtOnce
  <2> QED  BY <1>0, <2>2, <2>3, <2>4 DEF WholeAtOnce
<1> QED  BY <1>5, <1>8, <1>9, <1>10, <1>11, <1>12 DEF ListInv


LEMMA ListTypeParts == ListTypeOK => (paged => more)
  BY DEF ListTypeOK

LEMMA DeleteKeeps ==
  ASSUME ListInv, NEW i \in 1 .. Len(rows), Delete(i)
  PROVE  ListInv'
<1>0. /\ ListTypeOK /\ ~more /\ Send(Del([item |-> rows[i]]))
      /\ UNCHANGED <<more, paged, listing, started, offset, rendering, rows, handlers, moreShown,
                     section, error, clean, older, confirmed>>
  BY DEF Delete, ListInv
<1>1. rows \in Seq(Item) /\ rows # <<>> /\ rows[i] \in Item  BY <1>0 DEF ListTypeOK
<1>2. started  BY <1>1 DEF ListInv, NothingBeforeStart
<1> DEFINE call == Del([item |-> rows[i]])
<1>3. call \in DeleteCall  BY <1>1 DEF Del, Call, DeleteCall, Outcome
<1>4. Send(call)  BY <1>0
<1> HIDE DEF call
<1>5. PICK c \in Connection :
             /\ calls'[c] = call
             /\ \A d \in Connection : d # c => calls'[d] = calls[d]
             /\ calls' \in [Connection -> {NoCall} \cup LoadCall \cup DeleteCall]
  BY <1>0, <1>3, <1>4, SendFacts
<1>6. ListTypeOK'  BY <1>0, <1>5 DEF ListTypeOK
<1>7. \A d \in Connection : Is(d, "GET")' => Is(d, "GET") /\ About(d)' = About(d)
  BY <1>3, <1>5, CallKinds DEF Is, InFlight, About
<1>8. WholeListReplaces' /\ OneHandlerPerButton'
  BY <1>0, <1>7 DEF ListInv, WholeListReplaces, OneHandlerPerButton
<1>9. /\ NothingBeforeStart' /\ FirstPageFirst' /\ OffsetCountsRows' /\ NextPageNext'
      /\ FirstItemsReceived' /\ WholeAtOnce'
  BY <1>0, <1>2, ListTypeParts DEF NothingBeforeStart, FirstPageFirst, OffsetCountsRows, NextPageNext,
     FirstItemsReceived, WholeAtOnce
<1> QED  BY <1>6, <1>8, <1>9 DEF ListInv

\* The page is answered.
LEMMA DeletedKeeps ==
  ASSUME ListInv, NEW c \in Connection, Deleted(c)
  PROVE  ListInv'
<1>0. /\ ListTypeOK /\ Is(c, "DELETE") /\ calls' = [calls EXCEPT ![c] = Load(FALSE, 0)]
      /\ older' = older \cup Loading /\ offset' = 0 /\ ShowLoad
      /\ confirmed' = confirmed \cup {About(c).item}
      /\ UNCHANGED <<more, paged, listing, started, rendering, rows, handlers, moreShown, clean>>
  BY DEF Deleted, Reload, ListInv
<1>1. ~more  BY <1>0 DEF ListInv, FirstPageFirst
<1>2. started  BY <1>0, CallCases DEF ListInv, NothingBeforeStart
<1>3. /\ Load(FALSE, 0) \in LoadCall /\ Load(FALSE, 0).about.append = FALSE
  BY LoadFacts
<1>4. calls \in [Connection -> {NoCall} \cup LoadCall \cup DeleteCall]  BY <1>0 DEF ListTypeOK
<1>5. /\ calls' \in [Connection -> {NoCall} \cup LoadCall \cup DeleteCall]
      /\ calls'[c] = Load(FALSE, 0) /\ \A d \in Connection : d # c => calls'[d] = calls[d]
  BY <1>0, <1>3, <1>4
<1>6. ListTypeOK'
  <2>1. section' \in Element  BY <1>0, LoadingFacts DEF ShowLoad, ListTypeOK
  <2>2. About(c).item \in Item  BY <1>0, CallCases, CallKinds DEF About
  <2>3. older' \subseteq Connection  BY <1>0 DEF ListTypeOK, Loading
  <2> QED  BY <1>0, <1>5, <2>1, <2>2, <2>3 DEF ListTypeOK, ShowLoad
<1>7. \A d \in Connection : Is(d, "GET")' => ~About(d)'.append
  BY <1>1, <1>3, <1>5 DEF ListInv, WholeListReplaces, Is, InFlight, About
<1>8. WholeListReplaces' /\ OneHandlerPerButton'
  BY <1>0, <1>1, <1>7 DEF ListInv, WholeListReplaces, OneHandlerPerButton
<1>9. /\ NothingBeforeStart' /\ FirstPageFirst' /\ OffsetCountsRows' /\ NextPageNext'
      /\ FirstItemsReceived' /\ WholeAtOnce'
  BY <1>0, <1>1, <1>2, ListTypeParts DEF NothingBeforeStart, FirstPageFirst, OffsetCountsRows, NextPageNext,
     FirstItemsReceived, WholeAtOnce
<1> QED  BY <1>6, <1>8, <1>9 DEF ListInv

LEMMA LoadedKeeps ==
  ASSUME ListInv, NEW c \in Connection, Loaded(c)
  PROVE  ListInv'
<1> DEFINE items == About(c).items
           page == [append |-> About(c).append, items |-> items]
<1>0. /\ ListTypeOK /\ Is(c, "GET") /\ calls[c].outcome = "ok" /\ Return(c)
      /\ rendering' = Append(rendering, page)
      /\ more => offset' = NextOffset(items) /\ moreShown' = HasMore(items)
      /\ ~more => UNCHANGED <<offset, moreShown>>
      /\ section' = ShowLoading(section, "container", FALSE)
      /\ clean' = (clean /\ ~Overtaken(c)) /\ older' = older \ {c}
      /\ UNCHANGED <<more, paged, listing, started, rows, handlers, error, confirmed>>
  BY DEF Loaded, Reached, ListInv
<1>1. calls[c] \in LoadCall  BY <1>0, CallCases
<1>2. items \in Seq(Item) /\ page \in PendingPage /\ page.items = items /\ page.append = About(c).append
  BY <1>1 DEF LoadCall, LoadAbout, PendingPage, About
<1>3. started  BY <1>0, CallCases DEF ListInv, NothingBeforeStart
<1>4. /\ calls' \in [Connection -> {NoCall} \cup LoadCall \cup DeleteCall]
      /\ \A d \in Connection : Shrunk(d) /\ (d # c => calls'[d] = calls[d])
      /\ calls'[c] = NoCall
  BY <1>0, ReturnFacts
<1>5. /\ ~Is(c, "GET")' /\ ~Is(c, "DELETE")'
      /\ \A d \in Connection : /\ Is(d, "DELETE")' => Is(d, "DELETE")
                               /\ Is(d, "GET")' => d # c /\ Is(d, "GET") /\ About(d)' = About(d)
  BY <1>0, <1>4, ShrunkFacts DEF Is, InFlight
<1> HIDE DEF page, items
<1>6. Received' = Received \o items  BY <1>0, <1>2, ReceivedMore
<1>7. Received \in Seq(Item) /\ Len(Received \o items) = Len(Received) + Len(items)
  BY <1>0, <1>2, ReceivedType, ConcatProperties
<1>8. rendering \in Seq(PendingPage) /\ offset \in Nat /\ Len(items) \in Nat
  BY <1>0, <1>2 DEF ListTypeOK
<1>9. /\ rendering' \in Seq(PendingPage) /\ Len(rendering') = Len(rendering) + 1
      /\ rendering'[Len(rendering) + 1] = page
      /\ \A i \in 1 .. Len(rendering) : rendering'[i] = rendering[i]
  BY <1>0, <1>2, <1>8, AppendProperties
<1>10. ListTypeOK'
  <2>1. section' \in Element  BY <1>0, LoadingFacts DEF ListTypeOK
  <2>2. offset' \in Nat /\ moreShown' \in BOOLEAN
    <3>1. HasMore(items) \in BOOLEAN /\ NextOffset(items) \in Nat
      BY <1>8 DEF HasMore, NextOffset
    <3> QED  BY <1>0, <3>1 DEF ListTypeOK
  <2>3. clean' \in BOOLEAN /\ older' \subseteq Connection  BY <1>0 DEF ListTypeOK
  <2> QED  BY <1>0, <1>4, <1>9, <2>1, <2>2, <2>3 DEF ListTypeOK
<1>11. NothingBeforeStart'  BY <1>0, <1>3 DEF NothingBeforeStart
<1>12. WholeListReplaces' /\ OneHandlerPerButton'
  <2>1. CASE more  BY <1>0, <2>1 DEF WholeListReplaces, OneHandlerPerButton
  <2>2. CASE ~more
    <3>1. ~page.append  BY <1>0, <1>2, <2>2 DEF ListInv, WholeListReplaces
    <3>2. \A i \in 1 .. Len(rendering') : ~rendering'[i].append
      <4> TAKE i \in 1 .. Len(rendering')
      <4>1. CASE i = Len(rendering) + 1  BY <1>9, <3>1, <4>1
      <4>2. CASE i # Len(rendering) + 1
        <5>1. i \in 1 .. Len(rendering)  BY <1>8, <1>9, <4>2
        <5> QED  BY <1>9, <2>2, <5>1 DEF ListInv, WholeListReplaces
      <4> QED  BY <4>1, <4>2
    <3> QED  BY <1>0, <1>5, <2>2, <3>2 DEF ListInv, WholeListReplaces, OneHandlerPerButton
  <2> QED  BY <2>1, <2>2
<1>13. FirstPageFirst'
  <2> SUFFICES ASSUME more  PROVE FirstPageFirst'  BY <1>0 DEF FirstPageFirst
  <2>1. \A d \in Connection : ~Is(d, "DELETE")'  BY <1>5 DEF ListInv, FirstPageFirst
  <2>2. ASSUME NEW d \in Connection, Is(d, "GET")'  PROVE About(d)'.append
    <3>1. d # c /\ Is(d, "GET") /\ About(d)' = About(d)  BY <1>5, <2>2
    <3>2. ~Free(c)  BY <1>0, CallCases
    <3> QED  BY <3>1, <3>2 DEF ListInv, FirstPageFirst
  <2>3. ASSUME NEW i \in 1 .. Len(rendering'), ~rendering'[i].append
        PROVE  i = 1 /\ rows = <<>>
    <3>1. CASE i = Len(rendering) + 1
      <4>1. ~About(c).append  BY <1>2, <1>9, <2>3, <3>1
      <4>2. rendering = <<>> /\ rows = <<>>  BY <1>0, <4>1 DEF ListInv, FirstPageFirst
      <4> QED  BY <3>1, <4>2
    <3>2. CASE i # Len(rendering) + 1
      <4>1. i \in 1 .. Len(rendering)  BY <1>8, <1>9, <3>2
      <4> QED  BY <1>9, <2>3, <4>1 DEF ListInv, FirstPageFirst
    <3> QED  BY <3>1, <3>2
  <2> QED  BY <1>0, <2>1, <2>2, <2>3 DEF FirstPageFirst
<1>14. OffsetCountsRows'
  <2> SUFFICES ASSUME more  PROVE offset' = Len(Received')  BY <1>0 DEF OffsetCountsRows
  <2>1. offset = Len(Received)  BY DEF ListInv, OffsetCountsRows
  <2> QED  BY <1>0, <1>6, <1>7, <2>1 DEF NextOffset
<1>15. NextPageNext' /\ FirstItemsReceived'
  <2>1. CASE ~(paged /\ clean)  BY <1>0, <2>1 DEF NextPageNext, FirstItemsReceived
  <2>2. CASE paged /\ clean
    <3>1. /\ offset <= Len(listing) /\ Received = SubSeq(listing, 1, offset)
          /\ items = Page(offset)
          /\ \A d \in Connection : Is(d, "GET") => d = c
      BY <1>0, <2>2 DEF ListInv, NextPageNext, FirstItemsReceived, items
    <3>2. \A d \in Connection : ~Is(d, "GET")'  BY <1>5, <3>1
    <3>3. /\ offset + Len(items) <= Len(listing)
          /\ items = SubSeq(listing, offset + 1, offset + Len(items))
          /\ Len(items) < PageSize => offset + Len(items) = Len(listing)
      BY <1>0, <1>8, <2>2, <3>1, PageFacts
    <3>4. offset' = offset + Len(items) /\ (moreShown' <=> Len(items) >= PageSize)
      BY <1>0, <2>2, ListTypeParts DEF NextOffset, HasMore
    <3>5. Received' = SubSeq(listing, 1, offset')
      <4>1. listing \in Seq(Item)  BY <1>0 DEF ListTypeOK
      <4>2. SubSeq(listing, 1, offset) \o SubSeq(listing, offset + 1, offset + Len(items))
              = SubSeq(listing, 1, offset + Len(items))
        <5>1. /\ 1 \in 1 .. Len(listing) + 1 /\ offset \in 1 - 1 .. Len(listing)
              /\ offset + Len(items) \in offset .. Len(listing)
          BY <1>8, <3>1, <3>3, <4>1
        <5> QED  BY <4>1, <5>1, ConcatAdjacentSubSeq
      <4> QED  BY <1>6, <3>1, <3>3, <3>4, <4>2
    <3>6. NextPageNext'
      <4>1. offset' <= Len(listing)  BY <3>3, <3>4
      <4>2. ~moreShown' => offset' = Len(listing)  BY <1>8, <3>3, <3>4, ListAssumption
      <4> QED  BY <1>0, <3>2, <4>1, <4>2 DEF NextPageNext
    <3> QED  BY <1>0, <3>5, <3>6 DEF FirstItemsReceived
  <2> QED  BY <2>1, <2>2
<1>16. WholeAtOnce'
  <2> SUFFICES ASSUME more, ~paged, clean  PROVE WholeAtOnce'  BY <1>0 DEF WholeAtOnce
  <2>1. items = listing /\ \A d \in Connection : Is(d, "GET") => d = c
    BY <1>0 DEF ListInv, WholeAtOnce, items
  <2>2. \A d \in Connection : ~Is(d, "GET")'  BY <1>5, <2>1
  <2>3. moreShown' <=> Len(items) >= PageSize  BY <1>0 DEF HasMore
  <2>4. Received = <<>> \/ PageSize <= Len(listing)  BY <1>0 DEF ListInv, WholeAtOnce
  <2>5. CASE PageSize <= Len(listing)
    <3>1. moreShown'  BY <1>8, <2>1, <2>3, <2>5, ListAssumption
    <3> QED  BY <1>0, <2>2, <2>5, <3>1 DEF WholeAtOnce
  <2>6. CASE ~(PageSize <= Len(listing))
    <3>1. ~moreShown'  BY <1>8, <2>1, <2>3, <2>6, ListAssumption
    <3>2. <<>> \o items = items  BY <1>2
    <3>3. Received' = listing  BY <1>6, <2>1, <2>4, <2>6, <3>2
    <3> QED  BY <1>0, <2>2, <3>1, <3>3 DEF WholeAtOnce
  <2> QED  BY <2>5, <2>6
<1> QED  BY <1>10, <1>11, <1>12, <1>13, <1>14, <1>15, <1>16 DEF ListInv

\* The template of the rows has arrived: the oldest of the pages goes to the table.
LEMMA RenderKeeps ==
  ASSUME ListInv, Render
  PROVE  ListInv'
<1> DEFINE page == Head(rendering)
           items == page.items
<1>0. /\ ListTypeOK /\ rendering # <<>> /\ rendering' = Tail(rendering)
      /\ Kept(page) => rows' = rows \o items
                       /\ handlers' = [i \in 1 .. Len(rows) |-> handlers[i] + 1] \o One(items)
      /\ ~Kept(page) => rows' = items /\ handlers' = One(items)
      /\ UNCHANGED <<calls, more, paged, listing, started, offset, moreShown, section, error, clean,
                     older, confirmed>>
  BY DEF Render, Bound, ListInv
<1>1. /\ rendering \in Seq(PendingPage) /\ rows \in Seq(Item) /\ Len(rows) \in Nat
      /\ handlers \in Seq(Nat) /\ Len(handlers) = Len(rows)
  BY <1>0 DEF ListTypeOK
<1>2. /\ rendering' \in Seq(PendingPage) /\ page \in PendingPage /\ page = rendering[1]
      /\ 1 \in 1 .. Len(rendering) /\ Len(rendering') = Len(rendering) - 1 /\ Len(rendering) \in Nat
      /\ \A i \in 1 .. Len(rendering') : i + 1 \in 1 .. Len(rendering) /\ rendering'[i] = rendering[i + 1]
  BY <1>0, <1>1
<1>3. items \in Seq(Item) /\ Len(items) \in Nat  BY <1>2 DEF PendingPage
<1>4. started  BY <1>0 DEF ListInv, NothingBeforeStart, ListTypeOK
<1> HIDE DEF page
<1>5. One(page.items) \in Seq(Nat) /\ Len(One(page.items)) = Len(page.items)  BY <1>3 DEF One
<1>6. /\ rows' \in Seq(Item) /\ handlers' \in Seq(Nat) /\ Len(handlers') = Len(rows')
  <2>1. CASE Kept(page)
    <3> DEFINE bound == [i \in 1 .. Len(rows) |-> handlers[i] + 1]
    <3>1. \A i \in 1 .. Len(rows) : handlers[i] + 1 \in Nat  BY <1>1
    <3>2. bound \in Seq(Nat) /\ Len(bound) = Len(rows)  BY <1>1, <3>1
    <3> HIDE DEF bound
    <3>3. /\ bound \o One(items) \in Seq(Nat) /\ rows \o items \in Seq(Item)
          /\ Len(bound \o One(items)) = Len(bound) + Len(One(items))
          /\ Len(rows \o items) = Len(rows) + Len(items)
      BY <1>1, <1>3, <1>5, <3>2, ConcatProperties
    <3>4. handlers' = bound \o One(items) /\ rows' = rows \o items  BY <1>0, <2>1 DEF bound
    <3> QED  BY <1>5, <3>2, <3>3, <3>4
  <2>2. CASE ~Kept(page)  BY <1>0, <1>3, <1>5, <2>2
  <2> QED  BY <2>1, <2>2
<1>7. ListTypeOK'  BY <1>0, <1>2, <1>6 DEF ListTypeOK
<1>8. NothingBeforeStart'  BY <1>0, <1>4 DEF NothingBeforeStart
<1>9. CASE ~more
  <2>1. ~page.append  BY <1>2, <1>9 DEF ListInv, WholeListReplaces
  <2>2. handlers' = One(items)  BY <1>0, <2>1 DEF Kept
  <2>3. \A i \in 1 .. Len(handlers') : handlers'[i] = 1  BY <1>3, <1>5, <2>2 DEF One
  <2>4. \A i \in 1 .. Len(rendering') : ~rendering'[i].append
    BY <1>2, <1>9 DEF ListInv, WholeListReplaces
  <2>5. (\A c \in Connection : Is(c, "GET")' => ~About(c)'.append) /\ ~moreShown'
    BY <1>0, <1>9 DEF ListInv, WholeListReplaces, Is, InFlight, About
  <2>6. WholeListReplaces' /\ OneHandlerPerButton'
    BY <2>3, <2>4, <2>5 DEF WholeListReplaces, OneHandlerPerButton
  <2>7. FirstPageFirst' /\ OffsetCountsRows' /\ NextPageNext' /\ FirstItemsReceived' /\ WholeAtOnce'
    BY <1>0, <1>9, ListTypeParts
    DEF FirstPageFirst, OffsetCountsRows, NextPageNext, FirstItemsReceived, WholeAtOnce
  <2> QED  BY <1>7, <1>8, <2>6, <2>7 DEF ListInv
<1>10. CASE more
  <2>1. rows' = rows \o items
    <3>1. CASE Kept(page)  BY <1>0, <3>1
    <3>2. CASE ~Kept(page)
      <4>1. rows = <<>>  BY <1>2, <1>10, <3>2 DEF Kept, ListInv, FirstPageFirst
      <4> QED  BY <1>0, <1>3, <3>2, <4>1, ConcatEmptySeq
    <3> QED  BY <3>1, <3>2
  <2>2. Received' = Received  BY <1>0, <2>1, ReceivedRendered DEF page
  <2>3. OffsetCountsRows' /\ FirstItemsReceived'
    BY <1>0, <2>2 DEF ListInv, OffsetCountsRows, FirstItemsReceived
  <2>4. \A i \in 1 .. Len(rendering') : rendering'[i].append
    <3> SUFFICES ASSUME NEW i \in 1 .. Len(rendering'), ~rendering'[i].append  PROVE FALSE
      OBVIOUS
    <3>1. i \in Nat /\ i >= 1 /\ i + 1 \in 1 .. Len(rendering) /\ ~rendering[i + 1].append
      BY <1>2
    <3>2. i + 1 = 1  BY <1>10, <3>1 DEF ListInv, FirstPageFirst
    <3> QED  BY <3>1, <3>2
  <2>5. \A c \in Connection : Is(c, "GET")' => About(c)'.append
    BY <1>0, <1>10 DEF ListInv, FirstPageFirst, Is, InFlight, About
  <2>6. \A c \in Connection : ~Is(c, "DELETE")'
    BY <1>0, <1>10 DEF ListInv, FirstPageFirst, Is, InFlight
  <2>7. FirstPageFirst'  BY <2>4, <2>5, <2>6 DEF FirstPageFirst
  <2>8. WholeListReplaces' /\ OneHandlerPerButton'
    BY <1>0, <1>10 DEF WholeListReplaces, OneHandlerPerButton
  <2>9. NextPageNext'
    <3>1. Page(offset)' = Page(offset)  BY <1>0 DEF Page
    <3>2. \A c \in Connection : (Is(c, "GET")' <=> Is(c, "GET")) /\ About(c)' = About(c)
                                /\ calls'[c] = calls[c]
      BY <1>0 DEF Is, InFlight, About
    <3> QED  BY <1>0, <3>1, <3>2 DEF ListInv, NextPageNext
  <2>10. WholeAtOnce'
    <3>1. \A c \in Connection : (Is(c, "GET")' <=> Is(c, "GET")) /\ About(c)' = About(c)
                                /\ calls'[c] = calls[c]
      BY <1>0 DEF Is, InFlight, About
    <3> QED  BY <1>0, <2>2, <3>1 DEF ListInv, WholeAtOnce
  <2> QED  BY <1>7, <1>8, <2>3, <2>7, <2>8, <2>9, <2>10 DEF ListInv
<1>11. more \in BOOLEAN  BY <1>0 DEF ListTypeOK
<1> QED  BY <1>9, <1>10, <1>11

\* A deletion is served: the list is shorter, and it is one that is loaded as a whole.
LEMMA ServeDeleteKeeps ==
  ASSUME ListInv, NEW c \in Connection, ServeDelete(c)
  PROVE  ListInv'
<1>0. /\ ListTypeOK /\ Is(c, "DELETE") /\ Serve(c, "ok") /\ listing' = Without(About(c).item)
      /\ UNCHANGED <<more, paged, started, offset, rendering, rows, handlers, moreShown, section, error,
                     clean, older, confirmed>>
  BY DEF ServeDelete, ListInv
<1>1. InFlight(c) /\ ~Is(c, "GET")  BY <1>0, CallCases
<1>2. ~more  BY <1>0 DEF ListInv, FirstPageFirst
<1>3. /\ calls' \in [Connection -> {NoCall} \cup LoadCall \cup DeleteCall]
      /\ \A d \in Connection : Shrunk(d)
  BY <1>0, <1>1, ServeFacts DEF Outcome
<1>4. listing' \in Seq(Item)  BY <1>0, WithoutType
<1>5. ListTypeOK'  BY <1>0, <1>3, <1>4 DEF ListTypeOK
<1> QED  BY <1>0, <1>2, <1>3, <1>5, ShrinkKeeps

\* The page learns that a call failed.
LEMMA FailedKeeps ==
  ASSUME ListInv, NEW c \in Connection, Failed(c)
  PROVE  ListInv'
<1>0. /\ ListTypeOK /\ Return(c) /\ older' = older \ {c}
      /\ UNCHANGED <<more, paged, listing, started, offset, rendering, rows, handlers, moreShown,
                     confirmed>>
      /\ \/ /\ section' = ShowLoading(section, "container", FALSE)
            /\ error' = (error \/ HasMessage(calls[c].outcome))
            /\ clean' = FALSE
         \/ UNCHANGED <<section, error, clean>>
  BY DEF Failed, ListInv
<1>1. /\ calls' \in [Connection -> {NoCall} \cup LoadCall \cup DeleteCall]
      /\ \A d \in Connection : Shrunk(d)
  BY <1>0, ReturnFacts
<1>2. section' \in Element /\ error' \in BOOLEAN /\ clean' \in BOOLEAN /\ (clean' => clean)
  <2>1. section \in Element /\ error \in BOOLEAN /\ clean \in BOOLEAN  BY <1>0 DEF ListTypeOK
  <2>2. ShowLoading(section, "container", FALSE) \in Element  BY <2>1, LoadingFacts
  <2>3. CASE UNCHANGED <<section, error, clean>>  BY <2>1, <2>3
  <2>4. CASE /\ section' = ShowLoading(section, "container", FALSE)
             /\ error' = (error \/ HasMessage(calls[c].outcome))
             /\ clean' = FALSE
    <3>1. error' \in BOOLEAN  BY <2>4
    <3> QED  BY <2>2, <2>4, <3>1
  <2> QED  BY <1>0, <2>3, <2>4
<1>3. ListTypeOK'  BY <1>0, <1>1, <1>2 DEF ListTypeOK
<1> QED  BY <1>0, <1>1, <1>2, <1>3, ShrinkKeeps

\* The network loses a call.
LEMMA LoseCallKeeps ==
  ASSUME ListInv, NEW c \in Connection, LoseCall(c)
  PROVE  ListInv'
<1>0. /\ ListTypeOK /\ InFlight(c) /\ Serve(c, "lost")
      /\ UNCHANGED <<more, paged, listing, started, offset, rendering, rows, handlers, moreShown, section,
                     error, clean, older, confirmed>>
  BY DEF LoseCall, Lose, Reached, ListInv
<1>1. /\ calls' \in [Connection -> {NoCall} \cup LoadCall \cup DeleteCall]
      /\ \A d \in Connection : Shrunk(d)
  BY <1>0, ServeFacts DEF Outcome
<1>2. ListTypeOK'  BY <1>0, <1>1 DEF ListTypeOK
<1> QED  BY <1>0, <1>1, <1>2, ShrinkKeeps

\* Other users change the list.
LEMMA OtherKeeps ==
  ASSUME ListInv, NEW item \in Item, OtherAdds(item) \/ OtherDeletes(item)
  PROVE  ListInv'
<1>0. /\ ListTypeOK
      /\ UNCHANGED <<calls, more, paged, started, offset, rendering, rows, handlers, moreShown, section,
                     error, older, confirmed>>
  BY DEF OtherAdds, OtherDeletes, Change, ListInv
<1>1. listing \in Seq(Item)  BY <1>0 DEF ListTypeOK
<1>2. listing' \in Seq(Item)
  <2>1. CASE OtherAdds(item)
    <3>1. <<item>> \in Seq(Item) /\ listing' = <<item>> \o listing
      BY <2>1 DEF OtherAdds, Change
    <3> QED  BY <1>1, <3>1, ConcatProperties
  <2>2. CASE OtherDeletes(item)  BY <1>0, <2>2, WithoutType DEF OtherDeletes, Change
  <2> QED  BY <2>1, <2>2
<1>3. clean' = (clean /\ ~started) \/ clean' = (clean /\ ~(more /\ started))
  BY DEF OtherAdds, OtherDeletes
<1>4. ListTypeOK'  BY <1>0, <1>2, <1>3 DEF ListTypeOK
<1>5. \A c \in Connection : Shrunk(c)  BY <1>0 DEF Shrunk
<1>6. (clean' => clean) /\ ~(more /\ clean' /\ started)  BY <1>3
<1> QED  BY <1>0, <1>4, <1>5, <1>6, ShrinkKeeps

LEMMA ListStep == ListInv /\ [ListNext]_listVars => ListInv'
<1> SUFFICES ASSUME ListInv, [ListNext]_listVars  PROVE ListInv'  OBVIOUS
<1>1. CASE Start  BY <1>1, StartKeeps
<1>2. CASE ClickMore  BY <1>2, ClickMoreKeeps
<1>3. CASE Render  BY <1>3, RenderKeeps
<1>4. ASSUME NEW c \in Connection,
             \/ ServeLoad(c) \/ Loaded(c) \/ ServeDelete(c) \/ Deleted(c) \/ Failed(c) \/ LoseCall(c)
      PROVE  ListInv'
  BY <1>4, ServeLoadKeeps, LoadedKeeps, ServeDeleteKeeps, DeletedKeeps, FailedKeeps, LoseCallKeeps
<1>5. ASSUME NEW i \in 1 .. Len(rows), Delete(i)  PROVE ListInv'  BY <1>5, DeleteKeeps
<1>6. ASSUME NEW item \in Item, OtherAdds(item) \/ OtherDeletes(item)  PROVE ListInv'
  BY <1>6, OtherKeeps
<1>7. CASE UNCHANGED listVars
  <2>1. UNCHANGED <<calls, more, paged, listing, started, offset, rendering, rows, handlers, moreShown,
                    section, error, clean, older, confirmed>>
    BY <1>7 DEF listVars
  <2>2. ListTypeOK'  BY <2>1 DEF ListInv, ListTypeOK
  <2>3. \A c \in Connection : Shrunk(c)  BY <2>1 DEF Shrunk
  <2> QED  BY <2>1, <2>2, <2>3, ShrinkKeeps
<1> QED  BY <1>1, <1>2, <1>3, <1>4, <1>5, <1>6, <1>7 DEF ListNext

\* The parts of the invariant are inductive together: the rows follow one another because
\* a load of the next page was sent from the offset, the only one in flight
\* (lib/dynamic.js).
THEOREM ListInvariant == ListSpec => []ListInv
<1>1. ListInit => ListInv  BY ListStart
<1>2. ListInv /\ [ListNext]_listVars => ListInv'  BY ListStep
<1> QED  BY <1>1, <1>2, PTL DEF ListSpec

-----------------------------------------------------------------------------
(* What the runs check, for any list, size of a page and number of calls.    *)

\* The variables of the page keep their types: the table has a number of handlers for each
\* row (lib/render.js:tableInto and its callback), and a call carries what its callback
\* reads (lib/dynamic.js:load).
THEOREM ListTypesHold == ListSpec => []ListTypeOK
<1>1. ListInv => ListTypeOK  BY DEF ListInv
<1> QED  BY <1>1, ListInvariant, PTL

\* config.offset counts the rows the page has received, however often the user asks for the
\* next page and whatever others do to the list (lib/dynamic.js:load, display).
THEOREM OffsetsCount == ListSpec => []OffsetCountsRows
<1>1. ListInv => OffsetCountsRows  BY DEF ListInv
<1> QED  BY <1>1, ListInvariant, PTL

\* Pages asked for one at a time, of a list of requests that does not change, follow one
\* another: the page shows the first items of the list, each of them once
\* (lib/dynamic.js:load and moreStatus, lib/render.js:tableInto, SQL.java:52).
THEOREM PagesFollowEachOther == ListSpec => []PagesFollow
<1>1. ASSUME ListInv  PROVE PagesFollow
  <2> SUFFICES ASSUME paged, clean  PROVE IsPrefix(Received, listing)  BY DEF PagesFollow
  <2>1. /\ ListTypeOK /\ offset <= Len(listing) /\ Received = SubSeq(listing, 1, offset)
        /\ offset = Len(Received)
    BY <1>1 DEF ListInv, ListTypeOK, NextPageNext, FirstItemsReceived, OffsetCountsRows
  <2>2. Received \in Seq(Item)  BY <2>1, ReceivedType
  <2>3. SubSeq(Received, 1, Len(Received)) = Received  BY <2>2, SubSeqFull
  <2> QED  BY <2>1, <2>3 DEF IsPrefix
<1>2. ListInv => PagesFollow  BY <1>1
<1> QED  BY <1>2, ListInvariant, PTL

\* The button for the next page goes away only when the whole list has been received: a
\* list of requests page by page, a list of events at once (lib/dynamic.js:moreStatus).
THEOREM NothingStaysOutOfReach == ListSpec => []NothingOutOfReach
<1>1. ASSUME ListInv  PROVE NothingOutOfReach
  <2> SUFFICES ASSUME more, clean, Received # <<>>, ~moreShown  PROVE Received = listing
    BY DEF NothingOutOfReach
  <2>1. CASE paged
    <3>1. /\ ListTypeOK /\ offset = Len(Received) /\ Received = SubSeq(listing, 1, offset)
          /\ (offset # 0 => offset = Len(listing))
      BY <1>1, <2>1 DEF ListInv, OffsetCountsRows, FirstItemsReceived, NextPageNext
    <3>2. Received \in Seq(Item) /\ listing \in Seq(Item)
      BY <3>1, ReceivedType DEF ListTypeOK
    <3>3. offset # 0  BY <3>1, <3>2, EmptySeq
    <3>4. SubSeq(listing, 1, Len(listing)) = listing  BY <3>2, SubSeqFull
    <3> QED  BY <3>1, <3>3, <3>4
  <2>2. CASE ~paged  BY <1>1, <2>2 DEF ListInv, WholeAtOnce
  <2> QED  BY <2>1, <2>2
<1>2. ListInv => NothingOutOfReach  BY <1>1
<1> QED  BY <1>2, ListInvariant, PTL

\* In a list that is loaded as a whole each button has one handler, so that a click deletes
\* the row once, however often the list was loaded again (lib/render.js:tableInto).
THEOREM ButtonsHaveOneHandler == ListSpec => []OneHandlerPerButton
<1>1. ListInv => OneHandlerPerButton  BY DEF ListInv
<1> QED  BY <1>1, ListInvariant, PTL
==============================================================================
