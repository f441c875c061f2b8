------------------------------ MODULE TabsProofs ------------------------------
(***************************************************************************)
(* Proofs about the tabs: of the store in one renderer, for any number of  *)
(* workspaces, tabs, panes and closed tabs that are remembered, and of the *)
(* tabs of several Macs, for any number of devices and workspaces.         *)
(***************************************************************************)
EXTENDS TabsSync, TabsStore, FiniteSetTheorems, WellFoundedInduction, TLAPS

------------------------------------------------------------------------------
(* The inductive invariant of the store                                    *)
(*                                                                         *)
(* It is stated for a store s, the types ty of the panes made, the number  *)
(* n of tabs made, the torn tabs tn, and the tabs od that are torn or have *)
(* been astray: a function of the store is shown to keep it, and an action *)
(* is one or several such functions in a row.                              *)

Layouts(ty) == Seq(1..Len(ty)) \ {<<>>}
Entry(ty, n) ==
  [tab : 1..n, ws : WorkspaceId, layout : Layouts(ty),
   panes : UNION {[P -> [tab : 1..n, target : 0..Len(ty)]] : P \in SUBSET (1..Len(ty))}]

(* Types, and what is named in one map is a key of the other.              *)
Typed(s, ty, n) ==
  /\ s = [tabs |-> s.tabs, panes |-> s.panes, active |-> s.active, focused |-> s.focused,
          recent |-> s.recent, closed |-> s.closed, killed |-> s.killed]
  /\ DOMAIN s.tabs \subseteq 1..n /\ s.tabs \in [DOMAIN s.tabs -> [ws : WorkspaceId, layout : Layouts(ty)]]
  /\ DOMAIN s.panes \subseteq 1..Len(ty) /\ s.panes \in [DOMAIN s.panes -> [tab : 1..n, target : 0..Len(ty)]]
  /\ s.active \in [WorkspaceId -> 0..n]
  /\ DOMAIN s.focused \subseteq DOMAIN s.tabs /\ s.focused \in [DOMAIN s.focused -> 1..Len(ty)]
  /\ s.recent \in [WorkspaceId -> Seq(0..n)]
  /\ s.closed \in Seq(Entry(ty, n))

(* Every pane is drawn once in the tab it names, unless that was torn.     *)
Seen(s, tn) ==
  \A p \in DOMAIN s.panes :
    s.panes[p].tab \in DOMAIN s.tabs /\ (s.panes[p].tab \notin tn => Once(s.tabs[s.panes[p].tab].layout, p))

(* So was every pane of a closed tab, which may be opened again.           *)
Past(s, tn) ==
  \A i \in DOMAIN s.closed : s.closed[i].tab \notin tn =>
    \A p \in DOMAIN s.closed[i].panes : Once(s.closed[i].layout, p)

(* Killed are the terminals whose pane is gone.                            *)
Dead(s, ty) == s.killed = {p \in DOMAIN ty : ty[p] = "terminal"} \ DOMAIN s.panes

(* What a workspace has active, and remembers, are tabs of its own.        *)
Live(s) ==
  \A w \in WorkspaceId :
    /\ s.active[w] = NoTab <=> TabsOf(s, w) = {}
    /\ ToSet(s.recent[w]) \cup {s.active[w]} \subseteq TabsOf(s, w) \cup {NoTab}
    /\ IsInjective(s.recent[w])

(* A pane that tab t may have the focus on.                                *)
Held(s, ty, t, p) == p \in PanesOf(s, t) \/ (ty[p] = "devtools" /\ p \notin DOMAIN s.panes)
Focus(s, ty, od) == \A t \in DOMAIN s.focused : t \in od \/ Held(s, ty, t, s.focused[t])

(* A store that is good.                                                   *)
Good(s, ty, n, tn, od) ==
  Typed(s, ty, n) /\ Seen(s, tn) /\ Past(s, tn) /\ Dead(s, ty) /\ Live(s) /\ Focus(s, ty, od)

(* The layout of a tab that has never been astray names its panes only, so *)
(* that a pane that leaves or closes hands the focus to a pane of the tab. *)
Straight(s, od) == \A t \in DOMAIN s.tabs \ od : PanesIn(s.tabs[t].layout) \subseteq PanesOf(s, t)

(* The tree at the start of a drag draws each pane once.                   *)
Carried ==
  Idle \/ /\ drag = [tab |-> drag.tab, pane |-> drag.pane, layout |-> drag.layout]
          /\ drag.layout \in Layouts(type) /\ drag.pane \in PanesIn(drag.layout)
          /\ drag.tab \notin torn => IsInjective(drag.layout)

TabsInv ==
  /\ type \in Seq(Type) /\ made \in Nat
  /\ Good(Store, type, made, torn, astray \cup torn)
  /\ Straight(Store, astray \cup torn)
  /\ Carried

------------------------------------------------------------------------------
(* Induction and recursion *)

\* A set of numbers has a least one.
LEMMA Least ==
  ASSUME NEW T \in SUBSET Nat, T # {}
  PROVE  \E x \in T : \A y \in T : x <= y
<1>. DEFINE U == {0..x : x \in T}
<1>1. IsWellFoundedOn(StrictSubsetOrdering(Nat), FiniteSubsetsOf(Nat))
  BY FS_StrictSubsetOrderingWellFounded
<1>2. U \subseteq FiniteSubsetsOf(Nat)
  <2>. SUFFICES ASSUME NEW x \in T PROVE 0..x \in FiniteSubsetsOf(Nat)
    OBVIOUS
  <2>1. IsFiniteSet(0..x)
    BY FS_Interval
  <2>. QED  BY <2>1 DEF FiniteSubsetsOf
<1>3. U # {}
  OBVIOUS
<1>. HIDE DEF U
<1>4. PICK u \in U : \A v \in U : <<v, u>> \notin StrictSubsetOrdering(Nat)
  BY <1>1, <1>2, <1>3, WFMin
<1>. USE DEF U
<1>5. PICK x \in T : u = 0..x
  BY <1>4
<1>6. ASSUME NEW y \in T, y < x PROVE FALSE
  <2>1. 0..y \in U /\ 0..y \subseteq 0..x /\ x \in 0..x /\ x \notin 0..y
    BY <1>6
  <2>2. <<0..y, u>> \in StrictSubsetOrdering(Nat)
    BY <2>1, <1>2, <1>5 DEF StrictSubsetOrdering, FiniteSubsetsOf
  <2>. QED  BY <2>1, <2>2, <1>4
<1>. QED  BY <1>6

\* What holds of 0, and of every number up to n when it holds of the one before, holds up to n.
LEMMA Induct ==
  ASSUME NEW n \in Nat, NEW T, 0 \in T, \A i \in 1..n : i - 1 \in T => i \in T
  PROVE  0..n \subseteq T
<1>. SUFFICES ASSUME (0..n) \ T # {} PROVE FALSE
  OBVIOUS
<1>1. PICK x \in (0..n) \ T : \A y \in (0..n) \ T : x <= y
  <2>. DEFINE U == (0..n) \ T
  <2>1. U \in SUBSET Nat /\ U # {}
    OBVIOUS
  <2>. HIDE DEF U
  <2>2. \E x \in U : \A y \in U : x <= y
    BY <2>1, Least
  <2>. QED  BY <2>2 DEF U
<1>2. x \in 1..n /\ x - 1 \in 0..n /\ ~(x <= x - 1)
  BY <1>1
<1>3. x - 1 \in T
  BY <1>1, <1>2
<1>. QED  BY <1>1, <1>2, <1>3

\* What cleanLayout has kept after the first i leaves.
KeptStep(t, keep, g, i) ==
  IF i = 0 THEN <<>>
  ELSE IF t[i] \in keep THEN Append(g[i - 1], t[i]) ELSE g[i - 1]
IsKept(t, keep, g) == g = [i \in 0..Len(t) |-> KeptStep(t, keep, g, i)]

\* The function that cleanLayout is written with exists, so it is the one that CHOOSE finds.
LEMMA KeepRecursion ==
  ASSUME NEW X, NEW t \in Seq(X), NEW keep
  PROVE  \E g : IsKept(t, keep, g) /\ Keep(t, keep) = g[Len(t)]
<1>. DEFINE n == Len(t)
            T == {k \in 0..n : \E g : g = [i \in 0..k |-> KeptStep(t, keep, g, i)]}
<1>0. n \in Nat
  OBVIOUS
<1>1. 0 \in T
  <2>1. [i \in 0..0 |-> <<>>] = [i \in 0..0 |-> KeptStep(t, keep, [j \in 0..0 |-> <<>>], i)]
    BY DEF KeptStep
  <2>. QED  BY <2>1
<1>2. ASSUME NEW k \in 1..n, k - 1 \in T PROVE k \in T
  <2>1. PICK g : g = [i \in 0..k - 1 |-> KeptStep(t, keep, g, i)]
    BY <1>2
  <2>. DEFINE h == [i \in 0..k |-> IF i = k THEN KeptStep(t, keep, g, k) ELSE g[i]]
  <2>2. ASSUME NEW i \in 0..k PROVE h[i] = KeptStep(t, keep, h, i)
    <3>1. CASE i = k
      <4>1. k - 1 \in 0..k /\ k - 1 # k /\ k # 0
        OBVIOUS
      <4>2. h[k - 1] = g[k - 1]
        BY <4>1
      <4>. QED  BY <3>1, <4>1, <4>2 DEF KeptStep
    <3>2. CASE i # k
      <4>1. i \in 0..k - 1
        BY <3>2
      <4>2. h[i] = g[i] /\ (i # 0 => h[i - 1] = g[i - 1])
        BY <4>1, <3>2
      <4>3. g[i] = KeptStep(t, keep, g, i)
        BY <2>1, <4>1
      <4>. QED  BY <4>2, <4>3 DEF KeptStep
    <3>. QED  BY <3>1, <3>2
  <2>3. h = [i \in 0..k |-> KeptStep(t, keep, h, i)]
    <3>. HIDE DEF h
    <3>1. h = [i \in 0..k |-> h[i]]
      BY DEF h
    <3>. QED  BY <3>1, <2>2
  <2>4. k \in 0..n
    OBVIOUS
  <2>. HIDE DEF h
  <2>. QED  BY <2>3, <2>4
<1>3. n \in T
  <2>. HIDE DEF T, n
  <2>1. 0..n \subseteq T
    BY <1>0, <1>1, <1>2, Induct
  <2>. QED  BY <2>1, <1>0
<1>4. PICK g : g = [i \in 0..Len(t) |-> KeptStep(t, keep, g, i)]
  BY <1>3
<1>. DEFINE kept == CHOOSE f : f = [i \in 0..Len(t) |->
                       IF i = 0 THEN <<>>
                       ELSE IF t[i] \in keep THEN Append(f[i - 1], t[i]) ELSE f[i - 1]]
<1>5. Keep(t, keep) = kept[Len(t)]
  BY DEF Keep
<1>6. kept = [i \in 0..Len(t) |-> KeptStep(t, keep, kept, i)]
  BY <1>4 DEF KeptStep
<1>. QED  BY <1>5, <1>6 DEF IsKept

\* The leaves that are kept are leaves of the layout, each at a place of its own.
LEMMA KeepPlaces ==
  ASSUME NEW X, NEW t \in Seq(X), NEW keep
  PROVE  \E m \in Nat : \E e \in [1..m -> DOMAIN t] :
           /\ Keep(t, keep) = [k \in 1..m |-> t[e[k]]]
           /\ \A a, b \in 1..m : e[a] = e[b] => a = b
           /\ \A j \in DOMAIN t : t[j] \in keep <=> \E k \in 1..m : e[k] = j
<1>. DEFINE At(g, i, m, e) == /\ g[i] = [k \in 1..m |-> t[e[k]]]
                              /\ \A a, b \in 1..m : e[a] = e[b] => a = b
                              /\ \A j \in 1..i : t[j] \in keep <=> \E k \in 1..m : e[k] = j
<1>1. PICK g : IsKept(t, keep, g) /\ Keep(t, keep) = g[Len(t)]
  BY KeepRecursion
<1>. DEFINE T == {i \in 0..Len(t) : \E m \in Nat : \E e \in [1..m -> 1..i] : At(g, i, m, e)}
<1>2. 0 \in T
  <2>1. g[0] = <<>>
    BY <1>1 DEF IsKept, KeptStep
  <2>2. At(g, 0, 0, <<>>) /\ <<>> \in [1..0 -> 1..0] /\ 0 \in Nat /\ 0 \in 0..Len(t)
    BY <2>1
  <2>. HIDE DEF At
  <2>. QED  BY <2>2
<1>3. ASSUME NEW i \in 1..Len(t), i - 1 \in T PROVE i \in T
  <2>0. PICK m \in Nat : \E e \in [1..m -> 1..i - 1] : At(g, i - 1, m, e)
    BY <1>3
  <2>1. PICK e \in [1..m -> 1..i - 1] : At(g, i - 1, m, e)
    BY <2>0
  <2>2. g[i] = IF t[i] \in keep THEN Append(g[i - 1], t[i]) ELSE g[i - 1]
    <3>1. i \in 0..Len(t) /\ i # 0
      OBVIOUS
    <3>2. g[i] = KeptStep(t, keep, g, i)
      BY <1>1, <3>1 DEF IsKept
    <3>. QED  BY <3>1, <3>2 DEF KeptStep
  <2>3. CASE t[i] \in keep
    <3>. DEFINE f == [k \in 1..m + 1 |-> IF k = m + 1 THEN i ELSE e[k]]
    <3>1. f \in [1..m + 1 -> 1..i]
      OBVIOUS
    <3>2. g[i] = [k \in 1..m + 1 |-> t[f[k]]]
      <4>1. \A k \in 1..m : t[e[k]] \in X
        OBVIOUS
      <4>2. g[i - 1] \in Seq(X) /\ Len(g[i - 1]) = m /\ t[i] \in X
        BY <2>1, <4>1
      <4>3. g[i] = Append(g[i - 1], t[i])
        BY <2>2, <2>3
      <4>4. \A k \in 1..m : g[i - 1][k] = t[e[k]]
        BY <2>1
      <4>. QED  BY <4>2, <4>3, <4>4
    <3>3. ASSUME NEW a \in 1..m + 1, NEW b \in 1..m + 1, f[a] = f[b] PROVE a = b
      <4>1. \A k \in 1..m : f[k] = e[k] /\ e[k] # i
        OBVIOUS
      <4>. QED  BY <3>3, <4>1, <2>1
    <3>4. ASSUME NEW j \in 1..i PROVE t[j] \in keep <=> \E k \in 1..m + 1 : f[k] = j
      <4>1. CASE j = i
        <5>1. f[m + 1] = i /\ m + 1 \in 1..m + 1
          OBVIOUS
        <5>. HIDE DEF f
        <5>. QED  BY <4>1, <5>1, <2>3
      <4>2. CASE j # i
        <5>1. j \in 1..i - 1
          BY <4>2
        <5>2. t[j] \in keep <=> \E k \in 1..m : e[k] = j
          BY <5>1, <2>1
        <5>3. (\E k \in 1..m : e[k] = j) <=> \E k \in 1..m + 1 : f[k] = j
          BY <4>2
        <5>. QED  BY <5>2, <5>3
      <4>. QED  BY <4>1, <4>2
    <3>5. At(g, i, m + 1, f)
      <4>. HIDE DEF f
      <4>. QED  BY <3>2, <3>3, <3>4
    <3>. HIDE DEF f, At
    <3>. QED  BY <3>1, <3>5
  <2>4. CASE t[i] \notin keep
    <3>1. At(g, i, m, e)
      <4>1. ASSUME NEW j \in 1..i PROVE t[j] \in keep <=> \E k \in 1..m : e[k] = j
        <5>1. CASE j = i
          BY <5>1, <2>4
        <5>2. CASE j # i
          <6>1. j \in 1..i - 1
            BY <5>2
          <6>. QED  BY <6>1, <2>1
        <5>. QED  BY <5>1, <5>2
      <4>. QED  BY <2>1, <2>2, <2>4, <4>1
    <3>2. e \in [1..m -> 1..i]
      OBVIOUS
    <3>. HIDE DEF At
    <3>. QED  BY <3>1, <3>2
  <2>. QED  BY <2>3, <2>4
<1>4. Len(t) \in T
  <2>1. Len(t) \in Nat
    OBVIOUS
  <2>. HIDE DEF T
  <2>2. 0..Len(t) \subseteq T
    BY <1>2, <1>3, <2>1, Induct
  <2>. QED  BY <2>1, <2>2
<1>5. PICK m \in Nat : \E e \in [1..m -> 1..Len(t)] : At(g, Len(t), m, e)
  BY <1>4
<1>8. PICK e \in [1..m -> 1..Len(t)] : At(g, Len(t), m, e)
  BY <1>5
<1>6. DOMAIN t = 1..Len(t)
  OBVIOUS
<1>7. /\ e \in [1..m -> DOMAIN t]
      /\ Keep(t, keep) = [k \in 1..m |-> t[e[k]]]
      /\ \A a, b \in 1..m : e[a] = e[b] => a = b
      /\ \A j \in DOMAIN t : t[j] \in keep <=> \E k \in 1..m : e[k] = j
  BY <1>1, <1>8, <1>6
<1>. QED  BY <1>7

\* What of a layout the part that is kept has.
LEMMA KeepFacts ==
  ASSUME NEW X, NEW t \in Seq(X), NEW keep
  PROVE  /\ Keep(t, keep) \in Seq(X)
         /\ ToSet(Keep(t, keep)) = ToSet(t) \cap keep
         /\ IsInjective(t) => IsInjective(Keep(t, keep))
         /\ \A p \in keep : Once(t, p) => Once(Keep(t, keep), p)
         /\ Keep(t, keep) = <<>> <=> ToSet(t) \cap keep = {}
<1>0. PICK m \in Nat : \E e \in [1..m -> DOMAIN t] :
        /\ Keep(t, keep) = [k \in 1..m |-> t[e[k]]]
        /\ \A a, b \in 1..m : e[a] = e[b] => a = b
        /\ \A j \in DOMAIN t : t[j] \in keep <=> \E k \in 1..m : e[k] = j
  BY KeepPlaces
<1>1. PICK e \in [1..m -> DOMAIN t] :
        /\ Keep(t, keep) = [k \in 1..m |-> t[e[k]]]
        /\ \A a, b \in 1..m : e[a] = e[b] => a = b
        /\ \A j \in DOMAIN t : t[j] \in keep <=> \E k \in 1..m : e[k] = j
  BY <1>0
<1>. DEFINE r == [k \in 1..m |-> t[e[k]]]
<1>2. r \in Seq(X) /\ DOMAIN r = 1..m /\ Len(r) = m /\ \A k \in 1..m : r[k] = t[e[k]] /\ e[k] \in DOMAIN t
  <2>1. \A k \in 1..m : t[e[k]] \in X
    OBVIOUS
  <2>. QED  BY <2>1
<1>3. Keep(t, keep) = r
  BY <1>1
<1>. HIDE DEF r
<1>4. ToSet(r) = ToSet(t) \cap keep
  <2>1. ASSUME NEW x \in ToSet(r) PROVE x \in ToSet(t) \cap keep
    <3>1. PICK k \in 1..m : x = r[k]
      BY <1>2 DEF ToSet
    <3>2. e[k] \in DOMAIN t /\ t[e[k]] \in keep
      BY <1>1
    <3>. QED  BY <1>2, <3>1, <3>2 DEF ToSet
  <2>2. ASSUME NEW x \in ToSet(t) \cap keep PROVE x \in ToSet(r)
    <3>1. PICK j \in DOMAIN t : x = t[j]
      BY DEF ToSet
    <3>2. PICK k \in 1..m : e[k] = j
      BY <1>1, <3>1
    <3>. QED  BY <1>2, <3>1, <3>2 DEF ToSet
  <2>. QED  BY <2>1, <2>2
<1>5. IsInjective(t) => IsInjective(r)
  BY <1>1, <1>2 DEF IsInjective
<1>6. ASSUME NEW p \in keep, Once(t, p) PROVE Once(r, p)
  <2>1. PICK i \in DOMAIN t : \A j \in DOMAIN t : t[j] = p <=> j = i
    BY <1>6 DEF Once
  <2>2. PICK k \in 1..m : e[k] = i
    BY <1>1, <2>1
  <2>3. \A j \in 1..m : r[j] = p <=> j = k
    BY <1>1, <1>2, <2>1, <2>2
  <2>4. k \in DOMAIN r /\ \A j \in DOMAIN r : r[j] = p <=> j = k
    BY <1>2, <2>3
  <2>. QED  BY <2>4 DEF Once
<1>7. r = <<>> <=> ToSet(r) = {}
  <2>1. r = <<>> <=> m = 0
    BY <1>2
  <2>2. m = 0 => ToSet(r) = {}
    BY <1>2 DEF ToSet
  <2>3. m # 0 => r[1] \in ToSet(r)
    BY <1>2 DEF ToSet
  <2>. QED  BY <2>1, <2>2, <2>3
<1>. QED  BY <1>2, <1>3, <1>4, <1>5, <1>6, <1>7

------------------------------------------------------------------------------
(* Layouts *)

\* A layout without duplicates has each of its panes once.
LEMMA OnceFacts ==
  ASSUME NEW t
  PROVE  /\ \A p : Once(t, p) => p \in ToSet(t)
         /\ IsInjective(t) <=> \A p \in ToSet(t) : Once(t, p)
<1>1. ASSUME NEW p, Once(t, p) PROVE p \in ToSet(t)
  BY <1>1 DEF Once, ToSet
<1>2. ASSUME IsInjective(t), NEW p \in ToSet(t) PROVE Once(t, p)
  <2>1. PICK i \in DOMAIN t : t[i] = p
    BY DEF ToSet
  <2>2. \A j \in DOMAIN t : t[j] = p <=> j = i
    BY <1>2, <2>1 DEF IsInjective
  <2>. QED  BY <2>1, <2>2 DEF Once
<1>3. ASSUME \A p \in ToSet(t) : Once(t, p), NEW a \in DOMAIN t, NEW b \in DOMAIN t, t[a] = t[b] PROVE a = b
  <2>1. Once(t, t[a])
    BY <1>3 DEF ToSet
  <2>. QED  BY <1>3, <2>1 DEF Once
<1>. QED  BY <1>1, <1>2, <1>3 DEF IsInjective

\* Two sequences, one behind the other.
LEMMA Joined ==
  ASSUME NEW X, NEW t \in Seq(X), NEW u \in Seq(X)
  PROVE  /\ t \o u \in Seq(X) /\ DOMAIN (t \o u) = 1..Len(t) + Len(u) /\ Len(t \o u) = Len(t) + Len(u)
         /\ \A i \in 1..Len(t) : (t \o u)[i] = t[i]
         /\ \A i \in Len(t) + 1..Len(t) + Len(u) : (t \o u)[i] = u[i - Len(t)]
OBVIOUS

\* Panes beside those of a layout.
LEMMA JoinFacts ==
  ASSUME NEW X, NEW t \in Seq(X), NEW u \in Seq(X)
  PROVE  /\ t \o u \in Seq(X)
         /\ ToSet(t \o u) = ToSet(t) \cup ToSet(u)
         /\ \A p : p \notin ToSet(u) /\ Once(t, p) => Once(t \o u, p)
         /\ \A p : p \notin ToSet(t) /\ Once(u, p) => Once(t \o u, p)
         /\ u # <<>> \/ t # <<>> => t \o u # <<>>
<1>. DEFINE r == t \o u
<1>1. /\ r \in Seq(X) /\ DOMAIN r = 1..Len(t) + Len(u)
      /\ \A i \in 1..Len(t) : r[i] = t[i]
      /\ \A i \in Len(t) + 1..Len(t) + Len(u) : r[i] = u[i - Len(t)]
      /\ DOMAIN t = 1..Len(t) /\ DOMAIN u = 1..Len(u) /\ Len(t) \in Nat /\ Len(u) \in Nat
  OBVIOUS
<1>. HIDE DEF r
<1>2. ASSUME NEW x \in ToSet(r) PROVE x \in ToSet(t) \cup ToSet(u)
  <2>1. PICK i \in DOMAIN r : x = r[i]
    BY DEF ToSet
  <2>2. CASE i <= Len(t)
    BY <1>1, <2>1, <2>2 DEF ToSet
  <2>3. CASE ~(i <= Len(t))
    <3>1. i \in Len(t) + 1..Len(t) + Len(u) /\ i - Len(t) \in DOMAIN u
      BY <1>1, <2>3
    <3>. QED  BY <1>1, <2>1, <3>1 DEF ToSet
  <2>. QED  BY <2>2, <2>3
<1>3. ASSUME NEW x \in ToSet(t) PROVE x \in ToSet(r)
  <2>1. PICK i \in DOMAIN t : x = t[i]
    BY DEF ToSet
  <2>. QED  BY <1>1, <2>1 DEF ToSet
<1>4. ASSUME NEW x \in ToSet(u) PROVE x \in ToSet(r)
  <2>1. PICK i \in DOMAIN u : x = u[i]
    BY DEF ToSet
  <2>2. i + Len(t) \in Len(t) + 1..Len(t) + Len(u) /\ (i + Len(t)) - Len(t) = i
    BY <1>1
  <2>3. r[i + Len(t)] = u[i] /\ i + Len(t) \in DOMAIN r
    BY <1>1, <2>2
  <2>. QED  BY <2>1, <2>3 DEF ToSet
<1>5. ASSUME NEW p, p \notin ToSet(u), Once(t, p) PROVE Once(r, p)
  <2>1. PICK i \in DOMAIN t : \A j \in DOMAIN t : t[j] = p <=> j = i
    BY <1>5 DEF Once
  <2>2. ASSUME NEW j \in DOMAIN r PROVE r[j] = p <=> j = i
    <3>1. CASE j <= Len(t)
      BY <1>1, <2>1, <3>1
    <3>2. CASE ~(j <= Len(t))
      <4>1. j \in Len(t) + 1..Len(t) + Len(u) /\ j - Len(t) \in DOMAIN u /\ j # i
        BY <1>1, <3>2
      <4>2. u[j - Len(t)] # p
        BY <1>5, <4>1 DEF ToSet
      <4>. QED  BY <1>1, <4>1, <4>2
    <3>. QED  BY <3>1, <3>2
  <2>3. i \in DOMAIN r
    BY <1>1
  <2>. QED  BY <2>2, <2>3 DEF Once
<1>6. ASSUME NEW p, p \notin ToSet(t), Once(u, p) PROVE Once(r, p)
  <2>1. PICK i \in DOMAIN u : \A j \in DOMAIN u : u[j] = p <=> j = i
    BY <1>6 DEF Once
  <2>2. ASSUME NEW j \in DOMAIN r PROVE r[j] = p <=> j = i + Len(t)
    <3>1. CASE j <= Len(t)
      <4>1. j \in DOMAIN t /\ j # i + Len(t)
        BY <1>1, <3>1
      <4>2. t[j] # p
        BY <1>6, <4>1 DEF ToSet
      <4>. QED  BY <1>1, <4>1, <4>2
    <3>2. CASE ~(j <= Len(t))
      <4>1. j \in Len(t) + 1..Len(t) + Len(u) /\ j - Len(t) \in DOMAIN u
        BY <1>1, <3>2
      <4>2. r[j] = p <=> j - Len(t) = i
        BY <1>1, <2>1, <4>1
      <4>. QED  BY <1>1, <4>1, <4>2
    <3>. QED  BY <3>1, <3>2
  <2>3. i + Len(t) \in DOMAIN r
    BY <1>1
  <2>. QED  BY <2>2, <2>3 DEF Once
<1>7. u # <<>> \/ t # <<>> => r # <<>>
  <2>1. Len(r) = Len(t) + Len(u)
    BY DEF r
  <2>2. u # <<>> => Len(u) # 0
    OBVIOUS
  <2>3. t # <<>> => Len(t) # 0
    OBVIOUS
  <2>. QED  BY <1>1, <2>1, <2>2, <2>3
<1>. QED  BY <1>1, <1>2, <1>3, <1>4, <1>5, <1>6, <1>7 DEF r

\* A subtree gives way to others.
LEMMA SetAtFacts ==
  ASSUME NEW X, NEW t \in Seq(X), NEW i \in DOMAIN t, NEW j \in DOMAIN t, i <= j,
         NEW nodes \in Seq(X), nodes # <<>>
  PROVE  /\ SetAt(t, i, j, nodes) \in Seq(X) \ {<<>>}
         /\ ToSet(SetAt(t, i, j, nodes)) \subseteq ToSet(t) \cup ToSet(nodes)
         /\ ToSet(nodes) \subseteq ToSet(SetAt(t, i, j, nodes))
<1>. DEFINE before == SubSeq(t, 1, i - 1)  after == SubSeq(t, j + 1, Len(t))
<1>1. before \in Seq(X) /\ after \in Seq(X)
  OBVIOUS
<1>2. ToSet(before) \subseteq ToSet(t) /\ ToSet(after) \subseteq ToSet(t)
  <2>1. ASSUME NEW k \in DOMAIN before PROVE before[k] \in ToSet(t)
    <3>1. k \in DOMAIN t /\ before[k] = t[k]
      OBVIOUS
    <3>. QED  BY <3>1 DEF ToSet
  <2>2. ASSUME NEW k \in DOMAIN after PROVE after[k] \in ToSet(t)
    <3>1. k + j \in DOMAIN t /\ after[k] = t[k + j]
      OBVIOUS
    <3>. QED  BY <3>1 DEF ToSet
  <2>. HIDE DEF before, after
  <2>. QED  BY <2>1, <2>2 DEF ToSet
<1>. HIDE DEF before, after
<1>3. /\ before \o nodes \in Seq(X) /\ before \o nodes # <<>>
      /\ ToSet(before \o nodes) = ToSet(before) \cup ToSet(nodes)
  BY <1>1, JoinFacts
<1>4. /\ (before \o nodes) \o after \in Seq(X) /\ (before \o nodes) \o after # <<>>
      /\ ToSet((before \o nodes) \o after) = ToSet(before \o nodes) \cup ToSet(after)
  BY <1>1, <1>3, JoinFacts
<1>5. SetAt(t, i, j, nodes) = (before \o nodes) \o after
  BY DEF SetAt, before, after
<1>. QED  BY <1>2, <1>3, <1>4, <1>5

\* A leaf gives way to itself and a new one.
LEMMA SplitFacts ==
  ASSUME NEW X, NEW t \in Seq(X), NEW i \in DOMAIN t, NEW x \in X, x \notin ToSet(t),
         NEW nodes, nodes = <<t[i], x>> \/ nodes = <<x, t[i]>>
  PROVE  /\ SetAt(t, i, i, nodes) \in Seq(X) \ {<<>>}
         /\ ToSet(SetAt(t, i, i, nodes)) = ToSet(t) \cup {x}
         /\ \A p : Once(t, p) => Once(SetAt(t, i, i, nodes), p)
         /\ Once(SetAt(t, i, i, nodes), x)
<1>. DEFINE r == SetAt(t, i, i, nodes)
            at == IF nodes = <<x, t[i]>> THEN i ELSE i + 1
            new(k) == IF k < at THEN k ELSE k + 1
<1>0. /\ t[i] \in X /\ nodes \in Seq(X) /\ nodes # <<>> /\ i <= i /\ i \in Nat \ {0} /\ i <= Len(t) /\ Len(t) \in Nat
      /\ DOMAIN t = 1..Len(t) /\ t[i] # x
  <2>1. t[i] \in ToSet(t)
    BY DEF ToSet
  <2>2. nodes \in Seq(X) /\ nodes # <<>>
    <3>1. CASE nodes = <<t[i], x>>
      BY <3>1
    <3>2. CASE nodes = <<x, t[i]>>
      BY <3>2
    <3>. QED  BY <3>1, <3>2
  <2>3. i <= i /\ i \in Nat \ {0} /\ i <= Len(t) /\ Len(t) \in Nat /\ DOMAIN t = 1..Len(t) /\ t[i] \in X
    OBVIOUS
  <2>. QED  BY <2>1, <2>2, <2>3
<1>1. r \in Seq(X) \ {<<>>} /\ ToSet(r) \subseteq ToSet(t) \cup ToSet(nodes)
  BY <1>0, SetAtFacts
<1>2. /\ DOMAIN r = 1..Len(t) + 1
      /\ \A k \in 1..Len(t) + 1 : r[k] = IF k < i THEN t[k] ELSE IF k = i THEN nodes[1]
                                         ELSE IF k = i + 1 THEN nodes[2] ELSE t[k - 1]
  <2>. DEFINE before == SubSeq(t, 1, i - 1)  after == SubSeq(t, i + 1, Len(t))
  <2>1. /\ before \in Seq(X) /\ Len(before) = i - 1 /\ \A k \in 1..i - 1 : before[k] = t[k]
        /\ after \in Seq(X) /\ Len(after) = Len(t) - i /\ \A k \in 1..Len(t) - i : after[k] = t[k + i]
        /\ Len(nodes) = 2
    <3>1. before \in Seq(X) /\ Len(before) = i - 1 /\ \A k \in 1..i - 1 : before[k] = t[k]
      BY <1>0
    <3>2. after \in Seq(X) /\ Len(after) = Len(t) - i /\ \A k \in 1..Len(t) - i : after[k] = t[k + i]
      BY <1>0
    <3>. QED  BY <1>0, <3>1, <3>2
  <2>2. r = (before \o nodes) \o after
    BY DEF SetAt
  <2>. HIDE DEF before, after, r
  <2>. DEFINE front == before \o nodes
  <2>3. /\ front \in Seq(X) /\ Len(front) = i + 1
        /\ \A k \in 1..i + 1 : front[k] = IF k < i THEN before[k] ELSE nodes[k - (i - 1)]
    <3>1. /\ front \in Seq(X) /\ Len(front) = Len(before) + Len(nodes)
          /\ \A k \in 1..Len(before) : front[k] = before[k]
          /\ \A k \in Len(before) + 1..Len(before) + Len(nodes) : front[k] = nodes[k - Len(before)]
      <4>1. before \in Seq(X) /\ nodes \in Seq(X)
        BY <1>0, <2>1
      <4>. QED  BY <4>1, Joined
    <3>. HIDE DEF front
    <3>2. Len(front) = i + 1 /\ Len(before) + 1 = i /\ Len(before) + Len(nodes) = i + 1
      BY <1>0, <2>1, <3>1
    <3>3. ASSUME NEW k \in 1..i + 1 PROVE front[k] = IF k < i THEN before[k] ELSE nodes[k - (i - 1)]
      <4>1. CASE k < i
        BY <1>0, <2>1, <3>1, <4>1
      <4>2. CASE ~(k < i)
        <5>1. k \in Len(before) + 1..Len(before) + Len(nodes) /\ k - Len(before) = k - (i - 1)
          BY <1>0, <2>1, <3>2, <4>2
        <5>. QED  BY <3>1, <4>2, <5>1
      <4>. QED  BY <4>1, <4>2
    <3>. QED  BY <3>1, <3>2, <3>3
  <2>4. /\ Len(front \o after) = Len(t) + 1 /\ DOMAIN (front \o after) = 1..Len(t) + 1
        /\ \A k \in 1..Len(t) + 1 : (front \o after)[k] = IF k <= i + 1 THEN front[k] ELSE after[k - (i + 1)]
    <3>. HIDE DEF front
    <3>1. /\ Len(front \o after) = Len(front) + Len(after)
          /\ DOMAIN (front \o after) = 1..Len(front) + Len(after)
          /\ \A k \in 1..Len(front) : (front \o after)[k] = front[k]
          /\ \A k \in Len(front) + 1..Len(front) + Len(after) : (front \o after)[k] = after[k - Len(front)]
      <4>1. front \in Seq(X) /\ after \in Seq(X)
        BY <2>1, <2>3
      <4>. QED  BY <4>1, Joined
    <3>. QED  BY <1>0, <2>1, <2>3, <3>1
  <2>. HIDE DEF front
  <2>5. ASSUME NEW k \in 1..Len(t) + 1
        PROVE  r[k] = IF k < i THEN t[k] ELSE IF k = i THEN nodes[1]
                      ELSE IF k = i + 1 THEN nodes[2] ELSE t[k - 1]
    <3>1. CASE k < i
      BY <1>0, <2>1, <2>2, <2>3, <2>4, <3>1 DEF front
    <3>2. CASE k = i \/ k = i + 1
      BY <1>0, <2>1, <2>2, <2>3, <2>4, <3>2 DEF front
    <3>3. CASE k > i + 1
      <4>1. k - (i + 1) \in 1..Len(t) - i /\ (k - (i + 1)) + i = k - 1
        BY <1>0, <3>3
      <4>. QED  BY <1>0, <2>1, <2>2, <2>4, <3>3, <4>1 DEF front
    <3>. QED  BY <1>0, <3>1, <3>2, <3>3
  <2>. QED  BY <2>2, <2>4, <2>5 DEF front
<1>. HIDE DEF r
<1>3. /\ at \in 1..Len(t) + 1 /\ r[at] = x
      /\ \A k \in 1..Len(t) : new(k) \in 1..Len(t) + 1 /\ new(k) # at /\ r[new(k)] = t[k]
      /\ \A k \in 1..Len(t) + 1 : k # at => \E l \in 1..Len(t) : k = new(l)
  <2>1. nodes[1] = (IF at = i THEN x ELSE t[i]) /\ nodes[2] = (IF at = i THEN t[i] ELSE x)
    BY <1>0
  <2>2. at \in 1..Len(t) + 1 /\ r[at] = x /\ at \in {i, i + 1}
    BY <1>0, <1>2, <2>1
  <2>. HIDE DEF at
  <2>3. ASSUME NEW k \in 1..Len(t)
        PROVE  new(k) \in 1..Len(t) + 1 /\ new(k) # at /\ r[new(k)] = t[k]
    <3>1. new(k) \in 1..Len(t) + 1 /\ new(k) # at
      BY <1>0, <2>2
    <3>2. CASE k < i
      BY <1>0, <1>2, <2>2, <3>2
    <3>3. CASE k = i
      BY <1>0, <1>2, <2>1, <2>2, <3>3
    <3>4. CASE k > i
      <4>1. new(k) = k + 1 /\ k + 1 > i + 1 /\ (k + 1) - 1 = k
        BY <1>0, <2>2, <3>4
      <4>. QED  BY <1>0, <1>2, <3>1, <4>1
    <3>. QED  BY <1>0, <3>1, <3>2, <3>3, <3>4
  <2>4. ASSUME NEW k \in 1..Len(t) + 1, k # at PROVE \E l \in 1..Len(t) : k = new(l)
    <3>1. CASE k < at
      <4>1. k \in 1..Len(t) /\ k = new(k)
        BY <1>0, <2>2, <3>1
      <4>. QED  BY <4>1
    <3>2. CASE k > at
      <4>1. k - 1 \in 1..Len(t) /\ k = new(k - 1)
        BY <1>0, <2>2, <3>2
      <4>. QED  BY <4>1
    <3>. QED  BY <1>0, <2>2, <2>4, <3>1, <3>2
  <2>. QED  BY <2>2, <2>3, <2>4
<1>4. \A k, l \in 1..Len(t) : new(k) = new(l) => k = l
  BY <1>0
<1>. HIDE DEF at, new
<1>5. x \in ToSet(r) /\ ToSet(t) \subseteq ToSet(r) /\ ToSet(nodes) = {t[i], x} /\ t[i] \in ToSet(t)
  <2>1. \A k \in 1..Len(t) : t[k] \in ToSet(r)
    <3>. SUFFICES ASSUME NEW k \in 1..Len(t) PROVE t[k] \in ToSet(r)
      OBVIOUS
    <3>1. new(k) \in DOMAIN r /\ r[new(k)] = t[k]
      BY <1>2, <1>3
    <3>. QED  BY <3>1 DEF ToSet
  <2>2. ToSet(nodes) = {t[i], x}
    <3>1. DOMAIN nodes = {1, 2} /\ {nodes[1], nodes[2]} = {t[i], x}
      OBVIOUS
    <3>. QED  BY <3>1 DEF ToSet
  <2>3. x \in ToSet(r)
    BY <1>2, <1>3 DEF ToSet
  <2>4. ToSet(t) \subseteq ToSet(r) /\ t[i] \in ToSet(t)
    BY <1>0, <2>1 DEF ToSet
  <2>. QED  BY <2>2, <2>3, <2>4
<1>6. Once(r, x)
  <2>1. \A k \in 1..Len(t) : t[k] # x
    BY <1>0 DEF ToSet
  <2>2. ASSUME NEW k \in 1..Len(t) + 1 PROVE r[k] = x <=> k = at
    BY <1>3, <2>1
  <2>3. at \in DOMAIN r /\ \A k \in DOMAIN r : r[k] = x <=> k = at
    BY <1>2, <1>3, <2>2
  <2>. QED  BY <2>3 DEF Once
<1>7. ASSUME NEW p, Once(t, p) PROVE Once(r, p)
  <2>0. PICK k \in DOMAIN t : \A l \in DOMAIN t : t[l] = p <=> l = k
    BY <1>7 DEF Once
  <2>1. k \in 1..Len(t) /\ \A l \in 1..Len(t) : t[l] = p <=> l = k
    BY <1>0, <2>0
  <2>2. p # x
    BY <1>0, <2>1 DEF ToSet
  <2>3. ASSUME NEW l \in 1..Len(t) + 1 PROVE r[l] = p <=> l = new(k)
    <3>1. CASE l = at
      BY <1>3, <2>2, <3>1
    <3>2. CASE l # at
      <4>1. PICK y \in 1..Len(t) : l = new(y)
        BY <1>3, <3>2
      <4>2. r[l] = t[y]
        BY <1>3, <4>1
      <4>. QED  BY <1>4, <2>1, <4>1, <4>2
    <3>. QED  BY <3>1, <3>2
  <2>4. new(k) \in 1..Len(t) + 1
    BY <1>3
  <2>5. new(k) \in DOMAIN r /\ \A l \in DOMAIN r : r[l] = p <=> l = new(k)
    BY <1>2, <2>3, <2>4
  <2>. QED  BY <2>5 DEF Once
<1>. QED  BY <1>1, <1>5, <1>6, <1>7 DEF r

------------------------------------------------------------------------------
(* Choices: the neighbour of a pane, the next tab, the stack of tabs       *)

\* The least member of a set of numbers.
LEMMA MinFacts ==
  ASSUME NEW S \in SUBSET Nat, S # {}
  PROVE  Min(S) \in S /\ \A x \in S : Min(S) <= x
<1>1. \E x \in S : \A y \in S : x <= y
  BY Least
<1>. QED  BY <1>1 DEF Min

\* The greatest member of a set of numbers up to n.
LEMMA MaxFacts ==
  ASSUME NEW n \in Nat, NEW S \in SUBSET (0..n), S # {}
  PROVE  Max(S) \in S
<1>. DEFINE T == {n - x : x \in S}
<1>1. T \in SUBSET Nat /\ T # {}
  <2>1. \A x \in S : n - x \in Nat /\ n - x \in T
    OBVIOUS
  <2>2. \A y \in T : \E x \in S : y = n - x
    OBVIOUS
  <2>. HIDE DEF T
  <2>. QED  BY <2>1, <2>2
<1>2. PICK k \in T : \A y \in T : k <= y
  BY <1>1, Least
<1>3. PICK x \in S : k = n - x
  BY <1>2
<1>4. \A y \in S : x >= y
  <2>. SUFFICES ASSUME NEW y \in S PROVE x >= y
    OBVIOUS
  <2>1. n - x <= n - y
    BY <1>2, <1>3
  <2>. QED  BY <2>1
<1>. QED  BY <1>4 DEF Max

\* The neighbour of a pane is a pane of the layout, another one if the pane is there once.
LEMMA AdjacentFacts ==
  ASSUME NEW X, NEW t \in Seq(X), Len(t) >= 2, NEW p
  PROVE  /\ Adjacent(t, p) \in ToSet(t)
         /\ IsInjective(t) /\ p \in ToSet(t) => Adjacent(t, p) # p
<1>. DEFINE at == Places(t, p)
<1>1. at \in SUBSET Nat /\ at = {i \in DOMAIN t : t[i] = p} /\ DOMAIN t = 1..Len(t) /\ Len(t) \in Nat
  BY DEF Places
<1>. HIDE DEF at
<1>2. CASE at = {}
  <2>1. Adjacent(t, p) = t[1] /\ 1 \in DOMAIN t
    BY <1>1, <1>2 DEF Adjacent, at
  <2>2. p \notin ToSet(t)
    BY <1>1, <1>2 DEF ToSet
  <2>. QED  BY <2>1, <2>2 DEF ToSet
<1>3. CASE at # {}
  <2>1. Min(at) \in at
    BY <1>1, <1>3, MinFacts
  <2>2. PICK k \in DOMAIN t : k # Min(at) /\ Adjacent(t, p) = t[k]
    <3>1. CASE Min(at) < Len(t)
      <4>1. Min(at) + 1 \in DOMAIN t /\ Min(at) + 1 # Min(at) /\ Adjacent(t, p) = t[Min(at) + 1]
        BY <1>1, <1>3, <2>1, <3>1 DEF Adjacent, at
      <4>. QED  BY <4>1
    <3>2. CASE ~(Min(at) < Len(t))
      <4>1. Min(at) - 1 \in DOMAIN t /\ Min(at) - 1 # Min(at) /\ Adjacent(t, p) = t[Min(at) - 1]
        BY <1>1, <1>3, <2>1, <3>2 DEF Adjacent, at
      <4>. QED  BY <4>1
    <3>. QED  BY <3>1, <3>2
  <2>3. t[Min(at)] = p /\ Min(at) \in DOMAIN t
    BY <1>1, <2>1
  <2>. QED  BY <2>2, <2>3 DEF ToSet, IsInjective
<1>. QED  BY <1>2, <1>3

\* Without: what remains is what has not gone.
LEMMA WithoutFacts ==
  ASSUME NEW X, NEW t \in Seq(X), NEW gone
  PROVE  /\ Without(t, gone) \in Seq(X)
         /\ ToSet(Without(t, gone)) = ToSet(t) \ gone
         /\ IsInjective(t) => IsInjective(Without(t, gone))
         /\ \A p : p \notin gone /\ Once(t, p) => Once(Without(t, gone), p)
         /\ Without(t, gone) = <<>> <=> ToSet(t) \subseteq gone
<1>. DEFINE keep == PanesIn(t) \ gone
<1>1. keep = ToSet(t) \ gone /\ Without(t, gone) = Keep(t, keep)
  BY DEF PanesIn, Without
<1>. HIDE DEF keep
<1>2. /\ Keep(t, keep) \in Seq(X)
      /\ ToSet(Keep(t, keep)) = ToSet(t) \cap keep
      /\ IsInjective(t) => IsInjective(Keep(t, keep))
      /\ \A p \in keep : Once(t, p) => Once(Keep(t, keep), p)
      /\ Keep(t, keep) = <<>> <=> ToSet(t) \cap keep = {}
  BY KeepFacts
<1>3. \A p : Once(t, p) => p \in ToSet(t)
  BY OnceFacts
<1>. QED  BY <1>1, <1>2, <1>3

\* A pane drawn in a layout.
LEMMA FirstFacts ==
  ASSUME NEW X, NEW t \in Seq(X), t # <<>>
  PROVE  t[1] \in ToSet(t) /\ t[1] \in X /\ ToSet(t) \subseteq X
<1>1. 1 \in DOMAIN t /\ \A i \in DOMAIN t : t[i] \in X
  OBVIOUS
<1>. QED  BY <1>1 DEF ToSet

\* The front of a sequence.
LEMMA FrontFacts ==
  ASSUME NEW X, NEW u \in Seq(X), NEW k \in Nat
  PROVE  /\ SubSeq(u, 1, Min({Len(u), k})) \in Seq(X)
         /\ \A i \in DOMAIN SubSeq(u, 1, Min({Len(u), k})) :
              i \in DOMAIN u /\ SubSeq(u, 1, Min({Len(u), k}))[i] = u[i]
<1>. DEFINE m == Min({Len(u), k})
<1>1. {Len(u), k} \in SUBSET Nat /\ {Len(u), k} # {}
  OBVIOUS
<1>2. m \in Nat /\ m <= Len(u)
  BY <1>1, MinFacts
<1>. HIDE DEF m
<1>3. SubSeq(u, 1, m) \in Seq(X) /\ \A i \in DOMAIN SubSeq(u, 1, m) : i \in DOMAIN u /\ SubSeq(u, 1, m)[i] = u[i]
  BY <1>2
<1>. QED  BY <1>3 DEF m

\* Tabs are numbers, and none of them is NoTab.
LEMMA TabNumbers ==
  ASSUME NEW s, NEW ty, NEW n \in Nat, Typed(s, ty, n), NEW w
  PROVE  TabsOf(s, w) \in SUBSET (1..n) /\ NoTab \notin TabsOf(s, w) /\ TabsOf(s, w) \in SUBSET Nat
BY DEF Typed, TabsOf, NoTab

\* updateHistoryStack's stack holds tabs of the workspace, each once.
LEMMA PushedFacts ==
  ASSUME NEW s, NEW ty, NEW n \in Nat, Typed(s, ty, n), Live(s), NEW w \in WorkspaceId
  PROVE  /\ Pushed(s, w) \in Seq(0..n) /\ IsInjective(Pushed(s, w))
         /\ ToSet(Pushed(s, w)) \subseteq TabsOf(s, w) \cup {NoTab}
<1>1. s.recent[w] \in Seq(0..n) /\ s.active[w] \in 0..n
  BY DEF Typed
<1>2. ToSet(s.recent[w]) \cup {s.active[w]} \subseteq TabsOf(s, w) \cup {NoTab} /\ IsInjective(s.recent[w])
  BY DEF Live
<1>3. CASE s.active[w] = NoTab
  BY <1>1, <1>2, <1>3 DEF Pushed
<1>4. CASE s.active[w] # NoTab
  <2>. DEFINE a == s.active[w]  rest == Without(s.recent[w], {a})
  <2>1. rest \in Seq(0..n) /\ ToSet(rest) = ToSet(s.recent[w]) \ {a} /\ IsInjective(rest)
    BY <1>1, <1>2, WithoutFacts
  <2>2. Pushed(s, w) = <<a>> \o rest
    BY <1>4 DEF Pushed
  <2>. HIDE DEF rest
  <2>3. <<a>> \in Seq(0..n) /\ ToSet(<<a>>) = {a} /\ Once(<<a>>, a)
    <3>1. DOMAIN <<a>> = {1} /\ <<a>>[1] = a
      OBVIOUS
    <3>. QED  BY <1>1, <3>1 DEF ToSet, Once
  <2>. DEFINE one == <<a>>
  <2>. HIDE DEF one
  <2>4. /\ one \o rest \in Seq(0..n)
        /\ ToSet(one \o rest) = ToSet(one) \cup ToSet(rest)
        /\ \A p : p \notin ToSet(rest) /\ Once(one, p) => Once(one \o rest, p)
        /\ \A p : p \notin ToSet(one) /\ Once(rest, p) => Once(one \o rest, p)
    BY <2>1, <2>3, JoinFacts DEF one
  <2>5. ASSUME NEW p \in ToSet(one \o rest) PROVE Once(one \o rest, p)
    <3>1. CASE p = a
      BY <2>1, <2>3, <2>4, <3>1 DEF one
    <3>2. CASE p # a
      <4>1. p \in ToSet(rest) /\ p \notin ToSet(one)
        BY <2>3, <2>4, <2>5, <3>2 DEF one
      <4>2. Once(rest, p)
        BY <2>1, <4>1, OnceFacts
      <4>. QED  BY <2>4, <4>1, <4>2
    <3>. QED  BY <3>1, <3>2
  <2>6. IsInjective(one \o rest)
    BY <2>5, OnceFacts
  <2>7. Pushed(s, w) = one \o rest
    BY <2>2 DEF one
  <2>. QED  BY <1>2, <2>1, <2>3, <2>4, <2>6, <2>7 DEF one
<1>. QED  BY <1>3, <1>4

\* updateHistoryStack's stack, without the tab that comes and the one that goes.
LEMMA VisitedFacts ==
  ASSUME NEW s, NEW ty, NEW n \in Nat, Typed(s, ty, n), Live(s), NEW w \in WorkspaceId, NEW to, NEW gone
  PROVE  /\ Visited(s, w, to, gone) \in Seq(0..n) /\ IsInjective(Visited(s, w, to, gone))
         /\ ToSet(Visited(s, w, to, gone)) \subseteq (TabsOf(s, w) \cup {NoTab}) \ {gone}
<1>. DEFINE stack == IF s.active[w] = to THEN s.recent[w] ELSE Pushed(s, w)
<1>1. stack \in Seq(0..n) /\ IsInjective(stack) /\ ToSet(stack) \subseteq TabsOf(s, w) \cup {NoTab}
  BY PushedFacts DEF Typed, Live
<1>2. Visited(s, w, to, gone) = Without(stack, {to, gone})
  BY DEF Visited
<1>. HIDE DEF stack
<1>. QED  BY <1>1, <1>2, WithoutFacts

\* The tab that follows one that is closed is another one of the workspace, if there is one.
LEMMA NextTabFacts ==
  ASSUME NEW s, NEW ty, NEW n \in Nat, Typed(s, ty, n), NEW t \in DOMAIN s.tabs
  PROVE  LET others == TabsOf(s, s.tabs[t].ws) \ {t}
         IN /\ others = {} => FindNextTab(s, t) = NoTab
            /\ others # {} => FindNextTab(s, t) \in others
<1>. DEFINE w == s.tabs[t].ws  others == TabsOf(s, w) \ {t}  stack == Keep(s.recent[w], others)
            later == {u \in others : u > t}
<1>1. w \in WorkspaceId /\ s.recent[w] \in Seq(0..n)
  BY DEF Typed
<1>2. others \in SUBSET (1..n) /\ others \in SUBSET (0..n) /\ others \in SUBSET Nat /\ later \in SUBSET Nat
  BY TabNumbers
<1>3. stack \in Seq(0..n) /\ ToSet(stack) \subseteq others
  BY <1>1, KeepFacts
<1>4. stack # <<>> => stack[1] \in others
  <2>. HIDE DEF stack, others
  <2>. QED  BY <1>3, FirstFacts
<1>5. later # {} => Min(later) \in others
  BY <1>2, MinFacts
<1>6. others # {} => Max(others) \in others
  BY <1>2, MaxFacts
<1>7. FindNextTab(s, t) = IF others = {} THEN NoTab ELSE IF stack # <<>> THEN stack[1]
                          ELSE IF later # {} THEN Min(later) ELSE Max(others)
  BY DEF FindNextTab
<1>. HIDE DEF w, others, stack, later
<1>8. (others = {} => FindNextTab(s, t) = NoTab) /\ (others # {} => FindNextTab(s, t) \in others)
  BY <1>4, <1>5, <1>6, <1>7
<1>. QED  BY <1>8 DEF others, w

\* The tab that is shown is one of the workspace, if there is one.
LEMMA ResolveFacts ==
  ASSUME NEW s, NEW ty, NEW n \in Nat, Typed(s, ty, n), NEW w \in WorkspaceId
  PROVE  /\ TabsOf(s, w) = {} => ResolveActive(s, w) = NoTab
         /\ TabsOf(s, w) # {} => ResolveActive(s, w) \in TabsOf(s, w)
         /\ ResolveActive(s, w) # NoTab => ResolveActive(s, w) \in TabsOf(s, w)
<1>. DEFINE all == <<s.active[w]>> \o s.recent[w]  stack == Keep(all, TabsOf(s, w))
<1>1. all \in Seq(0..n)
  BY DEF Typed
<1>2. TabsOf(s, w) \in SUBSET Nat
  BY TabNumbers
<1>. HIDE DEF all
<1>3. stack \in Seq(0..n) /\ ToSet(stack) = ToSet(all) \cap TabsOf(s, w)
  BY <1>1, KeepFacts
<1>4. stack # <<>> => stack[1] \in TabsOf(s, w)
  BY <1>3, FirstFacts
<1>5. stack = <<>> => FirstOf(TabsOf(s, w)) = IF TabsOf(s, w) = {} THEN NoTab ELSE Min(TabsOf(s, w))
  BY DEF FirstOf
<1>6. TabsOf(s, w) # {} => Min(TabsOf(s, w)) \in TabsOf(s, w)
  BY <1>2, MinFacts
<1>7. ResolveActive(s, w) = IF stack = <<>> THEN FirstOf(TabsOf(s, w)) ELSE stack[1]
  BY DEF ResolveActive, all
<1>. HIDE DEF stack
<1>. QED  BY <1>4, <1>5, <1>6, <1>7

------------------------------------------------------------------------------
(* Removals *)

\* What a removal in tab t does to the panes: it changes none, and those that go are
\* panes of the tab or inspect one.
Shrinks(s, r, t) ==
  /\ DOMAIN r.panes \subseteq DOMAIN s.panes /\ \A p \in DOMAIN r.panes : r.panes[p] = s.panes[p]
  /\ \A p \in DOMAIN s.panes \ DOMAIN r.panes : s.panes[p].tab = t \/ type[p] = "devtools"

\* Straight, for one tab.
Upright(s, t, od) == t \in DOMAIN s.tabs \ od => PanesIn(s.tabs[t].layout) \subseteq PanesOf(s, t)

\* What removeTab leaves.
LEMMA RemoveTabFields ==
  ASSUME NEW s, NEW ty, NEW n, Typed(s, ty, n), NEW t \in DOMAIN s.tabs
  PROVE  LET w == s.tabs[t].ws  gone == PanesOf(s, t)
             entry == [tab |-> t, ws |-> w, layout |-> s.tabs[t].layout, panes |-> Restrict(s.panes, gone)]
             stack == <<entry>> \o s.closed
         IN RemoveTab(s, t) =
              [tabs |-> Drop(s.tabs, {t}), panes |-> Drop(s.panes, gone),
               active |-> [s.active EXCEPT ![w] = IF @ = t THEN FindNextTab(s, t) ELSE @],
               focused |-> Drop(s.focused, {t}),
               recent |-> [s.recent EXCEPT ![w] = Without(@, {t})],
               closed |-> SubSeq(stack, 1, Min({Len(stack), MaxClosed})),
               killed |-> s.killed \cup Terminals(gone)]
<1>1. s = [tabs |-> s.tabs, panes |-> s.panes, active |-> s.active, focused |-> s.focused,
           recent |-> s.recent, closed |-> s.closed, killed |-> s.killed]
  BY DEF Typed
<1>. QED  BY <1>1 DEF RemoveTab

\* removeTab leaves a good store, from which it has taken panes of the tab only.
LEMMA RemoveTabGood ==
  ASSUME type \in Seq(Type), NEW n \in Nat, NEW s, NEW tn, NEW od, Good(s, type, n, tn, od), NEW t \in DOMAIN s.tabs
  PROVE  Good(RemoveTab(s, t), type, n, tn, od) /\ Shrinks(s, RemoveTab(s, t), t) /\ Upright(RemoveTab(s, t), t, od)
<1>. DEFINE r == RemoveTab(s, t)  w == s.tabs[t].ws  gone == PanesOf(s, t)
            entry == [tab |-> t, ws |-> w, layout |-> s.tabs[t].layout, panes |-> Restrict(s.panes, gone)]
            stack == <<entry>> \o s.closed
<1>0. Typed(s, type, n) /\ Seen(s, tn) /\ Past(s, tn) /\ Dead(s, type) /\ Live(s) /\ Focus(s, type, od)
  BY DEF Good
<1>1. r = [tabs |-> Drop(s.tabs, {t}), panes |-> Drop(s.panes, gone),
           active |-> [s.active EXCEPT ![w] = IF @ = t THEN FindNextTab(s, t) ELSE @],
           focused |-> Drop(s.focused, {t}),
           recent |-> [s.recent EXCEPT ![w] = Without(@, {t})],
           closed |-> SubSeq(stack, 1, Min({Len(stack), MaxClosed})),
           killed |-> s.killed \cup Terminals(gone)]
  BY <1>0, RemoveTabFields
<1>. HIDE DEF r
<1>2. /\ s.tabs[t] \in [ws : WorkspaceId, layout : Layouts(type)] /\ w \in WorkspaceId
      /\ gone \subseteq DOMAIN s.panes /\ gone = {p \in DOMAIN s.panes : s.panes[p].tab = t}
      /\ t \in 1..n
  BY <1>0 DEF Typed, PanesOf
<1>. HIDE DEF w, gone
<1>3. /\ DOMAIN r.tabs = DOMAIN s.tabs \ {t} /\ \A u \in DOMAIN r.tabs : r.tabs[u] = s.tabs[u]
      /\ DOMAIN r.panes = DOMAIN s.panes \ gone /\ \A p \in DOMAIN r.panes : r.panes[p] = s.panes[p]
      /\ DOMAIN r.focused = DOMAIN s.focused \ {t} /\ \A u \in DOMAIN r.focused : r.focused[u] = s.focused[u]
  BY <1>1 DEF Drop, Restrict
<1>4. entry \in Entry(type, n)
  <2>1. gone \in SUBSET (1..Len(type)) /\ Restrict(s.panes, gone) \in [gone -> [tab : 1..n, target : 0..Len(type)]]
    BY <1>0, <1>2 DEF Typed, Restrict
  <2>2. w \in WorkspaceId /\ s.tabs[t].layout \in Layouts(type)
    BY <1>2
  <2>. QED  BY <1>2, <2>1, <2>2 DEF Entry
<1>5. entry.tab = t /\ entry.layout = s.tabs[t].layout /\ DOMAIN entry.panes = gone
  BY DEF Restrict
<1>. HIDE DEF entry
<1>6. /\ s.closed \in Seq(Entry(type, n)) /\ stack \in Seq(Entry(type, n))
      /\ \A i \in DOMAIN stack : stack[i] = entry \/ \E j \in DOMAIN s.closed : stack[i] = s.closed[j]
  <2>1. s.closed \in Seq(Entry(type, n))
    BY <1>0 DEF Typed
  <2>. QED  BY <1>4, <2>1
<1>. HIDE DEF stack
<1>7. /\ r.closed \in Seq(Entry(type, n))
      /\ \A i \in DOMAIN r.closed : r.closed[i] = entry \/ \E j \in DOMAIN s.closed : r.closed[i] = s.closed[j]
  <2>1. MaxClosed \in Nat /\ r.closed = SubSeq(stack, 1, Min({Len(stack), MaxClosed}))
    BY <1>1, ClosedAssumption
  <2>2. r.closed \in Seq(Entry(type, n)) /\ \A i \in DOMAIN r.closed : i \in DOMAIN stack /\ r.closed[i] = stack[i]
    <3>1. /\ SubSeq(stack, 1, Min({Len(stack), MaxClosed})) \in Seq(Entry(type, n))
          /\ \A i \in DOMAIN SubSeq(stack, 1, Min({Len(stack), MaxClosed})) :
               i \in DOMAIN stack /\ SubSeq(stack, 1, Min({Len(stack), MaxClosed}))[i] = stack[i]
      BY <1>6, <2>1, FrontFacts
    <3>. QED  BY <2>1, <3>1, Zenon
  <2>. QED  BY <1>6, <2>2
<1>8. \A u \in WorkspaceId : TabsOf(r, u) = TabsOf(s, u) \ {t}
  BY <1>3 DEF TabsOf
<1>9. t \in TabsOf(s, w) /\ \A u \in WorkspaceId : u # w => t \notin TabsOf(s, u)
  BY DEF TabsOf, w
<1>10. LET others == TabsOf(s, w) \ {t}
       IN (others = {} => FindNextTab(s, t) = NoTab) /\ (others # {} => FindNextTab(s, t) \in others)
  BY <1>0, NextTabFacts DEF w
<1>11. /\ Without(s.recent[w], {t}) \in Seq(0..n)
       /\ ToSet(Without(s.recent[w], {t})) = ToSet(s.recent[w]) \ {t}
       /\ IsInjective(s.recent[w]) => IsInjective(Without(s.recent[w], {t}))
  <2>1. s.recent[w] \in Seq(0..n)
    BY <1>0, <1>2 DEF Typed
  <2>. QED  BY <2>1, WithoutFacts
<1>12. /\ s.active \in [WorkspaceId -> 0..n] /\ s.recent \in [WorkspaceId -> Seq(0..n)]
       /\ r.active = [s.active EXCEPT ![w] = IF @ = t THEN FindNextTab(s, t) ELSE @]
       /\ r.recent = [s.recent EXCEPT ![w] = Without(@, {t})]
  BY <1>0, <1>1 DEF Typed
<1>13. FindNextTab(s, t) \in 0..n
  <2>1. TabsOf(s, w) \in SUBSET (1..n)
    BY <1>0, TabNumbers
  <2>. QED  BY <1>10, <2>1 DEF NoTab
<1>14. Typed(r, type, n)
  <2>1. r = [tabs |-> r.tabs, panes |-> r.panes, active |-> r.active, focused |-> r.focused,
             recent |-> r.recent, closed |-> r.closed, killed |-> r.killed]
    BY <1>1
  <2>2. DOMAIN r.tabs \subseteq 1..n /\ r.tabs \in [DOMAIN r.tabs -> [ws : WorkspaceId, layout : Layouts(type)]]
    <3>1. r.tabs = [u \in DOMAIN s.tabs \ {t} |-> s.tabs[u]]
      BY <1>1 DEF Drop, Restrict
    <3>. QED  BY <1>0, <3>1 DEF Typed
  <2>3. DOMAIN r.panes \subseteq 1..Len(type) /\ r.panes \in [DOMAIN r.panes -> [tab : 1..n, target : 0..Len(type)]]
    <3>1. r.panes = [p \in DOMAIN s.panes \ gone |-> s.panes[p]]
      BY <1>1 DEF Drop, Restrict
    <3>. QED  BY <1>0, <3>1 DEF Typed
  <2>4. DOMAIN r.focused \subseteq DOMAIN r.tabs /\ r.focused \in [DOMAIN r.focused -> 1..Len(type)]
    <3>1. r.focused = [u \in DOMAIN s.focused \ {t} |-> s.focused[u]]
      BY <1>1 DEF Drop, Restrict
    <3>. QED  BY <1>0, <1>3, <3>1 DEF Typed
  <2>5. r.active \in [WorkspaceId -> 0..n] /\ r.recent \in [WorkspaceId -> Seq(0..n)]
    BY <1>11, <1>12, <1>13
  <2>. QED  BY <1>7, <2>1, <2>2, <2>3, <2>4, <2>5 DEF Typed
<1>15. Seen(r, tn)
  BY <1>0, <1>2, <1>3 DEF Seen
<1>16. Past(r, tn)
  <2>. SUFFICES ASSUME NEW i \in DOMAIN r.closed, r.closed[i].tab \notin tn, NEW p \in DOMAIN r.closed[i].panes
                PROVE  Once(r.closed[i].layout, p)
    BY DEF Past
  <2>1. CASE r.closed[i] = entry
    BY <1>0, <1>2, <1>5, <2>1 DEF Seen
  <2>2. CASE r.closed[i] # entry
    BY <1>0, <1>7, <2>2 DEF Past
  <2>. QED  BY <2>1, <2>2
<1>17. Dead(r, type)
  <2>1. r.killed = s.killed \cup {p \in gone : type[p] = "terminal"} /\ gone \subseteq DOMAIN type
    BY <1>0, <1>1, <1>2 DEF Terminals, Typed
  <2>. QED  BY <1>0, <1>2, <1>3, <2>1 DEF Dead
<1>18. Live(r)
  <2>. SUFFICES ASSUME NEW u \in WorkspaceId
                PROVE  /\ r.active[u] = NoTab <=> TabsOf(r, u) = {}
                       /\ ToSet(r.recent[u]) \cup {r.active[u]} \subseteq TabsOf(r, u) \cup {NoTab}
                       /\ IsInjective(r.recent[u])
    BY DEF Live
  <2>0. /\ s.active[u] = NoTab <=> TabsOf(s, u) = {}
        /\ ToSet(s.recent[u]) \cup {s.active[u]} \subseteq TabsOf(s, u) \cup {NoTab}
        /\ IsInjective(s.recent[u])
    BY <1>0 DEF Live
  <2>1. CASE u = w
    <3>1. r.active[u] = (IF s.active[w] = t THEN FindNextTab(s, t) ELSE s.active[w])
      BY <1>2, <1>12, <2>1
    <3>2. r.recent[u] = Without(s.recent[w], {t})
      BY <1>2, <1>12, <2>1
    <3>3. NoTab \notin TabsOf(s, w)
      BY <1>0, TabNumbers
    <3>. QED  BY <1>8, <1>9, <1>10, <1>11, <2>0, <2>1, <3>1, <3>2, <3>3
  <2>2. CASE u # w
    <3>1. r.active[u] = s.active[u] /\ r.recent[u] = s.recent[u]
      BY <1>12, <2>2
    <3>. QED  BY <1>8, <1>9, <2>0, <2>2, <3>1
  <2>. QED  BY <2>1, <2>2
<1>19. Focus(r, type, od)
  <2>. SUFFICES ASSUME NEW u \in DOMAIN r.focused, u \notin od PROVE Held(r, type, u, r.focused[u])
    BY DEF Focus
  <2>1. u \in DOMAIN s.focused /\ u # t /\ r.focused[u] = s.focused[u]
    BY <1>3
  <2>2. Held(s, type, u, s.focused[u])
    BY <1>0, <2>1 DEF Focus
  <2>. QED  BY <1>2, <1>3, <2>1, <2>2 DEF Held, PanesOf
<1>20. Shrinks(s, r, t) /\ Upright(r, t, od)
  BY <1>2, <1>3 DEF Shrinks, Upright
<1>. QED  BY <1>14, <1>15, <1>16, <1>17, <1>18, <1>19, <1>20 DEF Good, r

\* What removePane leaves.
LEMMA RemovePaneGood ==
  ASSUME type \in Seq(Type), NEW n \in Nat, NEW s, NEW tn, NEW od, Good(s, type, n, tn, od), tn \subseteq od,
         NEW p \in DOMAIN s.panes, Upright(s, s.panes[p].tab, od)
  PROVE  /\ Good(RemovePane(s, p), type, n, tn, od)
         /\ Shrinks(s, RemovePane(s, p), s.panes[p].tab) /\ Upright(RemovePane(s, p), s.panes[p].tab, od)
<1>. DEFINE t == s.panes[p].tab  r == RemovePane(s, p)
            gone == {p} \cup {q \in DOMAIN s.panes : type[q] = "devtools" /\ s.panes[q].target = p}
            layout == s.tabs[t].layout  left == Without(layout, gone)
            next == IF Len(layout) < 2 THEN left[1] ELSE Adjacent(layout, p)
<1>0. Typed(s, type, n) /\ Seen(s, tn) /\ Past(s, tn) /\ Dead(s, type) /\ Live(s) /\ Focus(s, type, od)
  BY DEF Good
<1>1. r = IF PanesOf(s, t) \subseteq gone \/ left = <<>> THEN RemoveTab(s, t)
          ELSE [s EXCEPT !.tabs[t].layout = left, !.panes = Drop(@, gone),
                         !.focused = IF t \in DOMAIN @ /\ @[t] \in gone THEN Put(@, t, next) ELSE @,
                         !.killed = @ \cup Terminals(gone)]
  BY DEF RemovePane
<1>. HIDE DEF r
<1>2. /\ t \in DOMAIN s.tabs /\ layout \in Layouts(type) /\ layout \in Seq(1..Len(type)) /\ layout # <<>>
      /\ s.tabs[t].ws \in WorkspaceId
      /\ gone \subseteq DOMAIN s.panes /\ p \in gone /\ \A q \in gone \ {p} : type[q] = "devtools"
  <2>1. t \in DOMAIN s.tabs
    BY <1>0 DEF Seen
  <2>. QED  BY <1>0, <2>1 DEF Typed, Layouts
<1>3. CASE PanesOf(s, t) \subseteq gone \/ left = <<>>
  <2>1. r = RemoveTab(s, t)
    BY <1>1, <1>3
  <2>. QED  BY <1>2, <2>1, RemoveTabGood DEF r
<1>4. CASE ~(PanesOf(s, t) \subseteq gone \/ left = <<>>)
  <2>. HIDE DEF t, gone, layout, left, next
  <2>1. /\ r.tabs = [s.tabs EXCEPT ![t].layout = left] /\ r.panes = Drop(s.panes, gone)
        /\ r.active = s.active /\ r.recent = s.recent /\ r.closed = s.closed
        /\ r.killed = s.killed \cup Terminals(gone)
        /\ r.focused = IF t \in DOMAIN s.focused /\ s.focused[t] \in gone THEN Put(s.focused, t, next) ELSE s.focused
        /\ r = [tabs |-> r.tabs, panes |-> r.panes, active |-> r.active, focused |-> r.focused,
                recent |-> r.recent, closed |-> r.closed, killed |-> r.killed]
    <3>1. r = [s EXCEPT !.tabs[t].layout = left, !.panes = Drop(@, gone),
                        !.focused = IF t \in DOMAIN @ /\ @[t] \in gone THEN Put(@, t, next) ELSE @,
                        !.killed = @ \cup Terminals(gone)]
      BY <1>1, <1>4
    <3>2. s = [tabs |-> s.tabs, panes |-> s.panes, active |-> s.active, focused |-> s.focused,
               recent |-> s.recent, closed |-> s.closed, killed |-> s.killed]
      BY <1>0 DEF Typed
    <3>. QED  BY <3>1, <3>2
  <2>2. /\ DOMAIN r.tabs = DOMAIN s.tabs /\ \A u \in DOMAIN s.tabs : r.tabs[u].ws = s.tabs[u].ws
        /\ \A u \in DOMAIN s.tabs \ {t} : r.tabs[u] = s.tabs[u]
        /\ r.tabs[t].layout = left
    BY <1>0, <1>2, <2>1 DEF Typed
  <2>3. DOMAIN r.panes = DOMAIN s.panes \ gone /\ \A q \in DOMAIN r.panes : r.panes[q] = s.panes[q]
    BY <2>1 DEF Drop, Restrict
  <2>4. /\ left \in Seq(1..Len(type)) /\ left # <<>> /\ ToSet(left) = ToSet(layout) \ gone
        /\ \A q : q \notin gone /\ Once(layout, q) => Once(left, q)
    BY <1>2, <1>4, WithoutFacts DEF left
  <2>5. /\ next \in ToSet(layout) /\ next \in 1..Len(type)
        /\ (IsInjective(layout) /\ p \in ToSet(layout)) => next # p
    <3>1. CASE Len(layout) < 2
      <4>1. next = left[1] /\ left[1] \in ToSet(left)
        BY <2>4, <3>1, FirstFacts DEF next
      <4>. QED  BY <1>2, <2>4, <4>1, FirstFacts
    <3>2. CASE ~(Len(layout) < 2)
      <4>1. next = Adjacent(layout, p) /\ Len(layout) >= 2
        BY <1>2, <3>2 DEF next
      <4>2. Adjacent(layout, p) \in ToSet(layout) /\ (IsInjective(layout) /\ p \in ToSet(layout) => Adjacent(layout, p) # p)
        BY <1>2, <4>1, AdjacentFacts
      <4>3. ToSet(layout) \subseteq 1..Len(type)
        BY <1>2, FirstFacts
      <4>. QED  BY <4>1, <4>2, <4>3
    <3>. QED  BY <3>1, <3>2
  <2>6. Typed(r, type, n)
    <3>1. r.tabs \in [DOMAIN r.tabs -> [ws : WorkspaceId, layout : Layouts(type)]] /\ DOMAIN r.tabs \subseteq 1..n
      <4>1. left \in Layouts(type)
        BY <2>4 DEF Layouts
      <4>2. /\ s.tabs \in [DOMAIN s.tabs -> [ws : WorkspaceId, layout : Layouts(type)]]
            /\ DOMAIN s.tabs \subseteq 1..n
        BY <1>0 DEF Typed
      <4>3. [s.tabs[t] EXCEPT !.layout = left] \in [ws : WorkspaceId, layout : Layouts(type)]
        BY <1>2, <4>1, <4>2
      <4>. QED  BY <1>2, <2>1, <4>2, <4>3
    <3>2. DOMAIN r.panes \subseteq 1..Len(type) /\ r.panes \in [DOMAIN r.panes -> [tab : 1..n, target : 0..Len(type)]]
      <4>1. r.panes = [q \in DOMAIN s.panes \ gone |-> s.panes[q]]
        BY <2>1 DEF Drop, Restrict
      <4>. QED  BY <1>0, <4>1 DEF Typed
    <3>3. DOMAIN r.focused \subseteq DOMAIN r.tabs /\ r.focused \in [DOMAIN r.focused -> 1..Len(type)]
      BY <1>0, <2>1, <2>2, <2>5 DEF Typed, Put
    <3>. QED  BY <1>0, <2>1, <3>1, <3>2, <3>3 DEF Typed
  <2>7. Seen(r, tn)
    <3>. SUFFICES ASSUME NEW q \in DOMAIN r.panes
                  PROVE  r.panes[q].tab \in DOMAIN r.tabs /\ (r.panes[q].tab \notin tn => Once(r.tabs[r.panes[q].tab].layout, q))
      BY DEF Seen
    <3>1. s.panes[q].tab \in DOMAIN s.tabs /\ (s.panes[q].tab \notin tn => Once(s.tabs[s.panes[q].tab].layout, q))
      BY <1>0, <2>3 DEF Seen
    <3>2. CASE s.panes[q].tab = t
      BY <2>2, <2>3, <2>4, <3>1, <3>2 DEF layout
    <3>3. CASE s.panes[q].tab # t
      BY <2>2, <2>3, <3>1, <3>3
    <3>. QED  BY <3>2, <3>3
  <2>8. Past(r, tn)
    BY <1>0, <2>1 DEF Past
  <2>9. Dead(r, type)
    <3>1. r.killed = s.killed \cup {q \in gone : type[q] = "terminal"} /\ gone \subseteq DOMAIN type
      BY <1>0, <1>2, <2>1 DEF Terminals, Typed, gone
    <3>. QED  BY <1>0, <1>2, <2>3, <3>1 DEF Dead, gone
  <2>10. Live(r)
    <3>1. \A w \in WorkspaceId : TabsOf(r, w) = TabsOf(s, w)
      BY <2>2 DEF TabsOf
    <3>. QED  BY <1>0, <2>1, <3>1 DEF Live
  <2>11. \A q : q \in gone \ {p} => type[q] = "devtools" /\ q \notin DOMAIN r.panes
    BY <1>2, <2>3 DEF gone
  <2>12. \A u : PanesOf(r, u) = PanesOf(s, u) \ gone
    BY <2>3 DEF PanesOf
  <2>13. Focus(r, type, od)
    <3>. SUFFICES ASSUME NEW u \in DOMAIN r.focused, u \notin od PROVE Held(r, type, u, r.focused[u])
      BY DEF Focus
    <3>1. CASE u = t /\ t \in DOMAIN s.focused /\ s.focused[t] \in gone
      <4>1. r.focused[u] = next
        BY <2>1, <3>1 DEF Put
      <4>2. ToSet(layout) \subseteq PanesOf(s, t)
        BY <1>2, <3>1 DEF Upright, PanesIn, layout, t
      <4>3. \A q \in PanesOf(s, t) : Once(layout, q)
        BY <1>0, <3>1 DEF Seen, PanesOf, layout
      <4>4. IsInjective(layout) /\ p \in ToSet(layout)
        <5>1. p \in PanesOf(s, t)
          BY DEF PanesOf, t
        <5>. QED  BY <4>2, <4>3, <5>1, OnceFacts
      <4>5. next # p /\ next \in PanesOf(s, t)
        BY <2>5, <4>2, <4>4
      <4>. QED  BY <2>11, <2>12, <3>1, <4>1, <4>5 DEF Held
    <3>2. CASE ~(u = t /\ t \in DOMAIN s.focused /\ s.focused[t] \in gone)
      <4>1. u \in DOMAIN s.focused /\ r.focused[u] = s.focused[u]
        BY <2>1, <3>2 DEF Put
      <4>2. Held(s, type, u, s.focused[u])
        BY <1>0, <4>1 DEF Focus
      <4>3. CASE s.focused[u] \in gone
        <5>1. s.focused[u] \notin PanesOf(s, u) \/ s.focused[u] # p
          BY <3>2, <4>1, <4>3 DEF PanesOf, t
        <5>2. s.focused[u] \in DOMAIN s.panes
          BY <1>2, <4>3 DEF gone
        <5>. QED  BY <2>11, <4>1, <4>2, <4>3, <5>1, <5>2 DEF Held
      <4>4. CASE s.focused[u] \notin gone
        BY <2>3, <2>12, <4>1, <4>2, <4>4 DEF Held
      <4>. QED  BY <4>3, <4>4
    <3>. QED  BY <3>1, <3>2
  <2>14. Shrinks(s, r, t)
    BY <1>2, <2>3 DEF Shrinks, gone, t
  <2>15. Upright(r, t, od)
    <3>. SUFFICES ASSUME t \notin od PROVE ToSet(left) \subseteq PanesOf(r, t)
      BY <2>2 DEF Upright, PanesIn
    <3>1. ToSet(layout) \subseteq PanesOf(s, t)
      BY <1>2 DEF Upright, PanesIn, layout, t
    <3>. QED  BY <2>4, <2>12, <3>1
  <2>. QED  BY <2>6, <2>7, <2>8, <2>9, <2>10, <2>13, <2>14, <2>15 DEF Good, r, t
<1>. QED  BY <1>3, <1>4

\* The store after the first i of the panes have been removed.
RemovedStep(s, ids, g, i) == IF i = 0 THEN s ELSE RemovePane(g[i - 1], ids[i])
IsRemoved(s, ids, g) == g = [i \in 0..Len(ids) |-> RemovedStep(s, ids, g, i)]

\* The function that RemovePanes is written with exists.
LEMMA RemoveRecursion ==
  ASSUME NEW X, NEW ids \in Seq(X), NEW s
  PROVE  \E g : IsRemoved(s, ids, g) /\ RemovePanes(s, ids) = g[Len(ids)]
<1>. DEFINE n == Len(ids)
            T == {k \in 0..n : \E g : g = [i \in 0..k |-> RemovedStep(s, ids, g, i)]}
<1>0. n \in Nat
  OBVIOUS
<1>1. 0 \in T
  <2>1. [i \in 0..0 |-> s] = [i \in 0..0 |-> RemovedStep(s, ids, [j \in 0..0 |-> s], i)]
    BY DEF RemovedStep
  <2>. QED  BY <2>1
<1>2. ASSUME NEW k \in 1..n, k - 1 \in T PROVE k \in T
  <2>1. PICK g : g = [i \in 0..k - 1 |-> RemovedStep(s, ids, g, i)]
    BY <1>2
  <2>. DEFINE h == [i \in 0..k |-> IF i = k THEN RemovedStep(s, ids, g, k) ELSE g[i]]
  <2>2. ASSUME NEW i \in 0..k PROVE h[i] = RemovedStep(s, ids, h, i)
    <3>1. CASE i = k
      <4>1. k - 1 \in 0..k /\ k - 1 # k /\ k # 0
        OBVIOUS
      <4>2. h[k - 1] = g[k - 1]
        BY <4>1
      <4>. QED  BY <3>1, <4>1, <4>2 DEF RemovedStep
    <3>2. CASE i # k
      <4>1. i \in 0..k - 1
        BY <3>2
      <4>2. h[i] = g[i] /\ (i # 0 => h[i - 1] = g[i - 1])
        BY <4>1, <3>2
      <4>3. g[i] = RemovedStep(s, ids, g, i)
        BY <2>1, <4>1
      <4>. QED  BY <4>2, <4>3 DEF RemovedStep
    <3>. QED  BY <3>1, <3>2
  <2>3. h = [i \in 0..k |-> RemovedStep(s, ids, h, i)]
    <3>. HIDE DEF h
    <3>1. h = [i \in 0..k |-> h[i]]
      BY DEF h
    <3>. QED  BY <3>1, <2>2
  <2>4. k \in 0..n
    OBVIOUS
  <2>. HIDE DEF h
  <2>. QED  BY <2>3, <2>4
<1>3. n \in T
  <2>. HIDE DEF T, n
  <2>1. 0..n \subseteq T
    BY <1>0, <1>1, <1>2, Induct
  <2>. QED  BY <2>1, <1>0
<1>4. PICK g : g = [i \in 0..Len(ids) |-> RemovedStep(s, ids, g, i)]
  BY <1>3
<1>. DEFINE after == CHOOSE f : f = [i \in 0..Len(ids) |-> IF i = 0 THEN s ELSE RemovePane(f[i - 1], ids[i])]
<1>5. RemovePanes(s, ids) = after[Len(ids)]
  BY DEF RemovePanes
<1>6. after = [i \in 0..Len(ids) |-> RemovedStep(s, ids, after, i)]
  BY <1>4 DEF RemovedStep
<1>. QED  BY <1>5, <1>6 DEF IsRemoved

\* Panes of one tab are removed one after the other; some may be gone already.
LEMMA RemovePanesGood ==
  ASSUME type \in Seq(Type), NEW n \in Nat, NEW s, NEW tn, NEW od, Good(s, type, n, tn, od), tn \subseteq od,
         NEW t, NEW X, NEW ids \in Seq(X), \A p \in ToSet(ids) : p \in PanesOf(s, t), Upright(s, t, od)
  PROVE  /\ Good(RemovePanes(s, ids), type, n, tn, od)
         /\ Shrinks(s, RemovePanes(s, ids), t) /\ Upright(RemovePanes(s, ids), t, od)
<1>1. PICK g : IsRemoved(s, ids, g) /\ RemovePanes(s, ids) = g[Len(ids)]
  BY RemoveRecursion
<1>. DEFINE Fine(r) == Good(r, type, n, tn, od) /\ Shrinks(s, r, t) /\ Upright(r, t, od)
            T == {i \in 0..Len(ids) : Fine(g[i])}
<1>2. 0 \in T
  <2>1. g[0] = s
    <3>1. 0 \in 0..Len(ids)
      OBVIOUS
    <3>. QED  BY <1>1, <3>1 DEF IsRemoved, RemovedStep
  <2>2. Fine(s)
    BY DEF Shrinks
  <2>. HIDE DEF Fine
  <2>. QED  BY <2>1, <2>2
<1>3. ASSUME NEW i \in 1..Len(ids), i - 1 \in T PROVE i \in T
  <2>. DEFINE r == g[i - 1]  p == ids[i]
  <2>1. Fine(r) /\ i \in 0..Len(ids)
    BY <1>3
  <2>2. g[i] = RemovePane(r, p)
    <3>1. i \in 0..Len(ids) /\ i # 0
      OBVIOUS
    <3>. QED  BY <1>1, <3>1 DEF IsRemoved, RemovedStep
  <2>3. p \in PanesOf(s, t)
    BY DEF ToSet
  <2>. HIDE DEF r, p
  <2>4. CASE p \notin DOMAIN r.panes
    <3>1. RemovePane(r, p) = r
      BY <2>4 DEF RemovePane
    <3>. QED  BY <2>1, <2>2, <3>1
  <2>5. CASE p \in DOMAIN r.panes
    <3>1. r.panes[p].tab = t
      BY <2>1, <2>3, <2>5 DEF Shrinks, PanesOf
    <3>2. Good(RemovePane(r, p), type, n, tn, od) /\ Shrinks(r, RemovePane(r, p), t) /\ Upright(RemovePane(r, p), t, od)
      BY <2>1, <2>5, <3>1, RemovePaneGood
    <3>3. Shrinks(s, RemovePane(r, p), t)
      BY <2>1, <3>2 DEF Shrinks
    <3>. QED  BY <2>1, <2>2, <3>2, <3>3
  <2>. QED  BY <2>4, <2>5
<1>4. Len(ids) \in T
  <2>1. Len(ids) \in Nat
    OBVIOUS
  <2>. HIDE DEF T
  <2>2. 0..Len(ids) \subseteq T
    BY <1>2, <1>3, <2>1, Induct
  <2>. QED  BY <2>1, <2>2
<1>. QED  BY <1>1, <1>4

\* A tab gets another layout: its panes that the layout leaves out go.
LEMMA UpdateGood ==
  ASSUME type \in Seq(Type), NEW n \in Nat, NEW s, NEW tn, NEW od, Good(s, type, n, tn, od), tn \subseteq od,
         NEW t, NEW layout \in Layouts(type), t \notin tn => IsInjective(layout),
         Upright(UpdateTabLayout(s, t, layout), t, od)
  PROVE  Good(UpdateTabLayout(s, t, layout), type, n, tn, od) /\ Shrinks(s, UpdateTabLayout(s, t, layout), t)
<1>. DEFINE r == UpdateTabLayout(s, t, layout)
            old == s.tabs[t].layout  removed == PanesIn(old) \ PanesIn(layout)  gone == removed \cap PanesOf(s, t)
<1>0. Typed(s, type, n) /\ Seen(s, tn) /\ Past(s, tn) /\ Dead(s, type) /\ Live(s) /\ Focus(s, type, od)
  BY DEF Good
<1>1. r = IF t \notin DOMAIN s.tabs THEN s
          ELSE [s EXCEPT !.tabs[t].layout = layout, !.panes = Drop(@, gone),
                         !.focused = IF t \in DOMAIN @ /\ @[t] \in removed THEN Put(@, t, layout[1]) ELSE @,
                         !.killed = @ \cup Terminals(gone)]
  BY DEF UpdateTabLayout
<1>2. /\ removed = ToSet(old) \ ToSet(layout)
      /\ gone \subseteq removed /\ gone \subseteq DOMAIN s.panes /\ \A p \in gone : s.panes[p].tab = t
      /\ \A p \in DOMAIN s.panes \ gone : s.panes[p].tab = t => p \notin removed
  BY DEF PanesIn, PanesOf
<1>3. Upright(r, t, od)
  OBVIOUS
<1>. HIDE DEF r, old, removed, gone
<1>4. CASE t \notin DOMAIN s.tabs
  <2>1. r = s
    BY <1>1, <1>4
  <2>. QED  BY <2>1 DEF Shrinks, r
<1>5. CASE t \in DOMAIN s.tabs
  <2>1. /\ r.tabs = [s.tabs EXCEPT ![t].layout = layout] /\ r.panes = Drop(s.panes, gone)
        /\ r.active = s.active /\ r.recent = s.recent /\ r.closed = s.closed
        /\ r.killed = s.killed \cup Terminals(gone)
        /\ r.focused = IF t \in DOMAIN s.focused /\ s.focused[t] \in removed
                       THEN Put(s.focused, t, layout[1]) ELSE s.focused
        /\ r = [tabs |-> r.tabs, panes |-> r.panes, active |-> r.active, focused |-> r.focused,
                recent |-> r.recent, closed |-> r.closed, killed |-> r.killed]
    <3>1. r = [s EXCEPT !.tabs[t].layout = layout, !.panes = Drop(@, gone),
                        !.focused = IF t \in DOMAIN @ /\ @[t] \in removed THEN Put(@, t, layout[1]) ELSE @,
                        !.killed = @ \cup Terminals(gone)]
      BY <1>1, <1>5
    <3>2. s = [tabs |-> s.tabs, panes |-> s.panes, active |-> s.active, focused |-> s.focused,
               recent |-> s.recent, closed |-> s.closed, killed |-> s.killed]
      BY <1>0 DEF Typed
    <3>. QED  BY <3>1, <3>2
  <2>2. /\ DOMAIN r.tabs = DOMAIN s.tabs /\ \A u \in DOMAIN s.tabs : r.tabs[u].ws = s.tabs[u].ws
        /\ \A u \in DOMAIN s.tabs \ {t} : r.tabs[u] = s.tabs[u]
        /\ r.tabs[t].layout = layout
    BY <1>0, <1>5, <2>1 DEF Typed
  <2>3. DOMAIN r.panes = DOMAIN s.panes \ gone /\ \A q \in DOMAIN r.panes : r.panes[q] = s.panes[q]
    BY <2>1 DEF Drop, Restrict
  <2>4. layout \in Seq(1..Len(type)) /\ layout # <<>> /\ layout[1] \in ToSet(layout) /\ layout[1] \in 1..Len(type)
    <3>1. layout \in Seq(1..Len(type)) /\ layout # <<>>
      BY DEF Layouts
    <3>. QED  BY <3>1, FirstFacts
  <2>6. Typed(r, type, n)
    <3>1. r.tabs \in [DOMAIN r.tabs -> [ws : WorkspaceId, layout : Layouts(type)]] /\ DOMAIN r.tabs \subseteq 1..n
      <4>2. /\ s.tabs \in [DOMAIN s.tabs -> [ws : WorkspaceId, layout : Layouts(type)]]
            /\ DOMAIN s.tabs \subseteq 1..n
        BY <1>0 DEF Typed
      <4>3. [s.tabs[t] EXCEPT !.layout = layout] \in [ws : WorkspaceId, layout : Layouts(type)]
        BY <1>5, <4>2
      <4>. QED  BY <1>5, <2>1, <4>2, <4>3
    <3>2. DOMAIN r.panes \subseteq 1..Len(type) /\ r.panes \in [DOMAIN r.panes -> [tab : 1..n, target : 0..Len(type)]]
      <4>1. r.panes = [q \in DOMAIN s.panes \ gone |-> s.panes[q]]
        BY <2>1 DEF Drop, Restrict
      <4>. QED  BY <1>0, <4>1 DEF Typed
    <3>3. DOMAIN r.focused \subseteq DOMAIN r.tabs /\ r.focused \in [DOMAIN r.focused -> 1..Len(type)]
      BY <1>0, <2>1, <2>2, <2>4 DEF Typed, Put
    <3>. QED  BY <1>0, <2>1, <3>1, <3>2, <3>3 DEF Typed
  <2>7. Seen(r, tn)
    <3>. SUFFICES ASSUME NEW q \in DOMAIN r.panes
                  PROVE  r.panes[q].tab \in DOMAIN r.tabs /\ (r.panes[q].tab \notin tn => Once(r.tabs[r.panes[q].tab].layout, q))
      BY DEF Seen
    <3>1. s.panes[q].tab \in DOMAIN s.tabs /\ (s.panes[q].tab \notin tn => Once(s.tabs[s.panes[q].tab].layout, q))
      BY <1>0, <2>3 DEF Seen
    <3>2. CASE s.panes[q].tab = t
      <4>1. t \notin tn => Once(old, q)
        BY <3>1, <3>2 DEF old
      <4>2. t \notin tn => q \in ToSet(layout)
        BY <1>2, <2>3, <3>2, <4>1, OnceFacts
      <4>3. t \notin tn => Once(layout, q)
        BY <4>2, OnceFacts
      <4>. QED  BY <2>2, <2>3, <3>1, <3>2, <4>3
    <3>3. CASE s.panes[q].tab # t
      BY <2>2, <2>3, <3>1, <3>3
    <3>. QED  BY <3>2, <3>3
  <2>8. Past(r, tn)
    BY <1>0, <2>1 DEF Past
  <2>9. Dead(r, type)
    <3>1. r.killed = s.killed \cup {q \in gone : type[q] = "terminal"} /\ gone \subseteq DOMAIN type
      BY <1>0, <1>2, <2>1 DEF Terminals, Typed
    <3>. QED  BY <1>0, <1>2, <2>3, <3>1 DEF Dead
  <2>10. Live(r)
    <3>1. \A w \in WorkspaceId : TabsOf(r, w) = TabsOf(s, w)
      BY <2>2 DEF TabsOf
    <3>. QED  BY <1>0, <2>1, <3>1 DEF Live
  <2>12. \A u : PanesOf(r, u) = PanesOf(s, u) \ gone
    BY <2>3 DEF PanesOf
  <2>13. Focus(r, type, od)
    <3>. SUFFICES ASSUME NEW u \in DOMAIN r.focused, u \notin od PROVE Held(r, type, u, r.focused[u])
      BY DEF Focus
    <3>1. CASE u = t /\ t \in DOMAIN s.focused /\ s.focused[t] \in removed
      <4>1. r.focused[u] = layout[1]
        BY <2>1, <3>1 DEF Put
      <4>2. ToSet(layout) \subseteq PanesOf(r, t)
        BY <1>3, <1>5, <2>2, <3>1 DEF Upright, PanesIn
      <4>. QED  BY <2>4, <3>1, <4>1, <4>2 DEF Held
    <3>2. CASE ~(u = t /\ t \in DOMAIN s.focused /\ s.focused[t] \in removed)
      <4>1. u \in DOMAIN s.focused /\ r.focused[u] = s.focused[u]
        BY <2>1, <3>2 DEF Put
      <4>2. Held(s, type, u, s.focused[u])
        BY <1>0, <4>1 DEF Focus
      <4>3. s.focused[u] \in PanesOf(s, u) => s.focused[u] \notin gone
        BY <1>2, <3>2, <4>1 DEF PanesOf
      <4>. QED  BY <2>3, <2>12, <4>1, <4>2, <4>3 DEF Held
    <3>. QED  BY <3>1, <3>2
  <2>14. Shrinks(s, r, t)
    BY <1>2, <2>3 DEF Shrinks
  <2>. QED  BY <2>6, <2>7, <2>8, <2>9, <2>10, <2>13, <2>14 DEF Good, r
<1>. QED  BY <1>4, <1>5

\* The end of a drag.
LEMMA HandleGood ==
  ASSUME type \in Seq(Type), NEW n \in Nat, NEW s, NEW tn, NEW od, Good(s, type, n, tn, od), tn \subseteq od,
         NEW t, NEW layout \in Layouts(type), t \notin tn => IsInjective(layout), Upright(s, t, od),
         Upright(HandleLayoutChange(s, t, layout), t, od)
  PROVE  /\ Good(HandleLayoutChange(s, t, layout), type, n, tn, od)
         /\ Shrinks(s, HandleLayoutChange(s, t, layout), t)
<1>. DEFINE old == IF t \in DOMAIN s.tabs THEN s.tabs[t].layout ELSE <<>>
            ids == Keep(old, PanesOf(s, t) \ PanesIn(layout))
            r == RemovePanes(s, ids)
<1>1. HandleLayoutChange(s, t, layout) = UpdateTabLayout(r, t, layout)
  BY DEF HandleLayoutChange
<1>2. old \in Seq(1..Len(type))
  <2>1. CASE t \in DOMAIN s.tabs
    <3>1. s.tabs[t] \in [ws : WorkspaceId, layout : Layouts(type)]
      BY <2>1 DEF Good, Typed
    <3>. QED  BY <2>1, <3>1 DEF Layouts
  <2>2. CASE t \notin DOMAIN s.tabs
    BY <2>2
  <2>. QED  BY <2>1, <2>2
<1>. HIDE DEF old
<1>3. ids \in Seq(1..Len(type)) /\ ToSet(ids) \subseteq PanesOf(s, t)
  BY <1>2, KeepFacts
<1>. HIDE DEF ids
<1>4. Good(r, type, n, tn, od) /\ Shrinks(s, r, t) /\ Upright(r, t, od)
  BY <1>3, RemovePanesGood
<1>. HIDE DEF r
<1>5. Good(UpdateTabLayout(r, t, layout), type, n, tn, od) /\ Shrinks(r, UpdateTabLayout(r, t, layout), t)
  BY <1>1, <1>4, UpdateGood
<1>. QED  BY <1>1, <1>4, <1>5 DEF Shrinks

------------------------------------------------------------------------------
(* Additions *)

\* Panes have been made.
Grows(ty, ty2) == Len(ty) <= Len(ty2) /\ \A i \in 1..Len(ty) : ty2[i] = ty[i]

\* A sequence over a set is one over a larger set.
LEMMA SeqWider ==
  ASSUME NEW A, NEW B, A \subseteq B, NEW u \in Seq(A)
  PROVE  u \in Seq(B)
OBVIOUS

\* Layouts, and entries of closed tabs, stay such when panes and tabs are made.
LEMMA Wider ==
  ASSUME NEW ty \in Seq(Type), NEW ty2 \in Seq(Type), Grows(ty, ty2), NEW n \in Nat, NEW n2 \in Nat, n <= n2
  PROVE  /\ Layouts(ty) \subseteq Layouts(ty2) /\ Entry(ty, n) \subseteq Entry(ty2, n2)
         /\ 1..Len(ty) \subseteq 1..Len(ty2) /\ 0..Len(ty) \subseteq 0..Len(ty2) /\ 1..n \subseteq 1..n2 /\ 0..n \subseteq 0..n2
<1>1. 1..Len(ty) \subseteq 1..Len(ty2) /\ 0..Len(ty) \subseteq 0..Len(ty2) /\ 1..n \subseteq 1..n2 /\ 0..n \subseteq 0..n2
  BY DEF Grows
<1>2. Layouts(ty) \subseteq Layouts(ty2)
  BY <1>1, SeqWider DEF Layouts
<1>3. ASSUME NEW e \in Entry(ty, n) PROVE e \in Entry(ty2, n2)
  <2>1. PICK P \in SUBSET (1..Len(ty)) : e.panes \in [P -> [tab : 1..n, target : 0..Len(ty)]]
    BY DEF Entry
  <2>2. P \in SUBSET (1..Len(ty2)) /\ e.panes \in [P -> [tab : 1..n2, target : 0..Len(ty2)]]
    <3>1. [tab : 1..n, target : 0..Len(ty)] \subseteq [tab : 1..n2, target : 0..Len(ty2)]
      BY <1>1
    <3>. QED  BY <1>1, <2>1, <3>1
  <2>3. /\ e = [tab |-> e.tab, ws |-> e.ws, layout |-> e.layout, panes |-> e.panes]
        /\ e.tab \in 1..n2 /\ e.ws \in WorkspaceId /\ e.layout \in Layouts(ty2)
    BY <1>1, <1>2 DEF Entry
  <2>. HIDE DEF Layouts
  <2>4. e.panes \in UNION {[Q -> [tab : 1..n2, target : 0..Len(ty2)]] : Q \in SUBSET (1..Len(ty2))}
    BY <2>2
  <2>. QED  BY <2>3, <2>4 DEF Entry
<1>. QED  BY <1>1, <1>2, <1>3

\* Tab t gets new panes, all that have been made: a layout with the old and the new ones, and the focus.
Adds(s, ty, n, t, layout, focus, new, tn, r) ==
  /\ t \in DOMAIN s.tabs /\ layout \in Layouts(ty) /\ new = (1..Len(ty)) \ (1..Len(type))
  /\ focus \in new \cup PanesOf(s, t) /\ (t \notin tn => \A p \in new \cup PanesOf(s, t) : Once(layout, p))
  /\ r = [tabs |-> r.tabs, panes |-> r.panes, active |-> s.active, focused |-> r.focused,
          recent |-> s.recent, closed |-> s.closed, killed |-> s.killed]
  /\ r.tabs = [s.tabs EXCEPT ![t].layout = layout] /\ r.focused = Put(s.focused, t, focus)
  /\ DOMAIN r.panes = DOMAIN s.panes \cup new /\ \A p \in DOMAIN s.panes : r.panes[p] = s.panes[p]
  /\ r.panes \in [DOMAIN r.panes -> [tab : 1..n, target : 0..Len(ty)]] /\ \A p \in new : r.panes[p].tab = t

\* The invariant holds of the store then.
LEMMA AddedGood ==
  ASSUME type \in Seq(Type), NEW ty \in Seq(Type), Grows(type, ty), NEW n \in Nat,
         NEW s, NEW tn, NEW tn2, NEW od, tn \subseteq tn2, tn2 \subseteq od, Good(s, type, n, tn, od),
         NEW t, NEW layout, NEW focus, NEW new, NEW r, Adds(s, ty, n, t, layout, focus, new, tn2, r)
  PROVE  Good(r, ty, n, tn2, od)
<1>. /\ t \in DOMAIN s.tabs /\ layout \in Layouts(ty) /\ new = (1..Len(ty)) \ (1..Len(type))
     /\ focus \in new \cup PanesOf(s, t) /\ (t \notin tn2 => \A p \in new \cup PanesOf(s, t) : Once(layout, p))
     /\ r = [tabs |-> r.tabs, panes |-> r.panes, active |-> s.active, focused |-> r.focused,
             recent |-> s.recent, closed |-> s.closed, killed |-> s.killed]
     /\ r.tabs = [s.tabs EXCEPT ![t].layout = layout] /\ r.focused = Put(s.focused, t, focus)
     /\ DOMAIN r.panes = DOMAIN s.panes \cup new /\ \A p \in DOMAIN s.panes : r.panes[p] = s.panes[p]
     /\ r.panes \in [DOMAIN r.panes -> [tab : 1..n, target : 0..Len(ty)]] /\ \A p \in new : r.panes[p].tab = t
  BY DEF Adds
<1>0. Typed(s, type, n) /\ Seen(s, tn) /\ Past(s, tn) /\ Dead(s, type) /\ Live(s) /\ Focus(s, type, od)
  BY DEF Good
<1>1. /\ Layouts(type) \subseteq Layouts(ty) /\ Entry(type, n) \subseteq Entry(ty, n)
      /\ 1..Len(type) \subseteq 1..Len(ty)
  BY Wider
<1>2. /\ s.tabs \in [DOMAIN s.tabs -> [ws : WorkspaceId, layout : Layouts(type)]]
      /\ DOMAIN s.panes \subseteq 1..Len(type) /\ DOMAIN s.focused \subseteq DOMAIN s.tabs
      /\ s.focused \in [DOMAIN s.focused -> 1..Len(type)]
  BY <1>0 DEF Typed
<1>3. /\ DOMAIN r.tabs = DOMAIN s.tabs /\ \A u \in DOMAIN s.tabs : r.tabs[u].ws = s.tabs[u].ws
      /\ \A u \in DOMAIN s.tabs \ {t} : r.tabs[u] = s.tabs[u]
      /\ r.tabs[t].layout = layout
  BY <1>2
<1>4. /\ DOMAIN r.focused = DOMAIN s.focused \cup {t} /\ r.focused[t] = focus
      /\ \A u \in DOMAIN s.focused \ {t} : r.focused[u] = s.focused[u]
  BY DEF Put
<1>5. new \cap DOMAIN s.panes = {} /\ \A p \in DOMAIN type : p \notin new
  BY <1>2
<1>6. Typed(r, ty, n)
  <2>1. r.tabs \in [DOMAIN r.tabs -> [ws : WorkspaceId, layout : Layouts(ty)]] /\ DOMAIN r.tabs \subseteq 1..n
    <3>1. [s.tabs[t] EXCEPT !.layout = layout] \in [ws : WorkspaceId, layout : Layouts(ty)]
      BY <1>2
    <3>2. \A u \in DOMAIN s.tabs : s.tabs[u] \in [ws : WorkspaceId, layout : Layouts(ty)]
      BY <1>1, <1>2
    <3>3. DOMAIN s.tabs \subseteq 1..n
      BY <1>0 DEF Typed
    <3>. QED  BY <1>2, <3>1, <3>2, <3>3
  <2>2. DOMAIN r.panes \subseteq 1..Len(ty)
    BY <1>1, <1>2
  <2>3. DOMAIN r.focused \subseteq DOMAIN r.tabs /\ r.focused \in [DOMAIN r.focused -> 1..Len(ty)]
    <3>1. focus \in 1..Len(ty)
      BY <1>1, <1>2 DEF PanesOf
    <3>2. \A u \in DOMAIN r.focused : r.focused[u] \in 1..Len(ty)
      BY <1>1, <1>2, <1>4, <3>1
    <3>. QED  BY <1>2, <1>3, <1>4, <3>2 DEF Put
  <2>4. r.closed \in Seq(Entry(ty, n))
    <3>1. s.closed \in Seq(Entry(type, n))
      BY <1>0 DEF Typed
    <3>2. s.closed \in Seq(Entry(ty, n))
      BY <1>1, <3>1, SeqWider
    <3>. QED  BY <3>2
  <2>5. r.active = s.active /\ r.recent = s.recent
    OBVIOUS
  <2>6. s.active \in [WorkspaceId -> 0..n] /\ s.recent \in [WorkspaceId -> Seq(0..n)]
    BY <1>0 DEF Typed
  <2>7. r = [tabs |-> r.tabs, panes |-> r.panes, active |-> r.active, focused |-> r.focused,
              recent |-> r.recent, closed |-> r.closed, killed |-> r.killed]
    OBVIOUS
  <2>. QED  BY <2>1, <2>2, <2>3, <2>4, <2>5, <2>6, <2>7 DEF Typed
<1>7. Seen(r, tn2)
  <2>. SUFFICES ASSUME NEW q \in DOMAIN r.panes
                PROVE  r.panes[q].tab \in DOMAIN r.tabs /\ (r.panes[q].tab \notin tn2 => Once(r.tabs[r.panes[q].tab].layout, q))
    BY DEF Seen
  <2>1. CASE q \in new
    BY <1>3, <2>1
  <2>2. CASE q \notin new
    <3>1. q \in DOMAIN s.panes /\ r.panes[q] = s.panes[q]
      BY <2>2
    <3>2. s.panes[q].tab \in DOMAIN s.tabs /\ (s.panes[q].tab \notin tn2 => Once(s.tabs[s.panes[q].tab].layout, q))
      BY <1>0, <3>1 DEF Seen
    <3>3. CASE s.panes[q].tab = t
      <4>1. q \in PanesOf(s, t)
        BY <3>1, <3>3 DEF PanesOf
      <4>. QED  BY <1>3, <3>1, <3>3, <4>1
    <3>4. CASE s.panes[q].tab # t
      BY <1>3, <3>1, <3>2, <3>4
    <3>. QED  BY <3>3, <3>4
  <2>. QED  BY <2>1, <2>2
<1>8. Past(r, tn2)
  <2>1. r.closed = s.closed
    OBVIOUS
  <2>. QED  BY <1>0, <2>1 DEF Past
<1>9. Dead(r, ty)
  <2>1. r.killed = s.killed
    OBVIOUS
  <2>2. s.killed = {p \in 1..Len(type) : type[p] = "terminal"} \ DOMAIN s.panes
    BY <1>0 DEF Dead
  <2>3. DOMAIN ty = 1..Len(ty) /\ \A p \in 1..Len(type) : ty[p] = type[p]
    BY DEF Grows
  <2>. QED  BY <1>1, <1>2, <2>1, <2>2, <2>3 DEF Dead
<1>10. Live(r)
  <2>1. \A w \in WorkspaceId : TabsOf(r, w) = TabsOf(s, w)
    BY <1>3 DEF TabsOf
  <2>2. r.active = s.active /\ r.recent = s.recent
    OBVIOUS
  <2>. QED  BY <1>0, <2>1, <2>2 DEF Live
<1>11. Focus(r, ty, od)
  <2>. SUFFICES ASSUME NEW u \in DOMAIN r.focused, u \notin od PROVE Held(r, ty, u, r.focused[u])
    BY DEF Focus
  <2>1. CASE u = t
    BY <1>4, <2>1 DEF Held, PanesOf
  <2>2. CASE u # t
    <3>1. u \in DOMAIN s.focused /\ r.focused[u] = s.focused[u] /\ s.focused[u] \in 1..Len(type)
      BY <1>2, <1>4, <2>2
    <3>2. Held(s, type, u, s.focused[u]) /\ ty[s.focused[u]] = type[s.focused[u]] /\ s.focused[u] \notin new
      BY <1>0, <3>1 DEF Focus, Grows
    <3>. QED  BY <3>1, <3>2 DEF Held, PanesOf
  <2>. QED  BY <2>1, <2>2
<1>. QED  BY <1>6, <1>7, <1>8, <1>9, <1>10, <1>11 DEF Good

\* A new tab t of workspace w, with panes that have been made for it.
Opens(s, ty, n, t, w, layout, new, pn, c, tn, od, r) ==
  /\ t = n + 1 /\ w \in WorkspaceId /\ layout \in Layouts(ty)
  /\ new = (1..Len(ty)) \ (1..Len(type)) /\ (layout[1] \in new \/ t \in od)
  /\ (t \notin tn => \A p \in new : Once(layout, p)) /\ pn \in [new -> [tab : {t}, target : 0..Len(ty)]]
  /\ c \in Seq(Entry(type, n)) /\ \A i \in DOMAIN c : \E j \in DOMAIN s.closed : c[i] = s.closed[j]
  /\ r = [tabs |-> r.tabs, panes |-> r.panes, active |-> r.active, focused |-> r.focused,
          recent |-> r.recent, closed |-> c, killed |-> s.killed]
  /\ r.tabs = Put(s.tabs, t, [ws |-> w, layout |-> layout]) /\ r.panes = Added(s.panes, pn)
  /\ r.focused = Put(s.focused, t, layout[1]) /\ r.active = [s.active EXCEPT ![w] = t]
  /\ r.recent = [s.recent EXCEPT ![w] = Pushed(s, w)]

\* The invariant holds of the store then.
LEMMA OpenedGood ==
  ASSUME type \in Seq(Type), NEW ty \in Seq(Type), Grows(type, ty), NEW n \in Nat,
         NEW s, NEW tn, NEW tn2, NEW od, tn \subseteq tn2, tn2 \subseteq od, Good(s, type, n, tn, od),
         NEW t, NEW w, NEW layout, NEW new, NEW pn, NEW c, NEW r,
         Opens(s, ty, n, t, w, layout, new, pn, c, tn2, od, r)
  PROVE  Good(r, ty, n + 1, tn2, od)
<1>. /\ t = n + 1 /\ w \in WorkspaceId /\ layout \in Layouts(ty)
     /\ new = (1..Len(ty)) \ (1..Len(type)) /\ (layout[1] \in new \/ t \in od)
     /\ (t \notin tn2 => \A p \in new : Once(layout, p)) /\ pn \in [new -> [tab : {t}, target : 0..Len(ty)]]
     /\ c \in Seq(Entry(type, n)) /\ \A i \in DOMAIN c : \E j \in DOMAIN s.closed : c[i] = s.closed[j]
     /\ r = [tabs |-> r.tabs, panes |-> r.panes, active |-> r.active, focused |-> r.focused,
             recent |-> r.recent, closed |-> c, killed |-> s.killed]
     /\ r.tabs = Put(s.tabs, t, [ws |-> w, layout |-> layout]) /\ r.panes = Added(s.panes, pn)
     /\ r.focused = Put(s.focused, t, layout[1]) /\ r.active = [s.active EXCEPT ![w] = t]
     /\ r.recent = [s.recent EXCEPT ![w] = Pushed(s, w)]
  BY DEF Opens
<1>0. Typed(s, type, n) /\ Seen(s, tn) /\ Past(s, tn) /\ Dead(s, type) /\ Live(s) /\ Focus(s, type, od)
  BY DEF Good
<1>1. /\ Layouts(type) \subseteq Layouts(ty) /\ Entry(type, n) \subseteq Entry(ty, n + 1)
      /\ 1..Len(type) \subseteq 1..Len(ty) /\ 0..Len(type) \subseteq 0..Len(ty)
      /\ 1..n \subseteq 1..n + 1 /\ 0..n \subseteq 0..n + 1 /\ n + 1 \in Nat
  <2>1. n + 1 \in Nat /\ n <= n + 1
    OBVIOUS
  <2>2. PICK m \in Nat : m = n + 1 /\ n <= m
    BY <2>1
  <2>3. /\ Layouts(type) \subseteq Layouts(ty) /\ Entry(type, n) \subseteq Entry(ty, m)
        /\ 1..Len(type) \subseteq 1..Len(ty) /\ 0..Len(type) \subseteq 0..Len(ty)
        /\ 1..n \subseteq 1..m /\ 0..n \subseteq 0..m
    BY <2>2, Wider
  <2>. QED  BY <2>1, <2>2, <2>3
<1>2. /\ s.tabs \in [DOMAIN s.tabs -> [ws : WorkspaceId, layout : Layouts(type)]] /\ DOMAIN s.tabs \subseteq 1..n
      /\ DOMAIN s.panes \subseteq 1..Len(type) /\ s.panes \in [DOMAIN s.panes -> [tab : 1..n, target : 0..Len(type)]]
      /\ DOMAIN s.focused \subseteq DOMAIN s.tabs /\ s.focused \in [DOMAIN s.focused -> 1..Len(type)]
      /\ s.active \in [WorkspaceId -> 0..n] /\ s.recent \in [WorkspaceId -> Seq(0..n)]
  BY <1>0 DEF Typed
<1>3. t \notin DOMAIN s.tabs /\ t \in 1..n + 1 /\ t # NoTab
  BY <1>2 DEF NoTab
<1>4. /\ DOMAIN r.tabs = DOMAIN s.tabs \cup {t} /\ \A u \in DOMAIN s.tabs : r.tabs[u] = s.tabs[u]
      /\ r.tabs[t].layout = layout /\ r.tabs[t].ws = w
  BY <1>3 DEF Put
<1>5. /\ DOMAIN r.focused = DOMAIN s.focused \cup {t} /\ r.focused[t] = layout[1]
      /\ \A u \in DOMAIN s.focused : r.focused[u] = s.focused[u]
  BY <1>2, <1>3 DEF Put
<1>6. new \cap DOMAIN s.panes = {} /\ \A p \in DOMAIN type : p \notin new
  BY <1>2
<1>7. /\ DOMAIN r.panes = DOMAIN s.panes \cup new /\ \A p \in DOMAIN s.panes : r.panes[p] = s.panes[p]
      /\ \A p \in new : r.panes[p] = pn[p]
  BY <1>6 DEF Added
<1>8. layout[1] \in 1..Len(ty) /\ layout[1] \in ToSet(layout)
  <2>1. layout \in Seq(1..Len(ty)) /\ layout # <<>>
    BY DEF Layouts
  <2>. QED  BY <2>1, FirstFacts
<1>9. Pushed(s, w) \in Seq(0..n) /\ IsInjective(Pushed(s, w)) /\ ToSet(Pushed(s, w)) \subseteq TabsOf(s, w) \cup {NoTab}
  BY <1>0, PushedFacts
<1>10. Typed(r, ty, n + 1)
  <2>1. r.tabs \in [DOMAIN r.tabs -> [ws : WorkspaceId, layout : Layouts(ty)]] /\ DOMAIN r.tabs \subseteq 1..n + 1
    <3>1. [ws |-> w, layout |-> layout] \in [ws : WorkspaceId, layout : Layouts(ty)]
      OBVIOUS
    <3>2. \A u \in DOMAIN s.tabs : s.tabs[u] \in [ws : WorkspaceId, layout : Layouts(ty)]
      BY <1>1, <1>2
    <3>. QED  BY <1>1, <1>2, <1>3, <1>4, <3>1, <3>2 DEF Put
  <2>2. DOMAIN r.panes \subseteq 1..Len(ty) /\ r.panes \in [DOMAIN r.panes -> [tab : 1..n + 1, target : 0..Len(ty)]]
    <3>1. \A p \in DOMAIN s.panes : s.panes[p] \in [tab : 1..n + 1, target : 0..Len(ty)]
      BY <1>1, <1>2
    <3>2. \A p \in new : pn[p] \in [tab : 1..n + 1, target : 0..Len(ty)]
      BY <1>3
    <3>. QED  BY <1>1, <1>2, <1>7, <3>1, <3>2 DEF Added
  <2>3. DOMAIN r.focused \subseteq DOMAIN r.tabs /\ r.focused \in [DOMAIN r.focused -> 1..Len(ty)]
    BY <1>1, <1>2, <1>4, <1>5, <1>8 DEF Put
  <2>4. r.closed \in Seq(Entry(ty, n + 1))
    <3>1. r.closed = c
      OBVIOUS
    <3>2. c \in Seq(Entry(ty, n + 1))
      BY <1>1, SeqWider
    <3>. QED  BY <3>1, <3>2
  <2>5. r.active \in [WorkspaceId -> 0..n + 1]
    BY <1>1, <1>2, <1>3
  <2>6. r.recent \in [WorkspaceId -> Seq(0..n + 1)]
    <3>1. \A u \in WorkspaceId : r.recent[u] \in Seq(0..n)
      BY <1>2, <1>9
    <3>2. \A u \in WorkspaceId : r.recent[u] \in Seq(0..n + 1)
      BY <1>1, <3>1, SeqWider
    <3>. QED  BY <1>2, <3>2
  <2>7. r = [tabs |-> r.tabs, panes |-> r.panes, active |-> r.active, focused |-> r.focused,
              recent |-> r.recent, closed |-> r.closed, killed |-> r.killed]
    OBVIOUS
  <2>. QED  BY <2>1, <2>2, <2>3, <2>4, <2>5, <2>6, <2>7 DEF Typed
<1>11. Seen(r, tn2)
  <2>. SUFFICES ASSUME NEW q \in DOMAIN r.panes
                PROVE  r.panes[q].tab \in DOMAIN r.tabs /\ (r.panes[q].tab \notin tn2 => Once(r.tabs[r.panes[q].tab].layout, q))
    BY DEF Seen
  <2>1. CASE q \in new
    <3>1. r.panes[q].tab = t
      BY <1>7, <2>1
    <3>. QED  BY <1>4, <2>1, <3>1
  <2>2. CASE q \notin new
    <3>1. q \in DOMAIN s.panes /\ r.panes[q] = s.panes[q]
      BY <1>7, <2>2
    <3>2. s.panes[q].tab \in DOMAIN s.tabs /\ (s.panes[q].tab \notin tn2 => Once(s.tabs[s.panes[q].tab].layout, q))
      BY <1>0, <3>1 DEF Seen
    <3>. QED  BY <1>4, <3>1, <3>2
  <2>. QED  BY <2>1, <2>2
<1>12. Past(r, tn2)
  <2>1. r.closed = c
    OBVIOUS
  <2>. QED  BY <1>0, <2>1 DEF Past
<1>13. Dead(r, ty)
  <2>1. r.killed = s.killed
    OBVIOUS
  <2>2. s.killed = {p \in 1..Len(type) : type[p] = "terminal"} \ DOMAIN s.panes
    BY <1>0 DEF Dead
  <2>3. DOMAIN ty = 1..Len(ty) /\ \A p \in 1..Len(type) : ty[p] = type[p]
    BY DEF Grows
  <2>. QED  BY <1>1, <1>2, <1>7, <2>1, <2>2, <2>3 DEF Dead
<1>14. Live(r)
  <2>. SUFFICES ASSUME NEW u \in WorkspaceId
                PROVE  /\ r.active[u] = NoTab <=> TabsOf(r, u) = {}
                       /\ ToSet(r.recent[u]) \cup {r.active[u]} \subseteq TabsOf(r, u) \cup {NoTab}
                       /\ IsInjective(r.recent[u])
    BY DEF Live
  <2>1. CASE u = w
    <3>1. TabsOf(r, u) = TabsOf(s, u) \cup {t}
      BY <1>3, <1>4, <2>1 DEF TabsOf
    <3>2. r.active[u] = t /\ r.recent[u] = Pushed(s, w)
      BY <1>2, <2>1
    <3>. QED  BY <1>3, <1>9, <2>1, <3>1, <3>2
  <2>2. CASE u # w
    <3>1. TabsOf(r, u) = TabsOf(s, u)
      BY <1>3, <1>4, <2>2 DEF TabsOf
    <3>2. r.active[u] = s.active[u] /\ r.recent[u] = s.recent[u]
      BY <1>2, <2>2
    <3>. QED  BY <1>0, <3>1, <3>2 DEF Live
  <2>. QED  BY <2>1, <2>2
<1>15. Focus(r, ty, od)
  <2>. SUFFICES ASSUME NEW u \in DOMAIN r.focused, u \notin od PROVE Held(r, ty, u, r.focused[u])
    BY DEF Focus
  <2>1. CASE u = t
    <3>1. layout[1] \in new /\ r.panes[layout[1]].tab = t /\ layout[1] \in DOMAIN r.panes
      BY <1>7, <2>1
    <3>. QED  BY <1>5, <2>1, <3>1 DEF Held, PanesOf
  <2>2. CASE u # t
    <3>1. u \in DOMAIN s.focused /\ r.focused[u] = s.focused[u] /\ s.focused[u] \in 1..Len(type)
      BY <1>2, <1>5, <2>2
    <3>2. Held(s, type, u, s.focused[u]) /\ ty[s.focused[u]] = type[s.focused[u]] /\ s.focused[u] \notin new
      BY <1>0, <3>1 DEF Focus, Grows
    <3>. QED  BY <1>7, <3>1, <3>2 DEF Held, PanesOf
  <2>. QED  BY <2>1, <2>2
<1>. QED  BY <1>10, <1>11, <1>12, <1>13, <1>14, <1>15 DEF Good

------------------------------------------------------------------------------
(* Steps: what removes, chooses and loads again *)

\* A store stays good when more tabs count as torn or astray.
LEMMA Looser ==
  ASSUME NEW s, NEW ty, NEW n, NEW tn, NEW tn2, NEW od, NEW od2, Good(s, ty, n, tn, od), tn \subseteq tn2, od \subseteq od2
  PROVE  Good(s, ty, n, tn2, od2)
<1>1. Seen(s, tn2)
  BY DEF Good, Seen
<1>2. Past(s, tn2)
  BY DEF Good, Past
<1>3. Focus(s, ty, od2)
  BY DEF Good, Focus
<1>. QED  BY <1>1, <1>2, <1>3 DEF Good

\* The invariant holds of what set() leaves when that is good.
LEMMA Follows ==
  ASSUME NEW r, Set(r), type' \in Seq(Type), made' \in Nat,
         Good(r, type', made', torn', astray' \cup torn'), Carried'
  PROVE  TabsInv'
<1>1. Typed(r, type', made')
  BY DEF Good
<1>2. Store' = r
  <2>1. r = [tabs |-> r.tabs, panes |-> r.panes, active |-> r.active, focused |-> r.focused,
              recent |-> r.recent, closed |-> r.closed, killed |-> r.killed]
    BY <1>1 DEF Typed
  <2>. QED  BY <2>1 DEF Set, Store
<1>3. Straight(r, astray' \cup torn')
  <2>. SUFFICES ASSUME NEW t \in DOMAIN r.tabs, t \notin astray'
                PROVE  PanesIn(r.tabs[t].layout) \subseteq PanesOf(r, t)
    BY DEF Straight
  <2>1. r.tabs[t].layout \in Seq(1..Len(type'))
    BY <1>1 DEF Typed, Layouts
  <2>2. Keep(r.tabs[t].layout, PanesOf(r, t)) = r.tabs[t].layout
    BY DEF Set, Drawn
  <2>3. ToSet(Keep(r.tabs[t].layout, PanesOf(r, t))) = ToSet(r.tabs[t].layout) \cap PanesOf(r, t)
    BY <2>1, KeepFacts
  <2>. QED  BY <2>2, <2>3 DEF PanesIn
<1>4. Good(Store, type, made, torn, astray \cup torn)' /\ Straight(Store, astray \cup torn)'
  BY <1>2, <1>3 DEF Good, Typed, Seen, Past, Dead, Live, Focus, Straight, Held, PanesOf, TabsOf, Layouts, Entry, Once, PanesIn, NoTab
<1>. QED  BY <1>4 DEF TabsInv

\* A drag goes on while panes are made.
LEMMA StillCarried ==
  ASSUME Carried, type \in Seq(Type), type' \in Seq(Type), Grows(type, type'), drag' = drag, torn \subseteq torn'
  PROVE  Carried'
<1>1. Layouts(type) \subseteq Layouts(type')
  <2>1. 1..Len(type) \subseteq 1..Len(type')
    BY DEF Grows
  <2>. QED  BY <2>1, SeqWider DEF Layouts
<1>. QED  BY <1>1 DEF Carried, Idle, NoDrag, Layouts, PanesIn, NoTab

\* A step that changes the store only, to a good one, preserves the invariant.
LEMMA Stays ==
  ASSUME TabsInv, NoChange, NEW r, Set(r), Good(r, type, made, torn, astray \cup torn)
  PROVE  TabsInv'
<1>1. type \in Seq(Type) /\ made \in Nat /\ Carried
  BY DEF TabsInv
<1>2. drag' = drag /\ type' = type /\ made' = made /\ torn' = torn /\ astray \subseteq astray'
  BY DEF NoChange, Set
<1>3. Carried'
  BY <1>1, <1>2, StillCarried DEF Grows
<1>4. Good(r, type, made, torn, astray' \cup torn)
  BY <1>2, Looser
<1>5. Good(r, type', made', torn', astray' \cup torn')
  BY <1>2, <1>4
<1>6. type' \in Seq(Type) /\ made' \in Nat
  BY <1>1, <1>2
<1>. QED  BY <1>3, <1>5, <1>6, Follows

\* Only pointers have changed, and perhaps the closed tabs have been forgotten.
LEMMA PointedGood ==
  ASSUME NEW ty, NEW n, NEW s, NEW tn, NEW od, Good(s, ty, n, tn, od), NEW r,
         r = [tabs |-> s.tabs, panes |-> s.panes, active |-> r.active, focused |-> r.focused,
              recent |-> r.recent, closed |-> r.closed, killed |-> s.killed],
         r.closed = s.closed \/ r.closed = <<>>,
         r.active \in [WorkspaceId -> 0..n], r.recent \in [WorkspaceId -> Seq(0..n)],
         \A w \in WorkspaceId :
           /\ r.active[w] = NoTab <=> TabsOf(s, w) = {}
           /\ ToSet(r.recent[w]) \cup {r.active[w]} \subseteq TabsOf(s, w) \cup {NoTab}
           /\ IsInjective(r.recent[w]),
         DOMAIN r.focused \subseteq DOMAIN s.tabs, r.focused \in [DOMAIN r.focused -> 1..Len(ty)],
         \A t \in DOMAIN r.focused : t \in od \/ Held(s, ty, t, r.focused[t])
  PROVE  Good(r, ty, n, tn, od)
<1>1. r.tabs = s.tabs /\ r.panes = s.panes /\ r.killed = s.killed
  OBVIOUS
<1>2. Typed(r, ty, n)
  <2>1. r.closed \in Seq(Entry(ty, n))
    <3>1. s.closed \in Seq(Entry(ty, n)) /\ <<>> \in Seq(Entry(ty, n))
      BY DEF Good, Typed
    <3>2. CASE r.closed = <<>>
      BY <3>1, <3>2
    <3>3. CASE r.closed # <<>>
      BY <3>1, <3>3
    <3>. QED  BY <3>2, <3>3
  <2>. QED  BY <1>1, <2>1 DEF Good, Typed
<1>3. Seen(r, tn) /\ Dead(r, ty)
  BY <1>1 DEF Good, Seen, Dead
<1>4. Past(r, tn)
  BY DEF Good, Past
<1>5. Live(r)
  BY <1>1 DEF Live, TabsOf
<1>6. Focus(r, ty, od)
  BY <1>1 DEF Focus, Held, PanesOf
<1>. QED  BY <1>2, <1>3, <1>4, <1>5, <1>6 DEF Good

\* The fields of the store are the variables.
LEMMA StoreFields ==
  /\ Store.tabs = tabs /\ Store.panes = panes /\ Store.active = active /\ Store.focused = focused
  /\ Store.recent = recent /\ Store.closed = closed /\ Store.killed = killed
BY DEF Store

\* What the invariant says of the present store.
LEMMA Now ==
  ASSUME TabsInv
  PROVE  /\ type \in Seq(Type) /\ made \in Nat /\ torn \subseteq astray \cup torn
         /\ Good(Store, type, made, torn, astray \cup torn) /\ Typed(Store, type, made)
         /\ Live(Store) /\ Focus(Store, type, astray \cup torn)
         /\ \A t : Upright(Store, t, astray \cup torn)
BY DEF TabsInv, Good, Straight, Upright

\* removeTab, called by the user.
LEMMA CloseTabStep ==
  ASSUME TabsInv, NEW t, CloseTab(t)
  PROVE  TabsInv'
<1>1. t \in DOMAIN Store.tabs /\ Set(RemoveTab(Store, t)) /\ NoChange
  BY StoreFields DEF CloseTab
<1>2. Good(RemoveTab(Store, t), type, made, torn, astray \cup torn)
  BY <1>1, Now, RemoveTabGood
<1>. QED  BY <1>1, <1>2, Stays

\* TabView's effect removes a tab that draws nothing.
LEMMA AutoRemoveStep ==
  ASSUME TabsInv, NEW w \in WorkspaceId, AutoRemove(w)
  PROVE  TabsInv'
<1>. DEFINE t == ResolveActive(Store, w)
<1>1. t # NoTab /\ Set(RemoveTab(Store, t)) /\ NoChange
  BY DEF AutoRemove
<1>2. t \in DOMAIN Store.tabs
  BY <1>1, Now, ResolveFacts DEF TabsOf
<1>. HIDE DEF t
<1>3. Good(RemoveTab(Store, t), type, made, torn, astray \cup torn)
  BY <1>2, Now, RemoveTabGood
<1>. QED  BY <1>1, <1>3, Stays

\* removePane, also while a pane is being dragged.
LEMMA ClosePaneStep ==
  ASSUME TabsInv, NEW p, ClosePane(p)
  PROVE  TabsInv'
<1>1. p \in DOMAIN Store.panes /\ Set(RemovePane(Store, p)) /\ NoChange
  BY StoreFields DEF ClosePane
<1>2. Good(RemovePane(Store, p), type, made, torn, astray \cup torn)
  BY <1>1, Now, RemovePaneGood
<1>. QED  BY <1>1, <1>2, Stays

\* setActiveTab: the stack keeps tabs of the workspace only, each once.
LEMMA SetActiveTabStep ==
  ASSUME TabsInv, NEW w \in WorkspaceId, NEW t, SetActiveTab(w, t)
  PROVE  TabsInv'
<1>. DEFINE r == [Store EXCEPT !.active[w] = t, !.recent[w] = Visited(Store, w, t, NoTab)]
<1>1. t \in TabsOf(Store, w) /\ Set(r) /\ NoChange
  BY DEF SetActiveTab
<1>2. /\ Visited(Store, w, t, NoTab) \in Seq(0..made) /\ IsInjective(Visited(Store, w, t, NoTab))
      /\ ToSet(Visited(Store, w, t, NoTab)) \subseteq TabsOf(Store, w) \cup {NoTab}
  BY Now, VisitedFacts
<1>3. TabsOf(Store, w) \in SUBSET (1..made) /\ NoTab \notin TabsOf(Store, w)
  BY Now, TabNumbers
<1>4. /\ Store = [tabs |-> Store.tabs, panes |-> Store.panes, active |-> Store.active, focused |-> Store.focused,
                  recent |-> Store.recent, closed |-> Store.closed, killed |-> Store.killed]
      /\ Store.active \in [WorkspaceId -> 0..made] /\ Store.recent \in [WorkspaceId -> Seq(0..made)]
      /\ DOMAIN Store.focused \subseteq DOMAIN Store.tabs /\ Store.focused \in [DOMAIN Store.focused -> 1..Len(type)]
  BY Now DEF Typed
<1>5. /\ r.active = [Store.active EXCEPT ![w] = t]
      /\ r.recent = [Store.recent EXCEPT ![w] = Visited(Store, w, t, NoTab)]
      /\ r.focused = Store.focused /\ r.closed = Store.closed
      /\ r = [tabs |-> Store.tabs, panes |-> Store.panes, active |-> r.active, focused |-> r.focused,
              recent |-> r.recent, closed |-> r.closed, killed |-> Store.killed]
  <2>1. r = [Store EXCEPT !.active[w] = t, !.recent[w] = Visited(Store, w, t, NoTab)]
    OBVIOUS
  <2>. HIDE DEF r
  <2>. QED  BY <1>4, <2>1
<1>6. r.active \in [WorkspaceId -> 0..made] /\ r.recent \in [WorkspaceId -> Seq(0..made)]
  <2>1. t \in 0..made
    BY <1>1, <1>3, Now
  <2>. QED  BY <1>2, <1>4, <1>5, <2>1
<1>7. ASSUME NEW u \in WorkspaceId
      PROVE  /\ r.active[u] = NoTab <=> TabsOf(Store, u) = {}
             /\ ToSet(r.recent[u]) \cup {r.active[u]} \subseteq TabsOf(Store, u) \cup {NoTab}
             /\ IsInjective(r.recent[u])
  <2>1. CASE u = w
    <3>1. r.active[u] = t /\ r.recent[u] = Visited(Store, w, t, NoTab)
      BY <1>4, <1>5, <2>1
    <3>. QED  BY <1>1, <1>2, <1>3, <2>1, <3>1
  <2>2. CASE u # w
    <3>1. r.active[u] = Store.active[u] /\ r.recent[u] = Store.recent[u]
      BY <1>4, <1>5, <2>2
    <3>. QED  BY Now, <3>1 DEF Live
  <2>. QED  BY <2>1, <2>2
<1>8. \A u \in DOMAIN r.focused : u \in astray \cup torn \/ Held(Store, type, u, r.focused[u])
  BY Now, <1>5 DEF Focus
<1>. HIDE DEF r
<1>9. Good(r, type, made, torn, astray \cup torn)
  BY Now, <1>4, <1>5, <1>6, <1>7, <1>8, PointedGood
<1>. QED  BY <1>1, <1>9, Stays

\* The focus of a tab goes to one of its panes, or to any when it is torn or astray.
LEMMA FocusStep ==
  ASSUME TabsInv, NoChange, NEW t \in DOMAIN tabs, NEW p, Set([Store EXCEPT !.focused = Put(@, t, p)]),
         p \in PanesOf(Store, t) \/ (t \in astray \cup torn /\ p \in 1..Len(type))
  PROVE  TabsInv'
<1>. DEFINE r == [Store EXCEPT !.focused = Put(@, t, p)]
<1>4. /\ Store = [tabs |-> Store.tabs, panes |-> Store.panes, active |-> Store.active, focused |-> Store.focused,
                  recent |-> Store.recent, closed |-> Store.closed, killed |-> Store.killed]
      /\ Store.active \in [WorkspaceId -> 0..made] /\ Store.recent \in [WorkspaceId -> Seq(0..made)]
      /\ DOMAIN Store.focused \subseteq DOMAIN Store.tabs /\ Store.focused \in [DOMAIN Store.focused -> 1..Len(type)]
      /\ DOMAIN Store.panes \subseteq 1..Len(type)
  BY Now DEF Typed
<1>5. /\ r.active = Store.active /\ r.recent = Store.recent
      /\ r.focused = Put(Store.focused, t, p) /\ r.closed = Store.closed
      /\ r = [tabs |-> Store.tabs, panes |-> Store.panes, active |-> r.active, focused |-> r.focused,
              recent |-> r.recent, closed |-> r.closed, killed |-> Store.killed]
  <2>1. r = [Store EXCEPT !.focused = Put(@, t, p)]
    OBVIOUS
  <2>. HIDE DEF r
  <2>. QED  BY <1>4, <2>1
<1>6. Set(r)
  OBVIOUS
<1>7. /\ DOMAIN r.focused \subseteq DOMAIN Store.tabs /\ r.focused \in [DOMAIN r.focused -> 1..Len(type)]
  <2>1. p \in 1..Len(type)
    BY <1>4 DEF PanesOf
  <2>. QED  BY <1>4, <1>5, <2>1, StoreFields DEF Put
<1>8. \A u \in DOMAIN r.focused : u \in astray \cup torn \/ Held(Store, type, u, r.focused[u])
  BY Now, <1>5 DEF Focus, Put, Held
<1>. HIDE DEF r
<1>9. \A w \in WorkspaceId :
        /\ r.active[w] = NoTab <=> TabsOf(Store, w) = {}
        /\ ToSet(r.recent[w]) \cup {r.active[w]} \subseteq TabsOf(Store, w) \cup {NoTab}
        /\ IsInjective(r.recent[w])
  BY Now, <1>5 DEF Live
<1>10. Good(r, type, made, torn, astray \cup torn)
  BY Now, <1>4, <1>5, <1>7, <1>8, <1>9, PointedGood
<1>. QED  BY <1>6, <1>10, Stays

\* setFocusedPane: what is drawn of a tab are its panes.
LEMMA SetFocusedPaneStep ==
  ASSUME TabsInv, NEW t \in DOMAIN tabs, NEW p, SetFocusedPane(t, p)
  PROVE  TabsInv'
<1>1. p \in ToSet(Keep(Store.tabs[t].layout, PanesOf(Store, t)))
  BY DEF SetFocusedPane, Shown, Drawn, PanesIn
<1>2. Store.tabs[t].layout \in Seq(1..Len(type))
  BY Now, StoreFields DEF Typed, Layouts
<1>3. p \in PanesOf(Store, t)
  BY <1>1, <1>2, KeepFacts
<1>. QED  BY <1>3, FocusStep DEF SetFocusedPane

\* One of the browsers of a workspace comes to the front.
LEMMA BrowserStep ==
  ASSUME TabsInv, NoChange, NEW w \in WorkspaceId, NEW p \in DOMAIN panes, panes[p].tab \in TabsOf(Store, w),
         Set([Store EXCEPT !.active[w] = panes[p].tab, !.focused = Put(@, panes[p].tab, p), !.recent[w] = Pushed(Store, w)])
  PROVE  TabsInv'
<1>. DEFINE t == panes[p].tab
            r == [Store EXCEPT !.active[w] = t, !.focused = Put(@, t, p), !.recent[w] = Pushed(Store, w)]
<1>1. Set(r) /\ t \in TabsOf(Store, w) /\ p \in PanesOf(Store, t)
  BY StoreFields DEF PanesOf
<1>r. r = [Store EXCEPT !.active[w] = t, !.focused = Put(@, t, p), !.recent[w] = Pushed(Store, w)]
  OBVIOUS
<1>. HIDE DEF r, t
<1>2. /\ Pushed(Store, w) \in Seq(0..made) /\ IsInjective(Pushed(Store, w))
      /\ ToSet(Pushed(Store, w)) \subseteq TabsOf(Store, w) \cup {NoTab}
  BY Now, PushedFacts
<1>3. TabsOf(Store, w) \in SUBSET (1..made) /\ NoTab \notin TabsOf(Store, w) /\ t \in DOMAIN Store.tabs
  BY <1>1, Now, TabNumbers DEF TabsOf
<1>4. /\ Store = [tabs |-> Store.tabs, panes |-> Store.panes, active |-> Store.active, focused |-> Store.focused,
                  recent |-> Store.recent, closed |-> Store.closed, killed |-> Store.killed]
      /\ Store.active \in [WorkspaceId -> 0..made] /\ Store.recent \in [WorkspaceId -> Seq(0..made)]
      /\ DOMAIN Store.focused \subseteq DOMAIN Store.tabs /\ Store.focused \in [DOMAIN Store.focused -> 1..Len(type)]
      /\ DOMAIN Store.panes \subseteq 1..Len(type)
  BY Now DEF Typed
<1>5. /\ r.active = [Store.active EXCEPT ![w] = t]
      /\ r.recent = [Store.recent EXCEPT ![w] = Pushed(Store, w)]
      /\ r.focused = Put(Store.focused, t, p) /\ r.closed = Store.closed
      /\ r = [tabs |-> Store.tabs, panes |-> Store.panes, active |-> r.active, focused |-> r.focused,
              recent |-> r.recent, closed |-> r.closed, killed |-> Store.killed]
  BY <1>4, <1>r
<1>6. r.active \in [WorkspaceId -> 0..made] /\ r.recent \in [WorkspaceId -> Seq(0..made)]
  <2>1. t \in 0..made
    BY <1>1, <1>3, Now
  <2>. QED  BY <1>2, <1>4, <1>5, <2>1
<1>7. ASSUME NEW u \in WorkspaceId
      PROVE  /\ r.active[u] = NoTab <=> TabsOf(Store, u) = {}
             /\ ToSet(r.recent[u]) \cup {r.active[u]} \subseteq TabsOf(Store, u) \cup {NoTab}
             /\ IsInjective(r.recent[u])
  <2>1. CASE u = w
    <3>1. r.active[u] = t /\ r.recent[u] = Pushed(Store, w)
      BY <1>4, <1>5, <2>1
    <3>. QED  BY <1>1, <1>2, <1>3, <2>1, <3>1
  <2>2. CASE u # w
    <3>1. r.active[u] = Store.active[u] /\ r.recent[u] = Store.recent[u]
      BY <1>4, <1>5, <2>2
    <3>. QED  BY Now, <3>1 DEF Live
  <2>. QED  BY <2>1, <2>2
<1>8. \A u \in DOMAIN r.focused : u \in astray \cup torn \/ Held(Store, type, u, r.focused[u])
  BY Now, <1>1, <1>5 DEF Focus, Put, Held
<1>9. DOMAIN r.focused \subseteq DOMAIN Store.tabs /\ r.focused \in [DOMAIN r.focused -> 1..Len(type)]
  <2>1. p \in 1..Len(type)
    BY <1>1, <1>4 DEF PanesOf
  <2>. QED  BY <1>3, <1>4, <1>5, <2>1 DEF Put
<1>10. Good(r, type, made, torn, astray \cup torn)
  BY Now, <1>4, <1>5, <1>6, <1>7, <1>8, <1>9, PointedGood
<1>. QED  BY <1>1, <1>10, Stays

\* A new renderer: merge repairs what it takes from storage, and a drag is over.
LEMMA ReloadStep ==
  ASSUME TabsInv, Reload
  PROVE  TabsInv'
<1>. DEFINE r == [Store EXCEPT
                   !.active = [w \in WorkspaceId |-> ResolveActive(Store, w)],
                   !.recent = [w \in WorkspaceId |->
                                 IF TabsOf(Store, w) = {} THEN @[w] ELSE Keep(@[w], TabsOf(Store, w))],
                   !.focused = Restrict(@, {t \in DOMAIN @ : @[t] \in PanesOf(Store, t)}),
                   !.closed = <<>>]
<1>1. Set(r) /\ drag' = NoDrag /\ type' = type /\ made' = made /\ torn' = torn
  BY DEF Reload
<1>r. r = [Store EXCEPT
            !.active = [w \in WorkspaceId |-> ResolveActive(Store, w)],
            !.recent = [w \in WorkspaceId |->
                          IF TabsOf(Store, w) = {} THEN @[w] ELSE Keep(@[w], TabsOf(Store, w))],
            !.focused = Restrict(@, {t \in DOMAIN @ : @[t] \in PanesOf(Store, t)}),
            !.closed = <<>>]
  OBVIOUS
<1>. HIDE DEF r
<1>4. /\ Store = [tabs |-> Store.tabs, panes |-> Store.panes, active |-> Store.active, focused |-> Store.focused,
                  recent |-> Store.recent, closed |-> Store.closed, killed |-> Store.killed]
      /\ Store.recent \in [WorkspaceId -> Seq(0..made)]
      /\ DOMAIN Store.focused \subseteq DOMAIN Store.tabs /\ Store.focused \in [DOMAIN Store.focused -> 1..Len(type)]
  BY Now DEF Typed
<1>5. /\ r.active = [w \in WorkspaceId |-> ResolveActive(Store, w)]
      /\ r.recent = [w \in WorkspaceId |->
                       IF TabsOf(Store, w) = {} THEN Store.recent[w] ELSE Keep(Store.recent[w], TabsOf(Store, w))]
      /\ r.focused = Restrict(Store.focused, {t \in DOMAIN Store.focused : Store.focused[t] \in PanesOf(Store, t)})
      /\ r.closed = <<>>
      /\ r = [tabs |-> Store.tabs, panes |-> Store.panes, active |-> r.active, focused |-> r.focused,
              recent |-> r.recent, closed |-> r.closed, killed |-> Store.killed]
  BY <1>4, <1>r
<1>6. ASSUME NEW w \in WorkspaceId
      PROVE  /\ r.active[w] \in 0..made /\ r.recent[w] \in Seq(0..made)
             /\ r.active[w] = NoTab <=> TabsOf(Store, w) = {}
             /\ ToSet(r.recent[w]) \cup {r.active[w]} \subseteq TabsOf(Store, w) \cup {NoTab}
             /\ IsInjective(r.recent[w])
  <2>1. /\ r.active[w] = ResolveActive(Store, w)
        /\ r.recent[w] = IF TabsOf(Store, w) = {} THEN Store.recent[w] ELSE Keep(Store.recent[w], TabsOf(Store, w))
    BY <1>5
  <2>2. TabsOf(Store, w) \in SUBSET (1..made) /\ NoTab \notin TabsOf(Store, w)
    BY Now, TabNumbers
  <2>3. /\ TabsOf(Store, w) = {} => ResolveActive(Store, w) = NoTab
        /\ TabsOf(Store, w) # {} => ResolveActive(Store, w) \in TabsOf(Store, w)
    BY Now, ResolveFacts
  <2>4. /\ Store.recent[w] \in Seq(0..made) /\ IsInjective(Store.recent[w])
        /\ ToSet(Store.recent[w]) \subseteq TabsOf(Store, w) \cup {NoTab}
    BY <1>4, Now DEF Live
  <2>5. /\ Keep(Store.recent[w], TabsOf(Store, w)) \in Seq(0..made)
        /\ ToSet(Keep(Store.recent[w], TabsOf(Store, w))) = ToSet(Store.recent[w]) \cap TabsOf(Store, w)
        /\ IsInjective(Keep(Store.recent[w], TabsOf(Store, w)))
    BY <2>4, KeepFacts
  <2>6. r.active[w] \in 0..made
    BY <2>1, <2>2, <2>3, Now DEF NoTab
  <2>. QED  BY <2>1, <2>2, <2>3, <2>4, <2>5, <2>6
<1>7. r.active \in [WorkspaceId -> 0..made] /\ r.recent \in [WorkspaceId -> Seq(0..made)]
  BY <1>5, <1>6
<1>8. /\ DOMAIN r.focused \subseteq DOMAIN Store.tabs /\ r.focused \in [DOMAIN r.focused -> 1..Len(type)]
      /\ \A t \in DOMAIN r.focused : r.focused[t] \in PanesOf(Store, t)
  <2>. DEFINE D == {t \in DOMAIN Store.focused : Store.focused[t] \in PanesOf(Store, t)}
  <2>1. r.focused = Restrict(Store.focused, D)
    BY <1>5
  <2>2. D \subseteq DOMAIN Store.focused /\ \A t \in D : Store.focused[t] \in PanesOf(Store, t)
    OBVIOUS
  <2>. HIDE DEF D
  <2>3. r.focused = [t \in D |-> Store.focused[t]]
    BY <2>1 DEF Restrict
  <2>4. DOMAIN r.focused = D /\ \A t \in D : r.focused[t] = Store.focused[t]
    BY <2>3
  <2>5. \A t \in D : Store.focused[t] \in 1..Len(type)
    BY <1>4, <2>2
  <2>6. r.focused \in [D -> 1..Len(type)]
    BY <2>3, <2>5
  <2>. QED  BY <1>4, <2>2, <2>4, <2>6
<1>9. Good(r, type, made, torn, astray \cup torn)
  <2>1. \A t \in DOMAIN r.focused : t \in astray \cup torn \/ Held(Store, type, t, r.focused[t])
    BY <1>8 DEF Held
  <2>2. /\ r = [tabs |-> Store.tabs, panes |-> Store.panes, active |-> r.active, focused |-> r.focused,
                recent |-> r.recent, closed |-> r.closed, killed |-> Store.killed]
        /\ r.closed = Store.closed \/ r.closed = <<>>
    BY <1>5
  <2>3. \A w \in WorkspaceId :
          /\ r.active[w] = NoTab <=> TabsOf(Store, w) = {}
          /\ ToSet(r.recent[w]) \cup {r.active[w]} \subseteq TabsOf(Store, w) \cup {NoTab}
          /\ IsInjective(r.recent[w])
    BY <1>6
  <2>. QED  BY Now, <1>7, <1>8, <2>1, <2>2, <2>3, PointedGood
<1>10. Good(r, type', made', torn', astray' \cup torn')
  <2>1. astray \subseteq astray'
    BY <1>1 DEF Set
  <2>2. Good(r, type, made, torn, astray' \cup torn)
    BY <1>9, <2>1, Looser
  <2>. QED  BY <1>1, <2>2
<1>11. Carried'
  BY <1>1 DEF Carried, Idle, NoDrag, NoTab
<1>. QED  BY <1>1, <1>10, <1>11, Now, Follows

------------------------------------------------------------------------------
(* Steps that make panes *)

\* New panes of a kind.
LEMMA MadeFacts ==
  ASSUME type \in Seq(Type), NEW k \in Nat, NEW kind \in Type, Making(k, kind)
  PROVE  /\ type' \in Seq(Type) /\ Grows(type, type') /\ Len(type') = Len(type) + k
         /\ \A i \in 1..k : type'[Len(type) + i] = kind
         /\ NewPanes(k) \in Seq(1..Len(type')) /\ Len(NewPanes(k)) = k
         /\ ToSet(NewPanes(k)) = (1..Len(type')) \ (1..Len(type))
         /\ \A p \in ToSet(NewPanes(k)) : Once(NewPanes(k), p)
<1>. DEFINE more == [i \in 1..k |-> kind]  ids == NewPanes(k)  ty == type'
<1>1. more \in Seq(Type) /\ Len(more) = k
  OBVIOUS
<1>m. ty = type \o more
  BY DEF Making
<1>i. ids = [i \in 1..k |-> Len(type) + i]
  BY DEF NewPanes
<1>. HIDE DEF more, ids, ty
<1>2. /\ ty \in Seq(Type) /\ Len(ty) = Len(type) + k
      /\ \A i \in 1..Len(type) : ty[i] = type[i]
      /\ \A i \in Len(type) + 1..Len(type) + k : ty[i] = more[i - Len(type)]
  BY <1>1, <1>m, Joined
<1>3. \A i \in 1..k : ty[Len(type) + i] = kind
  BY <1>2 DEF more
<1>4. ids \in Seq(1..Len(ty)) /\ Len(ids) = k /\ DOMAIN ids = 1..k /\ \A i \in 1..k : ids[i] = Len(type) + i
  BY <1>2, <1>i
<1>5. ToSet(ids) = (1..Len(ty)) \ (1..Len(type))
  <2>1. ASSUME NEW p \in (1..Len(ty)) \ (1..Len(type)) PROVE p \in ToSet(ids)
    <3>1. p - Len(type) \in 1..k /\ ids[p - Len(type)] = p
      BY <1>2, <1>4
    <3>. QED  BY <1>4, <3>1 DEF ToSet
  <2>2. ASSUME NEW p \in ToSet(ids) PROVE p \in (1..Len(ty)) \ (1..Len(type))
    <3>1. PICK i \in 1..k : p = ids[i]
      BY <1>4 DEF ToSet
    <3>. QED  BY <1>2, <1>4, <3>1
  <2>. QED  BY <2>1, <2>2
<1>6. IsInjective(ids)
  BY <1>4 DEF IsInjective
<1>7. \A p \in ToSet(ids) : Once(ids, p)
  BY <1>6, OnceFacts
<1>. QED  BY <1>2, <1>3, <1>4, <1>5, <1>7 DEF Grows, ty, ids

\* The store r has new panes pn in tab t.
Widened(s, t, layout, pn, focus, r) ==
  /\ r.tabs = [s.tabs EXCEPT ![t].layout = layout] /\ r.panes = Added(s.panes, pn)
  /\ r.focused = Put(s.focused, t, focus)
  /\ r = [tabs |-> r.tabs, panes |-> r.panes, active |-> s.active, focused |-> r.focused,
          recent |-> s.recent, closed |-> s.closed, killed |-> s.killed]

\* AddPanes, field by field.
LEMMA AddPanesFields ==
  ASSUME NEW ty, NEW n, NEW s, Typed(s, ty, n), NEW t, NEW new, NEW layout, NEW focus
  PROVE  Widened(s, t, layout, Created(t, new), focus, AddPanes(s, t, new, layout, focus))
<1>. DEFINE r == AddPanes(s, t, new, layout, focus)
<1>1. r = [s EXCEPT !.tabs[t].layout = layout, !.panes = Added(@, Created(t, new)), !.focused = Put(@, t, focus)]
  BY DEF AddPanes
<1>2. s = [tabs |-> s.tabs, panes |-> s.panes, active |-> s.active, focused |-> s.focused,
           recent |-> s.recent, closed |-> s.closed, killed |-> s.killed]
  BY DEF Typed
<1>. HIDE DEF r
<1>3. Widened(s, t, layout, Created(t, new), focus, r)
  BY <1>1, <1>2 DEF Widened
<1>. QED  BY <1>3 DEF r

\* New panes in a tab: the store s holds what AddPanes has left, with a target for each.
LEMMA AddedStep ==
  ASSUME TabsInv, type' \in Seq(Type), Grows(type, type'), drag' = drag, made' = made, torn \subseteq torn',
         NEW t \in DOMAIN tabs, NEW layout \in Layouts(type'), NEW focus,
         NEW new, new = (1..Len(type')) \ (1..Len(type)), focus \in new \cup PanesOf(Store, t),
         t \notin torn' => \A p \in new \cup PanesOf(Store, t) : Once(layout, p),
         NEW pn \in [new -> [tab : {t}, target : 0..Len(type')]], NEW r, Widened(Store, t, layout, pn, focus, r),
         Set(r)
  PROVE  TabsInv'
<1>. DEFINE od == astray' \cup torn'  ty == type'  tn2 == torn'
<1>1. Good(Store, type, made, torn, od)
  <2>1. astray \cup torn \subseteq od
    BY DEF Set
  <2>. QED  BY <2>1, Now, Looser
<1>2. /\ r = [tabs |-> r.tabs, panes |-> r.panes, active |-> Store.active, focused |-> r.focused,
              recent |-> Store.recent, closed |-> Store.closed, killed |-> Store.killed]
      /\ r.tabs = [Store.tabs EXCEPT ![t].layout = layout] /\ r.focused = Put(Store.focused, t, focus)
      /\ r.panes = Added(Store.panes, pn)
  BY DEF Widened
<1>3. /\ Store.panes \in [DOMAIN Store.panes -> [tab : 1..made, target : 0..Len(type)]]
      /\ DOMAIN Store.panes \subseteq 1..Len(type) /\ t \in 1..made
  BY Now, StoreFields DEF Typed
<1>4. /\ DOMAIN r.panes = DOMAIN Store.panes \cup new
      /\ \A p \in DOMAIN Store.panes : r.panes[p] = Store.panes[p]
      /\ \A p \in new : r.panes[p] = pn[p]
  <2>1. new \cap DOMAIN Store.panes = {}
    BY <1>3
  <2>. QED  BY <1>2, <2>1 DEF Added
<1>5. r.panes \in [DOMAIN r.panes -> [tab : 1..made, target : 0..Len(ty)]] /\ \A p \in new : r.panes[p].tab = t
  <2>1. 0..Len(type) \subseteq 0..Len(ty)
    BY DEF Grows
  <2>2. \A p \in DOMAIN Store.panes : r.panes[p] \in [tab : 1..made, target : 0..Len(ty)]
    BY <1>3, <1>4, <2>1
  <2>3. \A p \in new : r.panes[p] \in [tab : 1..made, target : 0..Len(ty)] /\ r.panes[p].tab = t
    BY <1>3, <1>4
  <2>. QED  BY <1>2, <1>4, <2>2, <2>3 DEF Added
<1>6. t \in DOMAIN Store.tabs /\ tn2 \subseteq od /\ ty \in Seq(Type) /\ Grows(type, ty)
  BY StoreFields
<1>7. \A p \in new \cup PanesOf(Store, t) : t \notin tn2 => Once(layout, p)
  OBVIOUS
<1>8. layout \in Layouts(ty) /\ new = (1..Len(ty)) \ (1..Len(type)) /\ torn \subseteq tn2
  OBVIOUS
<1>. HIDE DEF od, ty, tn2
<1>9. Good(r, ty, made, tn2, od)
  <2>1. Adds(Store, ty, made, t, layout, focus, new, tn2, r)
    BY <1>2, <1>4, <1>5, <1>6, <1>7, <1>8 DEF Adds
  <2>. QED  BY <1>1, <1>6, <1>8, <2>1, Now, AddedGood
<1>10. Good(r, type', made', torn', astray' \cup torn')
  BY <1>9 DEF od, ty, tn2
<1>11. Carried'
  BY StillCarried DEF TabsInv
<1>. QED  BY <1>10, <1>11, Now, Follows

\* New panes in a tab whose layout draws them and all it had.
LEMMA AddPanesStep ==
  ASSUME TabsInv, type' \in Seq(Type), Grows(type, type'), drag' = drag, made' = made, torn \subseteq torn',
         NEW t \in DOMAIN tabs, NEW layout \in Layouts(type'), NEW focus,
         NEW new, new = (1..Len(type')) \ (1..Len(type)), focus \in new \cup PanesOf(Store, t),
         t \notin torn' => \A p \in new \cup PanesOf(Store, t) : Once(layout, p),
         Set(AddPanes(Store, t, new, layout, focus))
  PROVE  TabsInv'
<1>. DEFINE pn == Created(t, new)
            r == AddPanes(Store, t, new, layout, focus)
<1>1. pn \in [new -> [tab : {t}, target : 0..Len(type')]]
  BY DEF Created
<1>2. Widened(Store, t, layout, pn, focus, r)
  BY Now, AddPanesFields
<1>3. Set(r)
  OBVIOUS
<1>. HIDE DEF pn, r
<1>. QED  BY <1>1, <1>2, <1>3, AddedStep

\* What is known of the panes of a tab.
LEMMA PanesThere ==
  ASSUME TabsInv, NEW t \in DOMAIN tabs
  PROVE  /\ tabs[t].layout \in Layouts(type) /\ PanesOf(Store, t) \subseteq 1..Len(type)
         /\ t \notin torn => \A p \in PanesOf(Store, t) : Once(tabs[t].layout, p)
         /\ t \notin astray \cup torn => ToSet(tabs[t].layout) \subseteq PanesOf(Store, t)
         /\ ToSet(Drawn(Store, t)) \subseteq PanesOf(Store, t)
<1>1. tabs[t].layout \in Layouts(type) /\ PanesOf(Store, t) \subseteq 1..Len(type)
  BY Now, StoreFields DEF Typed, PanesOf
<1>2. t \notin torn => \A p \in PanesOf(Store, t) : Once(tabs[t].layout, p)
  BY Now, StoreFields DEF Good, Seen, PanesOf
<1>3. t \notin astray \cup torn => ToSet(tabs[t].layout) \subseteq PanesOf(Store, t)
  BY Now, StoreFields DEF Upright, PanesIn
<1>4. ToSet(Drawn(Store, t)) = ToSet(tabs[t].layout) \cap PanesOf(Store, t)
  BY <1>1, StoreFields, KeepFacts DEF Drawn, Layouts
<1>. QED  BY <1>1, <1>2, <1>3, <1>4

\* Panes that are new in a layout, at its end or at a place in it.
LEMMA NewLayouts ==
  ASSUME TabsInv, NEW t \in DOMAIN tabs, NEW ty \in Seq(Type), Grows(type, ty),
         NEW ids \in Seq(1..Len(ty)), ToSet(ids) = (1..Len(ty)) \ (1..Len(type)), \A p \in ToSet(ids) : Once(ids, p)
  PROVE  /\ tabs[t].layout \o ids \in Layouts(ty)
         /\ t \notin torn => \A p \in ToSet(ids) \cup PanesOf(Store, t) : Once(tabs[t].layout \o ids, p)
<1>. DEFINE old == tabs[t].layout
<1>1. /\ old \in Layouts(type) /\ PanesOf(Store, t) \subseteq 1..Len(type)
      /\ t \notin torn => \A p \in PanesOf(Store, t) : Once(old, p)
  BY PanesThere
<1>2. old \in Seq(1..Len(ty)) /\ old # <<>> /\ ToSet(old) \subseteq 1..Len(type)
  <2>1. old \in Seq(1..Len(type)) /\ old # <<>>
    BY <1>1 DEF Layouts
  <2>2. 1..Len(type) \subseteq 1..Len(ty)
    BY DEF Grows
  <2>3. ToSet(old) \subseteq 1..Len(type)
    BY <2>1, FirstFacts
  <2>. QED  BY <2>1, <2>2, <2>3, SeqWider
<1>. HIDE DEF old
<1>3. /\ old \o ids \in Seq(1..Len(ty)) /\ old \o ids # <<>>
      /\ \A p : p \notin ToSet(ids) /\ Once(old, p) => Once(old \o ids, p)
      /\ \A p : p \notin ToSet(old) /\ Once(ids, p) => Once(old \o ids, p)
  BY <1>2, JoinFacts
<1>4. old \o ids \in Layouts(ty)
  BY <1>3 DEF Layouts
<1>5. t \notin torn => \A p \in ToSet(ids) \cup PanesOf(Store, t) : Once(old \o ids, p)
  <2>1. ASSUME NEW p \in ToSet(ids) PROVE Once(old \o ids, p)
    BY <1>2, <1>3, <2>1
  <2>2. ASSUME t \notin torn, NEW p \in PanesOf(Store, t) PROVE Once(old \o ids, p)
    BY <1>1, <1>3, <2>2
  <2>. QED  BY <2>1, <2>2
<1>. QED  BY <1>4, <1>5 DEF old

\* addPane and addPanesToTab: the new panes come after the old ones.
LEMMA AddPanesToTabStep ==
  ASSUME TabsInv, NEW t \in DOMAIN tabs, NEW n \in 1..2, AddPanesToTab(t, n)
  PROVE  TabsInv'
<1>. DEFINE ids == NewPanes(n)
<1>1. /\ Making(n, "terminal") /\ drag' = drag /\ made' = made /\ torn' = torn
      /\ Set(AddPanes(Store, t, ToSet(ids), tabs[t].layout \o ids, NewPane))
  BY DEF AddPanesToTab
<1>2. n \in Nat /\ "terminal" \in Type /\ type \in Seq(Type)
  BY Now DEF Type
<1>4. /\ type' \in Seq(Type) /\ Grows(type, type') /\ Len(type') = Len(type) + n
      /\ ids \in Seq(1..Len(type')) /\ ToSet(ids) = (1..Len(type')) \ (1..Len(type))
      /\ \A p \in ToSet(ids) : Once(ids, p)
  BY <1>1, <1>2, MadeFacts
<1>. HIDE DEF ids
<1>5. /\ tabs[t].layout \o ids \in Layouts(type')
      /\ t \notin torn => \A p \in ToSet(ids) \cup PanesOf(Store, t) : Once(tabs[t].layout \o ids, p)
  BY <1>4, NewLayouts
<1>6. NewPane \in ToSet(ids)
  BY <1>2, <1>4 DEF NewPane
<1>. QED  BY <1>1, <1>4, <1>5, <1>6, AddPanesStep

\* A pane of a kind at the end of a layout, as several operations add one.
LEMMA AppendStep ==
  ASSUME TabsInv, NEW t \in DOMAIN tabs, NEW kind \in Type, Making(1, kind), drag' = drag, made' = made,
         torn' = torn, NEW pn \in [{NewPane} -> [tab : {t}, target : 0..Len(type')]],
         NEW focus \in {NewPane} \cup PanesOf(Store, t), NEW r, Set(r),
         Widened(Store, t, Append(tabs[t].layout, NewPane), pn, focus, r)
  PROVE  TabsInv'
<1>. DEFINE ids == NewPanes(1)
            layout == Append(tabs[t].layout, NewPane)
<1>1. type \in Seq(Type) /\ 1 \in Nat
  BY Now
<1>3. layout = tabs[t].layout \o ids
  <2>1. tabs[t].layout \in Seq(1..Len(type)) /\ NewPane \in Nat
    BY <1>1, PanesThere DEF Layouts, NewPane
  <2>2. ids = <<NewPane>>
    BY <1>1 DEF NewPane, NewPanes
  <2>3. tabs[t].layout \in Seq(Nat)
    BY <2>1, SeqWider
  <2>4. \A u \in Seq(Nat), x \in Nat : Append(u, x) = u \o <<x>>
    OBVIOUS
  <2>. HIDE DEF ids
  <2>. QED  BY <2>1, <2>2, <2>3, <2>4
<1>4. /\ type' \in Seq(Type) /\ Grows(type, type') /\ Len(type') = Len(type) + 1
      /\ ids \in Seq(1..Len(type')) /\ ToSet(ids) = (1..Len(type')) \ (1..Len(type))
      /\ \A p \in ToSet(ids) : Once(ids, p)
  BY <1>1, MadeFacts
<1>. HIDE DEF ids
<1>5. ToSet(ids) = {NewPane} /\ {NewPane} = (1..Len(type')) \ (1..Len(type))
  BY <1>1, <1>4 DEF NewPane
<1>6. /\ layout \in Layouts(type')
      /\ t \notin torn => \A p \in {NewPane} \cup PanesOf(Store, t) : Once(layout, p)
  BY <1>3, <1>4, <1>5, NewLayouts
<1>7. Widened(Store, t, layout, pn, focus, r)
  OBVIOUS
<1>. HIDE DEF layout
<1>. QED  BY <1>4, <1>5, <1>6, <1>7, AddedStep

\* One new pane.
LEMMA MadeOne ==
  ASSUME TabsInv, NEW kind \in Type, Making(1, kind)
  PROVE  /\ type' \in Seq(Type) /\ Grows(type, type') /\ Len(type') = Len(type) + 1
         /\ {NewPane} = (1..Len(type')) \ (1..Len(type)) /\ NewPane \in 1..Len(type')
<1>1. /\ type' \in Seq(Type) /\ Grows(type, type') /\ Len(type') = Len(type) + 1 /\ Len(type) \in Nat
  BY Now, MadeFacts
<1>. QED  BY <1>1 DEF NewPane

\* One pane of any type comes after the others.
LEMMA AppendOneStep ==
  ASSUME TabsInv, NEW t \in DOMAIN tabs, NEW kind \in Type, Making(1, kind), drag' = drag, made' = made, torn' = torn,
         Set(AddPanes(Store, t, {NewPane}, Append(tabs[t].layout, NewPane), NewPane))
  PROVE  TabsInv'
<1>. DEFINE pn == Created(t, {NewPane})  layout == Append(tabs[t].layout, NewPane)
            r == AddPanes(Store, t, {NewPane}, layout, NewPane)
<1>1. pn \in [{NewPane} -> [tab : {t}, target : 0..Len(type')]]
  <2>1. 0 \in 0..Len(type')
    BY MadeOne
  <2>. QED  BY <2>1 DEF Created
<1>2. Widened(Store, t, layout, pn, NewPane, r)
  BY Now, AddPanesFields
<1>3. Set(r)
  OBVIOUS
<1>4. NewPane \in {NewPane} \cup PanesOf(Store, t)
  OBVIOUS
<1>. HIDE DEF pn, r
<1>. QED  BY <1>1, <1>2, <1>3, <1>4, AppendStep

\* addFileViewerPane: a viewer is focused, or a new one opens beside the others.
LEMMA OpenFileStep ==
  ASSUME TabsInv, NEW w \in WorkspaceId, OpenFile(w)
  PROVE  TabsInv'
<1>. DEFINE t == ResolveActive(Store, w)
<1>1. t # NoTab
  BY DEF OpenFile
<1>2. t \in DOMAIN tabs
  BY <1>1, Now, StoreFields, ResolveFacts DEF TabsOf
<1>3. \/ \E p \in PanesIn(tabs[t].layout) \cap DOMAIN panes :
           Set([Store EXCEPT !.focused = Put(@, t, p)]) /\ NoChange
      \/ /\ Making(1, "file-viewer")
         /\ Set(AddPanes(Store, t, {NewPane}, Append(tabs[t].layout, NewPane), NewPane))
         /\ drag' = drag /\ made' = made /\ torn' = torn
  BY DEF OpenFile
<1>. HIDE DEF t
<1>4. ASSUME NEW p \in PanesIn(tabs[t].layout) \cap DOMAIN panes,
             Set([Store EXCEPT !.focused = Put(@, t, p)]), NoChange
      PROVE  TabsInv'
  <2>1. p \in PanesOf(Store, t) \/ t \in astray \cup torn
    BY <1>2, PanesThere DEF PanesIn
  <2>2. p \in 1..Len(type)
    BY Now, StoreFields DEF Typed
  <2>. QED  BY <1>2, <1>4, <2>1, <2>2, FocusStep
<1>. QED  BY <1>2, <1>3, <1>4, AppendOneStep DEF Type

\* openInBrowserPane: a browser pane of the workspace is shown, or a new one opens.
LEMMA OpenInBrowserStep ==
  ASSUME TabsInv, NEW w \in WorkspaceId, OpenInBrowser(w)
  PROVE  TabsInv'
<1>. DEFINE t == ResolveActive(Store, w)
            browsers == {p \in DOMAIN panes : type[p] = "webview" /\ panes[p].tab \in TabsOf(Store, w)}
<1>1. t # NoTab
  BY DEF OpenInBrowser
<1>2. t \in DOMAIN tabs
  BY <1>1, Now, StoreFields, ResolveFacts DEF TabsOf
<1>3. CASE browsers # {}
  <2>1. PICK p \in browsers :
          /\ Set([Store EXCEPT !.active[w] = panes[p].tab, !.focused = Put(@, panes[p].tab, p),
                               !.recent[w] = Pushed(Store, w)])
          /\ NoChange
    BY <1>3 DEF OpenInBrowser
  <2>. QED  BY <2>1, BrowserStep
<1>4. CASE browsers = {}
  <2>1. /\ Making(1, "webview")
        /\ Set(AddPanes(Store, t, {NewPane}, Append(tabs[t].layout, NewPane), NewPane))
        /\ drag' = drag /\ made' = made /\ torn' = torn
    BY <1>4 DEF OpenInBrowser
  <2>. HIDE DEF t
  <2>. QED  BY <1>2, <2>1, AppendOneStep DEF Type
<1>. QED  BY <1>3, <1>4

\* Where a layout is split.
LEMMA SplitLayouts ==
  ASSUME TabsInv, NEW t \in DOMAIN tabs, NEW p \in PanesOf(Store, t), NEW at \in Leads(t, p),
         NEW kind \in Type, Making(1, kind), torn' = torn \cup {u \in {t} : Tears(u, p, at)}
  PROVE  /\ SplitAt(t, p, at) \in Layouts(type')
         /\ t \notin torn' => \A q \in {NewPane} \cup PanesOf(Store, t) : Once(SplitAt(t, p, at), q)
<1>. DEFINE layout == tabs[t].layout  X == 1..Len(type')  nodes == <<p, NewPane>>
<1>1. /\ layout \in Layouts(type) /\ PanesOf(Store, t) \subseteq 1..Len(type)
      /\ t \notin torn => \A q \in PanesOf(Store, t) : Once(layout, q)
  BY PanesThere
<1>2. 1..Len(type) \subseteq X /\ NewPane \in X /\ NewPane \notin 1..Len(type)
  BY MadeOne DEF Grows
<1>3. layout \in Seq(X) /\ ToSet(layout) \subseteq 1..Len(type)
  <2>1. layout \in Seq(1..Len(type)) /\ layout # <<>>
    BY <1>1 DEF Layouts
  <2>. HIDE DEF layout, X
  <2>. QED  BY <2>1, <1>2, SeqWider, FirstFacts
<1>4. nodes \in Seq(X) /\ nodes # <<>>
  BY <1>1, <1>2
<1>5. at[1] \in DOMAIN layout /\ at[2] \in DOMAIN layout /\ at[1] <= at[2]
  <2>1. CASE at \in {<<i, i>> : i \in Places(layout, p)}
    <3>1. PICK i \in Places(layout, p) : at = <<i, i>>
      BY <2>1
    <3>2. i \in DOMAIN layout /\ i \in Nat
      BY <1>3, <3>1 DEF Places
    <3>. QED  BY <3>1, <3>2
  <2>2. CASE at \notin {<<i, i>> : i \in Places(layout, p)}
    <3>1. at \in (DOMAIN layout) \X (DOMAIN layout) /\ at[1] <= at[2]
      BY <2>2 DEF Leads
    <3>. QED  BY <3>1
  <2>. QED  BY <2>1, <2>2
<1>6. SplitAt(t, p, at) = SetAt(layout, at[1], at[2], nodes)
  BY DEF SplitAt
<1>7. SplitAt(t, p, at) \in Layouts(type')
  <2>. HIDE DEF layout, nodes, X
  <2>1. SetAt(layout, at[1], at[2], nodes) \in Seq(X) \ {<<>>}
    BY <1>3, <1>4, <1>5, SetAtFacts
  <2>. QED  BY <1>6, <2>1 DEF Layouts, X
<1>8. ASSUME t \notin torn', NEW q \in {NewPane} \cup PanesOf(Store, t)
      PROVE  Once(SplitAt(t, p, at), q)
  <2>1. t \notin torn /\ ~Tears(t, p, at)
    BY <1>8
  <2>2. at[1] = at[2] /\ layout[at[1]] = p
    BY <2>1 DEF Tears
  <2>3. PICK i \in DOMAIN layout : i = at[1]
    BY <1>5
  <2>. DEFINE x == NewPane
  <2>4. (nodes = <<layout[i], x>> \/ nodes = <<x, layout[i]>>) /\ x \notin ToSet(layout) /\ x \in X
    BY <1>2, <1>3, <2>2, <2>3
  <2>. HIDE DEF layout, nodes, X, x
  <2>5. Once(SetAt(layout, i, i, nodes), x)
    BY ONLY <1>3, <2>3, <2>4, SplitFacts
  <2>6. \A y : Once(layout, y) => Once(SetAt(layout, i, i, nodes), y)
    BY ONLY <1>3, <2>3, <2>4, <2>5, SplitFacts
  <2>. QED  BY <1>1, <1>6, <1>8, <2>1, <2>2, <2>3, <2>5, <2>6 DEF x
<1>. QED  BY <1>7, <1>8

\* splitPane: the new pane stands beside the split one, or the tab is torn.
LEMMA SplitStep ==
  ASSUME TabsInv, NEW t \in DOMAIN tabs, NEW p, Split(t, p)
  PROVE  TabsInv'
<1>1. Making(1, "terminal") /\ drag' = drag /\ made' = made /\ p \in PanesOf(Store, t) /\ "terminal" \in Type
  BY PanesThere DEF Split, Shown, PanesIn, Type
<1>2. CASE /\ Set(AddPanes(Store, t, {NewPane}, Append(tabs[t].layout, NewPane), NewPane))
           /\ torn' = torn
  BY <1>1, <1>2, AppendOneStep
<1>3. ASSUME NEW at \in Leads(t, p), Set(AddPanes(Store, t, {NewPane}, SplitAt(t, p, at), NewPane)),
             torn' = torn \cup {u \in {t} : Tears(u, p, at)}
      PROVE  TabsInv'
  <2>1. /\ SplitAt(t, p, at) \in Layouts(type')
        /\ t \notin torn' => \A q \in {NewPane} \cup PanesOf(Store, t) : Once(SplitAt(t, p, at), q)
    BY <1>1, <1>3, SplitLayouts
  <2>2. type' \in Seq(Type) /\ Grows(type, type') /\ {NewPane} = (1..Len(type')) \ (1..Len(type))
    BY <1>1, MadeOne
  <2>3. torn \subseteq torn' /\ NewPane \in {NewPane} \cup PanesOf(Store, t)
    BY <1>3
  <2>. QED  BY <1>1, <1>3, <2>1, <2>2, <2>3, AddPanesStep
<1>. QED  BY <1>2, <1>3 DEF Split

\* A devtools pane knows its target.
LEMMA DevToolsFields ==
  ASSUME TabsInv, NEW t \in DOMAIN tabs, NEW p \in PanesOf(Store, t), NEW layout, Len(type') = Len(type) + 1,
         NEW r, r = [AddPanes(Store, t, {NewPane}, layout, p) EXCEPT !.panes[NewPane].target = p]
  PROVE  \E pn \in [{NewPane} -> [tab : {t}, target : 0..Len(type')]] : Widened(Store, t, layout, pn, p, r)
<1>. DEFINE a == AddPanes(Store, t, {NewPane}, layout, p)
            new == {NewPane}
            cr == Created(t, new)
            pn == [q \in new |-> [tab |-> t, target |-> p]]
<1>1. Widened(Store, t, layout, cr, p, a)
  BY Now, AddPanesFields
<1>2. r = [a EXCEPT !.panes[NewPane].target = p]
  OBVIOUS
<1>3. p \in 0..Len(type')
  BY PanesThere, Now
<1>4. pn \in [new -> [tab : {t}, target : 0..Len(type')]]
  BY <1>3
<1>5. cr = [q \in new |-> [tab |-> t, target |-> 0]]
  BY DEF Created
<1>. HIDE DEF a, cr
<1>6. /\ a = [tabs |-> a.tabs, panes |-> a.panes, active |-> Store.active, focused |-> a.focused,
              recent |-> Store.recent, closed |-> Store.closed, killed |-> Store.killed]
      /\ a.panes = Added(Store.panes, cr) /\ a.focused = Put(Store.focused, t, p)
      /\ a.tabs = [Store.tabs EXCEPT ![t].layout = layout]
  BY <1>1 DEF Widened
<1>7. /\ r = [tabs |-> r.tabs, panes |-> r.panes, active |-> Store.active, focused |-> r.focused,
              recent |-> Store.recent, closed |-> Store.closed, killed |-> Store.killed]
      /\ r.tabs = a.tabs /\ r.focused = a.focused
      /\ r.panes = [a.panes EXCEPT ![NewPane].target = p]
  <2>1. PICK f : f = [a.panes EXCEPT ![NewPane].target = p]
    OBVIOUS
  <2>2. r = [a EXCEPT !.panes = f]
    BY ONLY <1>2, <2>1
  <2>3. a = [tabs |-> a.tabs, panes |-> a.panes, active |-> a.active, focused |-> a.focused,
             recent |-> a.recent, closed |-> a.closed, killed |-> a.killed]
        /\ a.active = Store.active /\ a.recent = Store.recent /\ a.closed = Store.closed /\ a.killed = Store.killed
    BY ONLY <1>6
  <2>4. /\ r.panes = f /\ r.tabs = a.tabs /\ r.focused = a.focused
        /\ r.active = a.active /\ r.recent = a.recent /\ r.closed = a.closed /\ r.killed = a.killed
        /\ r = [tabs |-> r.tabs, panes |-> r.panes, active |-> r.active, focused |-> r.focused,
                recent |-> r.recent, closed |-> r.closed, killed |-> r.killed]
    BY ONLY <2>2, <2>3
  <2>. QED  BY <2>1, <2>3, <2>4
<1>8. r.panes = Added(Store.panes, pn)
  <2>. DEFINE f == Store.panes  g == a.panes  h == Added(f, pn)
  <2>1. g = [x \in DOMAIN f \cup new |-> IF x \in new THEN cr[x] ELSE f[x]]
    BY <1>5, <1>6 DEF Added
  <2>2. h = [x \in DOMAIN f \cup new |-> IF x \in new THEN pn[x] ELSE f[x]]
    BY DEF Added
  <2>3. g[NewPane] = [tab |-> t, target |-> 0] /\ NewPane \in DOMAIN g
    BY <1>5, <2>1
  <2>4. r.panes = [x \in DOMAIN g |-> IF x = NewPane THEN [g[NewPane] EXCEPT !.target = p] ELSE g[x]]
    BY <1>7
  <2>5. [g[NewPane] EXCEPT !.target = p] = [tab |-> t, target |-> p]
    BY <2>3
  <2>6. pn[NewPane] = [tab |-> t, target |-> p]
    OBVIOUS
  <2>. HIDE DEF f, g, h, pn
  <2>7. DOMAIN g = DOMAIN f \cup new
    BY <2>1
  <2>8. \A x \in DOMAIN g : (IF x = NewPane THEN [tab |-> t, target |-> p] ELSE g[x]) = IF x \in new THEN pn[x] ELSE f[x]
    BY <2>1, <2>6
  <2>9. r.panes = [x \in DOMAIN f \cup new |-> IF x = NewPane THEN [tab |-> t, target |-> p] ELSE g[x]]
    BY <2>4, <2>5, <2>7
  <2>10. r.panes = h
    BY <2>2, <2>7, <2>8, <2>9
  <2>. QED  BY <2>10 DEF h, f
<1>. HIDE DEF pn
<1>9. Widened(Store, t, layout, pn, p, r)
  BY <1>6, <1>7, <1>8 DEF Widened
<1>. QED  BY <1>4, <1>9

\* openDevToolsPane, which splits like splitPane and leaves the focus.
LEMMA OpenDevToolsStep ==
  ASSUME TabsInv, NEW t \in DOMAIN tabs, NEW p, OpenDevTools(t, p)
  PROVE  TabsInv'
<1>. DEFINE opened(layout) == [AddPanes(Store, t, {NewPane}, layout, p) EXCEPT !.panes[NewPane].target = p]
<1>1. /\ Making(1, "devtools") /\ drag' = drag /\ made' = made /\ p \in PanesOf(Store, t) /\ "devtools" \in Type
      /\ p \in {NewPane} \cup PanesOf(Store, t)
  BY PanesThere DEF OpenDevTools, Shown, PanesIn, Type
<1>2. type' \in Seq(Type) /\ Grows(type, type') /\ Len(type') = Len(type) + 1 /\ {NewPane} = (1..Len(type')) \ (1..Len(type))
  BY <1>1, MadeOne
<1>3. CASE Set(opened(Append(tabs[t].layout, NewPane))) /\ torn' = torn
  <2>. DEFINE layout == Append(tabs[t].layout, NewPane)  r == opened(layout)
  <2>1. \E pn \in [{NewPane} -> [tab : {t}, target : 0..Len(type')]] : Widened(Store, t, layout, pn, p, r)
    BY <1>1, <1>2, DevToolsFields
  <2>2. Set(r)
    BY <1>3
  <2>. HIDE DEF r
  <2>. QED  BY <1>1, <1>3, <2>1, <2>2, AppendStep
<1>4. ASSUME NEW at \in Leads(t, p), Set(opened(SplitAt(t, p, at))),
             torn' = torn \cup {u \in {t} : Tears(u, p, at)}
      PROVE  TabsInv'
  <2>. DEFINE layout == SplitAt(t, p, at)  r == opened(layout)
  <2>1. /\ layout \in Layouts(type')
        /\ t \notin torn' => \A q \in {NewPane} \cup PanesOf(Store, t) : Once(layout, q)
    BY <1>1, <1>4, SplitLayouts
  <2>2. \E pn \in [{NewPane} -> [tab : {t}, target : 0..Len(type')]] : Widened(Store, t, layout, pn, p, r)
    BY <1>1, <1>2, DevToolsFields
  <2>3. Set(r) /\ torn \subseteq torn'
    BY <1>4
  <2>. HIDE DEF r, layout
  <2>. QED  BY <1>1, <1>2, <2>1, <2>2, <2>3, AddedStep
<1>5. \/ Set(opened(Append(tabs[t].layout, NewPane))) /\ torn' = torn
      \/ \E at \in Leads(t, p) : Set(opened(SplitAt(t, p, at))) /\ torn' = torn \cup {u \in {t} : Tears(u, p, at)}
  BY DEF OpenDevTools
<1>. HIDE DEF opened
<1>. QED  BY <1>3, <1>4, <1>5

------------------------------------------------------------------------------
(* Steps that open tabs *)

\* A new tab that draws its panes preserves the invariant.
LEMMA OpenedStep ==
  ASSUME TabsInv, type' \in Seq(Type), Grows(type, type'), drag' = drag, made' = made + 1, torn \subseteq torn',
         NEW w, NEW layout, NEW new, NEW pn, NEW c, NEW r, Set(r),
         Opens(Store, type', made, made + 1, w, layout, new, pn, c, torn', astray' \cup torn', r)
  PROVE  TabsInv'
<1>. DEFINE od == astray' \cup torn'  ty == type'  tn2 == torn'  t == made + 1
<1>1. Good(Store, type, made, torn, od)
  <2>1. astray \cup torn \subseteq od
    BY DEF Set
  <2>. QED  BY <2>1, Now, Looser
<1>2. tn2 \subseteq od /\ ty \in Seq(Type) /\ Grows(type, ty) /\ torn \subseteq tn2
  OBVIOUS
<1>3. Opens(Store, ty, made, t, w, layout, new, pn, c, tn2, od, r)
  OBVIOUS
<1>. HIDE DEF od, ty, tn2, t
<1>4. Good(r, ty, made + 1, tn2, od)
  BY <1>1, <1>2, <1>3, Now, OpenedGood
<1>5. Good(r, type', made', torn', astray' \cup torn') /\ made' \in Nat
  BY <1>4, Now DEF od, ty, tn2
<1>6. Carried'
  BY StillCarried DEF TabsInv
<1>. QED  BY <1>5, <1>6, Follows

\* The store r has tab t open with panes pn.
Opened(s, t, w, layout, pn, r) ==
  /\ r.tabs = Put(s.tabs, t, [ws |-> w, layout |-> layout]) /\ r.panes = Added(s.panes, pn)
  /\ r.focused = Put(s.focused, t, layout[1]) /\ r.active = [s.active EXCEPT ![w] = t]
  /\ r.recent = [s.recent EXCEPT ![w] = Pushed(s, w)] /\ r.closed = s.closed /\ r.killed = s.killed
  /\ r = [tabs |-> r.tabs, panes |-> r.panes, active |-> r.active, focused |-> r.focused,
          recent |-> r.recent, closed |-> r.closed, killed |-> r.killed]

\* OpenTab, field by field.
LEMMA OpenTabFields ==
  ASSUME NEW ty, NEW n, NEW s, Typed(s, ty, n), NEW w, NEW t, NEW layout, NEW pn
  PROVE  Opened(s, t, w, layout, pn, OpenTab(s, t, w, layout, pn))
<1>. DEFINE r == OpenTab(s, t, w, layout, pn)
<1>1. r = [s EXCEPT !.tabs = Put(@, t, [ws |-> w, layout |-> layout]),
                    !.panes = Added(@, pn),
                    !.focused = Put(@, t, layout[1]),
                    !.active[w] = t,
                    !.recent[w] = Pushed(s, w)]
  BY DEF OpenTab
<1>2. s = [tabs |-> s.tabs, panes |-> s.panes, active |-> s.active, focused |-> s.focused,
           recent |-> s.recent, closed |-> s.closed, killed |-> s.killed]
  BY DEF Typed
<1>. HIDE DEF r
<1>3. Opened(s, t, w, layout, pn, r)
  BY ONLY <1>1, <1>2 DEF Opened
<1>. QED  BY <1>3 DEF r

\* addTab, addTabWithMultiplePanes and addBrowserTab.
LEMMA AddTabStep ==
  ASSUME TabsInv, NEW w \in WorkspaceId, NEW n \in 1..2, NEW kind \in Type, AddTab(w, n, kind)
  PROVE  TabsInv'
<1>. DEFINE ids == NewPanes(n)  t == made + 1  new == ToSet(ids)  pn == Created(t, new)
            r == OpenTab(Store, t, w, ids, pn)
<1>1. Making(n, kind) /\ made' = t /\ drag' = drag /\ torn' = torn /\ Set(r) /\ n \in Nat
  BY DEF AddTab, NewTab
<1>2. /\ type' \in Seq(Type) /\ Grows(type, type') /\ Len(type') = Len(type) + n
      /\ ids \in Seq(1..Len(type')) /\ Len(ids) = n /\ new = (1..Len(type')) \ (1..Len(type))
      /\ \A p \in new : Once(ids, p)
  BY <1>1, Now, MadeFacts
<1>3. pn \in [new -> [tab : {t}, target : 0..Len(type')]]
  <2>1. 0 \in 0..Len(type')
    BY <1>2
  <2>. QED  BY <2>1 DEF Created
<1>4. Opened(Store, t, w, ids, pn, r)
  BY Now, OpenTabFields
<1>. HIDE DEF r, pn, ids
<1>5. /\ r.tabs = Put(Store.tabs, t, [ws |-> w, layout |-> ids]) /\ r.panes = Added(Store.panes, pn)
      /\ r.focused = Put(Store.focused, t, ids[1]) /\ r.active = [Store.active EXCEPT ![w] = t]
      /\ r.recent = [Store.recent EXCEPT ![w] = Pushed(Store, w)] /\ r.closed = Store.closed /\ r.killed = Store.killed
      /\ r = [tabs |-> r.tabs, panes |-> r.panes, active |-> r.active, focused |-> r.focused,
              recent |-> r.recent, closed |-> r.closed, killed |-> r.killed]
  BY <1>4 DEF Opened
<1>6. ids \in Layouts(type') /\ ids[1] \in new
  BY <1>1, <1>2, FirstFacts DEF Layouts
<1>7. Store.closed \in Seq(Entry(type, made))
  BY Now DEF Typed
<1>8. Opens(Store, type', made, made + 1, w, ids, new, pn, Store.closed, torn', astray' \cup torn', r)
  BY <1>2, <1>3, <1>5, <1>6, <1>7 DEF Opens
<1>. QED  BY <1>1, <1>2, <1>8, OpenedStep

\* The numbers of the panes of a closed tab that is reopened.
LEMMA RankFacts ==
  ASSUME NEW n \in Nat, NEW S \in SUBSET (1..n)
  PROVE  /\ Cardinality(S) \in Nat
         /\ \A p \in S : Rank(S, p) \in 1..Cardinality(S)
         /\ \A p, q \in S : Rank(S, p) = Rank(S, q) => p = q
         /\ \A k \in 1..Cardinality(S) : \E p \in S : Rank(S, p) = k
<1>. DEFINE upto(p) == {q \in S : q <= p}
            rank == [p \in S |-> Rank(S, p)]
<1>1. IsFiniteSet(S) /\ Cardinality(S) \in Nat
  <2>1. IsFiniteSet(1..n)
    BY FS_Interval
  <2>2. IsFiniteSet(S)
    BY <2>1, FS_Subset
  <2>. QED  BY <2>2, FS_CardinalityType
<1>2. ASSUME NEW p \in S
      PROVE  IsFiniteSet(upto(p)) /\ Rank(S, p) = Cardinality(upto(p)) /\ Rank(S, p) \in 1..Cardinality(S) /\ p \in upto(p)
  <2>1. upto(p) \in SUBSET S /\ p \in upto(p)
    OBVIOUS
  <2>2. Rank(S, p) = Cardinality(upto(p))
    BY DEF Rank
  <2>. HIDE DEF upto
  <2>3. IsFiniteSet(upto(p)) /\ Cardinality(upto(p)) <= Cardinality(S)
    BY <1>1, <2>1, FS_Subset
  <2>4. Cardinality(upto(p)) \in Nat /\ Cardinality(upto(p)) # 0
    BY <2>1, <2>3, FS_CardinalityType, FS_EmptySet
  <2>. QED  BY <1>1, <2>1, <2>2, <2>3, <2>4
<1>3. ASSUME NEW p \in S, NEW q \in S, p < q PROVE Rank(S, p) # Rank(S, q)
  <2>0. p \in Int /\ q \in Int /\ p < q /\ \A x \in S : x \in Int
    BY <1>3
  <2>1. upto(p) \in SUBSET upto(q) /\ q \in upto(q) /\ q \notin upto(p)
    <3>1. \A x \in S : x <= p => x <= q
      BY <2>0
    <3>2. q <= q /\ ~(q <= p)
      BY <2>0
    <3>. QED  BY <3>1, <3>2
  <2>. HIDE DEF upto
  <2>. QED  BY <1>2, <2>1, FS_Subset
<1>4. \A p, q \in S : Rank(S, p) = Rank(S, q) => p = q
  <2>. SUFFICES ASSUME NEW p \in S, NEW q \in S, p # q PROVE Rank(S, p) # Rank(S, q)
    OBVIOUS
  <2>1. p < q \/ q < p
    OBVIOUS
  <2>. QED  BY <2>1, <1>3
<1>5. rank \in Injection(S, 1..Cardinality(S))
  BY <1>2, <1>4 DEF Injection, IsInjective
<1>6. IsFiniteSet(1..Cardinality(S)) /\ Cardinality(1..Cardinality(S)) = Cardinality(S)
  BY <1>1, FS_Interval
<1>7. rank \in Surjection(S, 1..Cardinality(S))
  <2>. HIDE DEF rank
  <2>. QED  BY <1>5, <1>6, FS_Injection
<1>8. \A k \in 1..Cardinality(S) : \E p \in S : Rank(S, p) = k
  BY <1>7 DEF Surjection
<1>. HIDE DEF upto
<1>. QED  BY <1>1, <1>2, <1>4, <1>8

\* The new ids of a reopened tab are its own: each new pane comes from one of the old.
LEMMA RenumberFacts ==
  ASSUME type \in Seq(Type), NEW old \in SUBSET (1..Len(type))
  PROVE  /\ Cardinality(old) \in Nat
         /\ \A p \in old : Renumbered(old, p) \in Len(type) + 1..Len(type) + Cardinality(old)
         /\ \A p, q \in old : Renumbered(old, p) = Renumbered(old, q) => p = q
         /\ \A p : p \notin old => Renumbered(old, p) = p
         /\ \A k \in Len(type) + 1..Len(type) + Cardinality(old) :
              FormerOf(old, k) \in old /\ Renumbered(old, FormerOf(old, k)) = k
<1>0. Len(type) \in Nat
  OBVIOUS
<1>1. /\ Cardinality(old) \in Nat
      /\ \A p \in old : Rank(old, p) \in 1..Cardinality(old)
      /\ \A p, q \in old : Rank(old, p) = Rank(old, q) => p = q
      /\ \A k \in 1..Cardinality(old) : \E p \in old : Rank(old, p) = k
  BY <1>0, RankFacts
<1>2. \A p \in old : Renumbered(old, p) = Len(type) + Rank(old, p)
  BY DEF Renumbered
<1>3. \A p : p \notin old => Renumbered(old, p) = p
  BY DEF Renumbered
<1>4. ASSUME NEW k \in Len(type) + 1..Len(type) + Cardinality(old)
      PROVE  FormerOf(old, k) \in old /\ Renumbered(old, FormerOf(old, k)) = k
  <2>1. k - Len(type) \in 1..Cardinality(old) /\ Len(type) + (k - Len(type)) = k
    BY <1>0, <1>1
  <2>2. PICK p \in old : Rank(old, p) = k - Len(type)
    BY <1>1, <2>1
  <2>3. \E q \in old : Renumbered(old, q) = k
    BY <1>2, <2>1, <2>2
  <2>. QED  BY <2>3 DEF FormerOf
<1>. QED  BY <1>0, <1>1, <1>2, <1>3, <1>4

\* The layout of a reopened tab.
LEMMA RenumberedLayout ==
  ASSUME type \in Seq(Type), NEW old \in SUBSET (1..Len(type)), NEW layout \in Layouts(type), NEW ty,
         Len(ty) = Len(type) + Cardinality(old),
         NEW m, m = [i \in DOMAIN layout |-> Renumbered(old, layout[i])]
  PROVE  m \in Layouts(ty) /\ \A p \in old : Once(layout, p) => Once(m, Renumbered(old, p))
<1>0. Len(type) \in Nat /\ layout \in Seq(1..Len(type)) /\ layout # <<>>
  BY DEF Layouts
<1>1. /\ Cardinality(old) \in Nat
      /\ \A p \in old : Renumbered(old, p) \in Len(type) + 1..Len(type) + Cardinality(old)
      /\ \A p, q \in old : Renumbered(old, p) = Renumbered(old, q) => p = q
      /\ \A p : p \notin old => Renumbered(old, p) = p
  BY RenumberFacts
<1>2. m \in Layouts(ty)
  <2>1. \A i \in DOMAIN layout : m[i] \in 1..Len(ty)
    BY <1>0, <1>1
  <2>2. DOMAIN m = 1..Len(layout) /\ Len(layout) \in Nat /\ Len(layout) # 0 /\ m = [i \in 1..Len(layout) |-> m[i]]
    BY <1>0
  <2>3. m \in Seq(1..Len(ty)) /\ m # <<>>
    BY <1>0, <2>1, <2>2
  <2>. QED  BY <2>3 DEF Layouts
<1>3. ASSUME NEW p \in old, Once(layout, p) PROVE Once(m, Renumbered(old, p))
  <2>1. PICK i \in DOMAIN layout : \A j \in DOMAIN layout : layout[j] = p <=> j = i
    BY <1>3 DEF Once
  <2>2. \A j \in DOMAIN layout : Renumbered(old, layout[j]) = Renumbered(old, p) => layout[j] = p
    <3>. SUFFICES ASSUME NEW j \in DOMAIN layout, Renumbered(old, layout[j]) = Renumbered(old, p), layout[j] \notin old
                  PROVE  FALSE
      BY <1>1
    <3>1. layout[j] \in 1..Len(type)
      BY <1>0
    <3>. QED  BY <1>0, <1>1, <3>1
  <2>3. DOMAIN m = DOMAIN layout /\ \A j \in DOMAIN m : m[j] = Renumbered(old, p) <=> j = i
    BY <2>1, <2>2
  <2>. QED  BY <2>3 DEF Once
<1>. QED  BY <1>2, <1>3

\* What is left of a sequence without one element.
LEMMA RemoveAtFacts ==
  ASSUME NEW X, NEW t \in Seq(X), NEW i \in DOMAIN t
  PROVE  /\ RemoveAt(t, i) \in Seq(X)
         /\ \A k \in DOMAIN RemoveAt(t, i) : \E j \in DOMAIN t : RemoveAt(t, i)[k] = t[j]
<1>. DEFINE a == SubSeq(t, 1, i - 1)  b == SubSeq(t, i + 1, Len(t))
<1>1. a \in Seq(X) /\ Len(a) = i - 1 /\ \A k \in 1..i - 1 : a[k] = t[k]
  OBVIOUS
<1>2. b \in Seq(X) /\ Len(b) = Len(t) - i /\ \A k \in 1..Len(t) - i : b[k] = t[k + i]
  OBVIOUS
<1>3. RemoveAt(t, i) = a \o b
  BY DEF RemoveAt
<1>4. i \in 1..Len(t) /\ Len(t) \in Nat
  OBVIOUS
<1>. HIDE DEF a, b
<1>5. /\ a \o b \in Seq(X) /\ DOMAIN (a \o b) = 1..Len(a) + Len(b)
      /\ \A k \in 1..Len(a) : (a \o b)[k] = a[k]
      /\ \A k \in Len(a) + 1..Len(a) + Len(b) : (a \o b)[k] = b[k - Len(a)]
  BY <1>1, <1>2, Joined
<1>6. ASSUME NEW k \in DOMAIN (a \o b) PROVE \E j \in DOMAIN t : (a \o b)[k] = t[j]
  <2>1. CASE k \in 1..i - 1
    <3>1. k \in DOMAIN t /\ (a \o b)[k] = t[k]
      BY <1>1, <1>4, <1>5, <2>1
    <3>. QED  BY <3>1
  <2>2. CASE k \notin 1..i - 1
    <3>0. k \in 1..(i - 1) + (Len(t) - i)
      BY <1>1, <1>2, <1>5
    <3>1. k \in i..Len(t) - 1 /\ k - (i - 1) \in 1..Len(t) - i /\ (k - (i - 1)) + i = k + 1 /\ k + 1 \in 1..Len(t)
      BY <1>4, <2>2, <3>0
    <3>2. (a \o b)[k] = b[k - (i - 1)]
      <4>1. Len(a) = i - 1 /\ Len(b) = Len(t) - i
        BY <1>1, <1>2
      <4>2. k \in Len(a) + 1..Len(a) + Len(b)
        BY <1>4, <3>0, <3>1, <4>1
      <4>3. (a \o b)[k] = b[k - Len(a)]
        BY <1>5, <4>2
      <4>. QED  BY <4>1, <4>3
    <3>3. b[k - (i - 1)] = t[k + 1] /\ k + 1 \in DOMAIN t
      BY <1>2, <3>1
    <3>. QED  BY <3>2, <3>3
  <2>. QED  BY <2>1, <2>2
<1>. QED  BY <1>3, <1>5, <1>6

\* A tab that has not been astray draws all its layout names.
LEMMA NotAstray ==
  ASSUME NEW r, Set(r), NEW t \in DOMAIN r.tabs, t \notin astray', NEW X, r.tabs[t].layout \in Seq(X)
  PROVE  ToSet(r.tabs[t].layout) \subseteq PanesOf(r, t)
<1>1. Keep(r.tabs[t].layout, PanesOf(r, t)) = r.tabs[t].layout
  BY DEF Set, Drawn
<1>2. ToSet(Keep(r.tabs[t].layout, PanesOf(r, t))) = ToSet(r.tabs[t].layout) \cap PanesOf(r, t)
  BY KeepFacts
<1>. QED  BY <1>1, <1>2

\* reopenClosedTab: with new ids each pane is drawn as often as before the tab was closed.
LEMMA ReopenClosedTabStep ==
  ASSUME TabsInv, NEW w \in WorkspaceId, ReopenClosedTab(w)
  PROVE  TabsInv'
<1>. DEFINE mine == {i \in DOMAIN closed : closed[i].ws = w}
            k == Min(mine)
            entry == closed[k]
            saved == entry.panes
            old == DOMAIN saved
            layout == [i \in DOMAIN entry.layout |-> Renumbered(old, entry.layout[i])]
            new == {Renumbered(old, p) : p \in old}
            restored == [q \in new |-> Restored(saved, q)]
            t == made + 1
            open == OpenTab(Store, t, w, layout, restored)
            c == RemoveAt(closed, k)
            r == [open EXCEPT !.closed = RemoveAt(@, k)]
<1>1. /\ mine # {} /\ made' = t /\ drag' = drag /\ Set(r)
      /\ type' = type \o [i \in 1..Cardinality(old) |-> type[FormerOf(old, Len(type) + i)]]
      /\ torn' = torn \cup {u \in {t} : entry.tab \in torn}
  BY DEF ReopenClosedTab, NewTab
<1>2. closed \in Seq(Entry(type, made)) /\ type \in Seq(Type) /\ made \in Nat /\ Len(type) \in Nat
  BY Now, StoreFields DEF Typed
<1>3. k \in DOMAIN closed
  <2>1. mine \in SUBSET Nat
    BY <1>2
  <2>2. k \in mine
    BY <1>1, <2>1, MinFacts
  <2>. QED  BY <2>2
<1>o. Opened(Store, t, w, layout, restored, open)
  BY Now, OpenTabFields
<1>r. r = [open EXCEPT !.closed = RemoveAt(@, k)]
  OBVIOUS
<1>l. layout = [i \in DOMAIN entry.layout |-> Renumbered(old, entry.layout[i])]
  OBVIOUS
<1>q. restored = [q \in new |-> Restored(saved, q)]
  OBVIOUS
<1>. HIDE DEF k, r, open, layout, restored
<1>4. /\ entry \in Entry(type, made) /\ entry.layout \in Layouts(type) /\ entry.tab \in 1..made
      /\ old \subseteq 1..Len(type) /\ saved \in [old -> [tab : 1..made, target : 0..Len(type)]]
  <2>1. entry \in Entry(type, made)
    BY <1>2, <1>3
  <2>2. PICK P \in SUBSET (1..Len(type)) : saved \in [P -> [tab : 1..made, target : 0..Len(type)]]
    BY <2>1 DEF Entry
  <2>3. entry.layout \in Layouts(type) /\ entry.tab \in 1..made
    BY <2>1 DEF Entry
  <2>. QED  BY <2>1, <2>2, <2>3
<1>5. c \in Seq(Entry(type, made)) /\ \A i \in DOMAIN c : \E j \in DOMAIN Store.closed : c[i] = Store.closed[j]
  BY <1>2, <1>3, StoreFields, RemoveAtFacts
<1>. HIDE DEF mine, entry, old, c
<1>6. /\ Cardinality(old) \in Nat
      /\ \A p \in old : Renumbered(old, p) \in Len(type) + 1..Len(type) + Cardinality(old)
      /\ \A i \in Len(type) + 1..Len(type) + Cardinality(old) :
           FormerOf(old, i) \in old /\ Renumbered(old, FormerOf(old, i)) = i
  BY <1>2, <1>4, RenumberFacts
<1>7. type' \in Seq(Type) /\ Len(type') = Len(type) + Cardinality(old) /\ Grows(type, type')
  <2>. DEFINE more == [i \in 1..Cardinality(old) |-> type[FormerOf(old, Len(type) + i)]]
  <2>1. ASSUME NEW i \in 1..Cardinality(old) PROVE type[FormerOf(old, Len(type) + i)] \in Type
    <3>1. Len(type) + i \in Len(type) + 1..Len(type) + Cardinality(old)
      BY <1>2, <1>6
    <3>2. FormerOf(old, Len(type) + i) \in 1..Len(type)
      BY <1>4, <1>6, <3>1
    <3>. QED  BY <1>2, <3>2
  <2>2. more \in Seq(Type) /\ Len(more) = Cardinality(old)
    BY <1>6, <2>1
  <2>3. type' = type \o more
    BY <1>1
  <2>. HIDE DEF more
  <2>4. /\ type' \in Seq(Type) /\ Len(type') = Len(type) + Cardinality(old)
        /\ \A i \in 1..Len(type) : type'[i] = type[i]
    BY <1>2, <2>2, <2>3, Joined
  <2>. QED  BY <1>2, <1>6, <2>4 DEF Grows
<1>8. new = (1..Len(type')) \ (1..Len(type))
  <2>1. \A p \in old : Renumbered(old, p) \in (1..Len(type')) \ (1..Len(type))
    BY <1>2, <1>6, <1>7
  <2>2. ASSUME NEW q \in (1..Len(type')) \ (1..Len(type)) PROVE q \in new
    <3>1. q \in Len(type) + 1..Len(type) + Cardinality(old)
      BY <1>2, <1>6, <1>7
    <3>. QED  BY <1>6, <3>1
  <2>. QED  BY <2>1, <2>2
<1>9. restored \in [new -> [tab : {t}, target : 0..Len(type')]]
  <2>1. ASSUME NEW q \in new PROVE Restored(saved, q) \in [tab : {t}, target : 0..Len(type')]
    <3>1. q \in Len(type) + 1..Len(type) + Cardinality(old)
      BY <1>6
    <3>2. FormerOf(old, q) \in old
      BY <1>6, <3>1
    <3>3. saved[FormerOf(old, q)] \in [tab : 1..made, target : 0..Len(type)]
      BY <1>4, <3>2
    <3>4. 0..Len(type) \subseteq 0..Len(type')
      BY <1>2, <1>6, <1>7
    <3>5. Restored(saved, q) = [saved[FormerOf(old, q)] EXCEPT !.tab = t]
      BY DEF Restored, NewTab, old
    <3>. QED  BY <3>3, <3>4, <3>5
  <2>. QED  BY <1>q, <2>1
<1>10. layout \in Layouts(type') /\ \A p \in old : Once(entry.layout, p) => Once(layout, Renumbered(old, p))
  BY <1>2, <1>4, <1>7, <1>l, RenumberedLayout
<1>11. /\ open.tabs = Put(Store.tabs, t, [ws |-> w, layout |-> layout]) /\ open.panes = Added(Store.panes, restored)
       /\ open.focused = Put(Store.focused, t, layout[1]) /\ open.active = [Store.active EXCEPT ![w] = t]
       /\ open.recent = [Store.recent EXCEPT ![w] = Pushed(Store, w)] /\ open.closed = closed /\ open.killed = Store.killed
       /\ open = [tabs |-> open.tabs, panes |-> open.panes, active |-> open.active, focused |-> open.focused,
                  recent |-> open.recent, closed |-> open.closed, killed |-> open.killed]
  BY <1>o, StoreFields DEF Opened
<1>12. /\ r.tabs = open.tabs /\ r.panes = open.panes /\ r.focused = open.focused /\ r.active = open.active
       /\ r.recent = open.recent
       /\ r = [tabs |-> r.tabs, panes |-> r.panes, active |-> r.active, focused |-> r.focused,
               recent |-> r.recent, closed |-> c, killed |-> Store.killed]
  <2>1. open.closed = closed /\ open.killed = Store.killed
    BY <1>11
  <2>2. open = [tabs |-> open.tabs, panes |-> open.panes, active |-> open.active, focused |-> open.focused,
                  recent |-> open.recent, closed |-> open.closed, killed |-> open.killed]
    BY <1>11
  <2>3. r = [open EXCEPT !.closed = c]
    BY <1>r, <2>1 DEF c
  <2>. QED  BY ONLY <2>1, <2>2, <2>3
<1>13. layout[1] \in new \/ t \in astray'
  <2>. SUFFICES ASSUME t \notin astray' PROVE layout[1] \in new
    OBVIOUS
  <2>1. t \in DOMAIN r.tabs /\ r.tabs[t].layout = layout
    BY <1>11, <1>12 DEF Put
  <2>2. layout \in Seq(1..Len(type')) /\ layout # <<>>
    BY <1>10 DEF Layouts
  <2>3. ToSet(layout) \subseteq PanesOf(r, t)
    BY <1>1, <2>1, <2>2, NotAstray
  <2>4. layout[1] \in DOMAIN r.panes /\ r.panes[layout[1]].tab = t
    BY <2>2, <2>3, FirstFacts DEF PanesOf
  <2>5. \A p \in DOMAIN Store.panes : Store.panes[p].tab # t
    BY Now DEF Typed
  <2>6. DOMAIN restored = new
    BY <1>q
  <2>7. r.panes = Added(Store.panes, restored)
    BY <1>11, <1>12
  <2>. HIDE DEF t, new
  <2>. QED  BY <2>4, <2>5, <2>6, <2>7 DEF Added
<1>14. t \notin torn' => \A q \in new : Once(layout, q)
  <2>. SUFFICES ASSUME entry.tab \notin torn, NEW p \in old PROVE Once(layout, Renumbered(old, p))
    BY <1>1
  <2>1. Once(entry.layout, p)
    BY <1>3, Now, StoreFields DEF Good, Past, entry, old
  <2>. QED  BY <1>10, <2>1
<1>15. Opens(Store, type', made, made + 1, w, layout, new, restored, c, torn', astray' \cup torn', r)
  BY <1>5, <1>8, <1>9, <1>10, <1>11, <1>12, <1>13, <1>14 DEF Opens
<1>16. torn \subseteq torn'
  BY <1>1
<1>. QED  BY <1>1, <1>7, <1>15, <1>16, OpenedStep

------------------------------------------------------------------------------
(* Panes that move to another tab *)

\* Pane p has gone from tab from, where left remains, to tab to of the same workspace w.
Moves(s, n, p, from, to, w, gone, left, layout, r) ==
  /\ p \in DOMAIN s.panes /\ s.panes[p].tab = from /\ from \in DOMAIN s.tabs /\ s.tabs[from].ws = w
  /\ left = Without(s.tabs[from].layout, {p}) /\ to # from /\ to \in 1..n
  /\ gone \subseteq {from} /\ (from \in gone <=> PanesOf(s, from) = {p})
  /\ layout \in Layouts(type) /\ Once(layout, p)
  /\ (to \in DOMAIN s.tabs => s.tabs[to].ws = w /\ \A q : q # p /\ Once(s.tabs[to].layout, q) => Once(layout, q))
  /\ DOMAIN r.tabs = (DOMAIN s.tabs \cup {to}) \ gone /\ r.tabs = [u \in DOMAIN r.tabs |-> r.tabs[u]]
  /\ \A u \in DOMAIN r.tabs \ {to, from} : r.tabs[u] = s.tabs[u]
  /\ r.tabs[to] = [ws |-> w, layout |-> layout]
  /\ (from \notin gone =>
        r.tabs[from] = [ws |-> w, layout |-> IF left = <<>> THEN s.tabs[from].layout ELSE left])
  /\ r.panes = [s.panes EXCEPT ![p].tab = to]
  /\ DOMAIN r.focused = (DOMAIN s.focused \cup {to}) \ gone /\ r.focused = [u \in DOMAIN r.focused |-> r.focused[u]]
  /\ r.focused[to] = p
  /\ \A u \in DOMAIN r.focused \ {to} :
       r.focused[u] = IF u = from /\ s.focused[u] = p /\ left # <<>> THEN left[1] ELSE s.focused[u]
  /\ r.active = [s.active EXCEPT ![w] = to]
  /\ \E g \in {NoTab, from} : (gone # {} => g = from) /\ (gone = {} => g = NoTab)
                              /\ r.recent = [s.recent EXCEPT ![w] = Visited(s, w, to, g)]
  /\ r = [tabs |-> r.tabs, panes |-> r.panes, active |-> r.active, focused |-> r.focused,
          recent |-> r.recent, closed |-> s.closed, killed |-> s.killed]

\* A pane that has left one tab for another is drawn in the other one only.
LEMMA MovedGood ==
  ASSUME type \in Seq(Type), NEW n \in Nat, NEW m \in Nat, n <= m, NEW s, NEW tn, NEW od, tn \subseteq od,
         Good(s, type, n, tn, od), NEW p, NEW from, NEW to, NEW w, NEW gone, NEW left, NEW layout, NEW r,
         Upright(s, from, od), Moves(s, m, p, from, to, w, gone, left, layout, r)
  PROVE  Good(r, type, m, tn, od)
<1>0. Typed(s, type, n) /\ Seen(s, tn) /\ Past(s, tn) /\ Dead(s, type) /\ Live(s) /\ Focus(s, type, od)
  BY DEF Good
<1>1. /\ s.tabs \in [DOMAIN s.tabs -> [ws : WorkspaceId, layout : Layouts(type)]] /\ DOMAIN s.tabs \subseteq 1..n
      /\ DOMAIN s.panes \subseteq 1..Len(type) /\ s.panes \in [DOMAIN s.panes -> [tab : 1..n, target : 0..Len(type)]]
      /\ DOMAIN s.focused \subseteq DOMAIN s.tabs /\ s.focused \in [DOMAIN s.focused -> 1..Len(type)]
      /\ s.active \in [WorkspaceId -> 0..n] /\ s.recent \in [WorkspaceId -> Seq(0..n)]
      /\ s.closed \in Seq(Entry(type, n))
  BY <1>0 DEF Typed
<1>2. /\ p \in DOMAIN s.panes /\ s.panes[p].tab = from /\ from \in DOMAIN s.tabs /\ s.tabs[from].ws = w
      /\ to # from /\ to \in 1..m /\ gone \subseteq {from} /\ (from \in gone <=> PanesOf(s, from) = {p})
      /\ left = Without(s.tabs[from].layout, {p})
      /\ layout \in Layouts(type) /\ Once(layout, p)
      /\ (to \in DOMAIN s.tabs => s.tabs[to].ws = w /\ \A q : q # p /\ Once(s.tabs[to].layout, q) => Once(layout, q))
  BY DEF Moves
<1>3. /\ DOMAIN r.tabs = (DOMAIN s.tabs \cup {to}) \ gone /\ r.tabs = [u \in DOMAIN r.tabs |-> r.tabs[u]]
      /\ \A u \in DOMAIN r.tabs \ {to, from} : r.tabs[u] = s.tabs[u]
      /\ r.tabs[to] = [ws |-> w, layout |-> layout]
      /\ (from \notin gone =>
            r.tabs[from] = [ws |-> w, layout |-> IF left = <<>> THEN s.tabs[from].layout ELSE left])
  BY DEF Moves
<1>4. /\ DOMAIN r.focused = (DOMAIN s.focused \cup {to}) \ gone /\ r.focused = [u \in DOMAIN r.focused |-> r.focused[u]]
      /\ r.focused[to] = p
      /\ \A u \in DOMAIN r.focused \ {to} :
           r.focused[u] = IF u = from /\ s.focused[u] = p /\ left # <<>> THEN left[1] ELSE s.focused[u]
  BY DEF Moves
<1>5. /\ r.panes = [s.panes EXCEPT ![p].tab = to] /\ r.active = [s.active EXCEPT ![w] = to]
      /\ r.closed = s.closed /\ r.killed = s.killed
      /\ r = [tabs |-> r.tabs, panes |-> r.panes, active |-> r.active, focused |-> r.focused,
              recent |-> r.recent, closed |-> r.closed, killed |-> r.killed]
  BY DEF Moves
<1>6. PICK g \in {NoTab, from} : (gone # {} => g = from) /\ (gone = {} => g = NoTab)
                                 /\ r.recent = [s.recent EXCEPT ![w] = Visited(s, w, to, g)]
  BY DEF Moves
<1>7. w \in WorkspaceId /\ 1..n \subseteq 1..m /\ 0..n \subseteq 0..m /\ Entry(type, n) \subseteq Entry(type, m)
  <2>1. Grows(type, type)
    BY DEF Grows
  <2>. QED  BY <1>1, <1>2, <2>1, Wider
<1>8. /\ left \in Seq(1..Len(type)) /\ ToSet(left) = ToSet(s.tabs[from].layout) \ {p}
      /\ \A q : q # p /\ Once(s.tabs[from].layout, q) => Once(left, q)
  <2>1. s.tabs[from].layout \in Seq(1..Len(type))
    BY <1>1, <1>2 DEF Layouts
  <2>. QED  BY <1>2, <2>1, WithoutFacts
<1>9. /\ DOMAIN r.panes = DOMAIN s.panes /\ r.panes[p].tab = to
      /\ \A q \in DOMAIN s.panes \ {p} : r.panes[q] = s.panes[q]
  BY <1>1, <1>2, <1>5
<1>10. left # <<>> => left \in Layouts(type) /\ left[1] \in ToSet(left) /\ left[1] \in 1..Len(type)
  BY <1>8, FirstFacts DEF Layouts
<1>11. \A u \in WorkspaceId : TabsOf(r, u) = IF u = w THEN (TabsOf(s, u) \cup {to}) \ gone ELSE TabsOf(s, u)
  <2>1. \A v \in DOMAIN r.tabs : r.tabs[v].ws = IF v = to THEN w ELSE s.tabs[v].ws
    <3>1. ASSUME NEW v \in DOMAIN r.tabs PROVE r.tabs[v].ws = IF v = to THEN w ELSE s.tabs[v].ws
      <4>1. CASE v = to
        BY <1>3, <4>1
      <4>2. CASE v = from
        <5>1. from \notin gone
          BY <1>3, <4>2, <3>1
        <5>2. r.tabs[from].ws = w
          BY <1>3, <5>1
        <5>. QED  BY <1>2, <4>2, <5>2
      <4>3. CASE v \notin {to, from}
        BY <1>3, <4>3
      <4>. QED  BY <4>1, <4>2, <4>3
    <3>. QED  BY <3>1
  <2>. QED  BY <1>2, <1>3, <2>1 DEF TabsOf
<1>. HIDE DEF Moves
<1>12. Typed(r, type, m)
  <2>1. r.tabs \in [DOMAIN r.tabs -> [ws : WorkspaceId, layout : Layouts(type)]] /\ DOMAIN r.tabs \subseteq 1..m
    <3>1. r.tabs[to] \in [ws : WorkspaceId, layout : Layouts(type)]
      BY <1>2, <1>3, <1>7
    <3>2. from \notin gone => r.tabs[from] \in [ws : WorkspaceId, layout : Layouts(type)]
      <4>1. s.tabs[from].layout \in Layouts(type)
        BY <1>1, <1>2
      <4>2. (IF left = <<>> THEN s.tabs[from].layout ELSE left) \in Layouts(type)
        BY <1>10, <4>1
      <4>. QED  BY <1>3, <1>7, <4>2
    <3>3. \A u \in DOMAIN r.tabs \ {to, from} : r.tabs[u] \in [ws : WorkspaceId, layout : Layouts(type)]
      BY <1>1, <1>3
    <3>4. \A u \in DOMAIN r.tabs : r.tabs[u] \in [ws : WorkspaceId, layout : Layouts(type)]
      BY <1>3, <3>1, <3>2, <3>3
    <3>. QED  BY <1>1, <1>2, <1>3, <1>7, <3>4
  <2>2. DOMAIN r.panes \subseteq 1..Len(type) /\ r.panes \in [DOMAIN r.panes -> [tab : 1..m, target : 0..Len(type)]]
    <3>1. \A q \in DOMAIN s.panes \ {p} : r.panes[q] \in [tab : 1..m, target : 0..Len(type)]
      BY <1>1, <1>7, <1>9
    <3>2. r.panes[p] = [s.panes[p] EXCEPT !.tab = to] /\ s.panes[p] \in [tab : 1..n, target : 0..Len(type)]
      BY <1>1, <1>2, <1>5
    <3>3. r.panes[p] \in [tab : 1..m, target : 0..Len(type)]
      BY <1>2, <3>2
    <3>4. r.panes = [q \in DOMAIN s.panes |-> r.panes[q]]
      BY <1>5
    <3>. QED  BY <1>1, <1>9, <3>1, <3>3, <3>4
  <2>3. DOMAIN r.focused \subseteq DOMAIN r.tabs /\ r.focused \in [DOMAIN r.focused -> 1..Len(type)]
    <3>1. p \in 1..Len(type)
      BY <1>1, <1>2
    <3>2. \A u \in DOMAIN r.focused : r.focused[u] \in 1..Len(type)
      BY <1>1, <1>4, <1>10, <3>1
    <3>. QED  BY <1>1, <1>3, <1>4, <3>2
  <2>4. r.closed \in Seq(Entry(type, m))
    BY <1>1, <1>5, <1>7, SeqWider
  <2>5. r.active \in [WorkspaceId -> 0..m]
    BY <1>1, <1>2, <1>5, <1>7
  <2>6. r.recent \in [WorkspaceId -> Seq(0..m)]
    <3>1. Visited(s, w, to, g) \in Seq(0..n)
      BY <1>0, <1>7, VisitedFacts
    <3>2. \A u \in WorkspaceId : r.recent[u] \in Seq(0..n)
      BY <1>1, <1>6, <3>1
    <3>3. \A u \in WorkspaceId : r.recent[u] \in Seq(0..m)
      BY <1>7, <3>2, SeqWider
    <3>. QED  BY <1>1, <1>6, <3>3
  <2>. QED  BY <1>5, <2>1, <2>2, <2>3, <2>4, <2>5, <2>6 DEF Typed
<1>13. Seen(r, tn)
  <2>. SUFFICES ASSUME NEW q \in DOMAIN r.panes
                PROVE  r.panes[q].tab \in DOMAIN r.tabs /\ (r.panes[q].tab \notin tn => Once(r.tabs[r.panes[q].tab].layout, q))
    BY DEF Seen
  <2>1. CASE q = p
    BY <1>2, <1>3, <1>9, <2>1
  <2>2. CASE q # p
    <3>1. q \in DOMAIN s.panes /\ r.panes[q] = s.panes[q]
      BY <1>9, <2>2
    <3>2. s.panes[q].tab \in DOMAIN s.tabs /\ (s.panes[q].tab \notin tn => Once(s.tabs[s.panes[q].tab].layout, q))
      BY <1>0, <3>1 DEF Seen
    <3>3. CASE s.panes[q].tab = from
      <4>1. from \notin gone
        BY <1>2, <2>2, <3>1, <3>3 DEF PanesOf
      <4>2. from \notin tn => Once(left, q) /\ left # <<>>
        <5>. SUFFICES ASSUME from \notin tn PROVE Once(left, q) /\ left # <<>>
          OBVIOUS
        <5>1. Once(left, q)
          BY <1>8, <2>2, <3>2, <3>3
        <5>2. q \in ToSet(left)
          BY <5>1, OnceFacts
        <5>3. left # <<>>
          <6>. SUFFICES ASSUME left = <<>> PROVE FALSE
            OBVIOUS
          <6>. QED  BY <5>2 DEF ToSet
        <5>. QED  BY <5>1, <5>3
      <4>3. from \in DOMAIN r.tabs /\ (left # <<>> => r.tabs[from].layout = left)
        <5>1. from \in DOMAIN r.tabs
          BY <1>2, <1>3, <4>1
        <5>2. r.tabs[from] = [ws |-> w, layout |-> IF left = <<>> THEN s.tabs[from].layout ELSE left]
          BY <1>3, <4>1
        <5>. QED  BY ONLY <5>1, <5>2
      <4>. QED  BY <3>1, <3>3, <4>2, <4>3
    <3>4. CASE s.panes[q].tab = to
      BY <1>2, <1>3, <2>2, <3>1, <3>2, <3>4
    <3>5. CASE s.panes[q].tab \notin {from, to}
      BY <1>2, <1>3, <3>1, <3>2, <3>5
    <3>. QED  BY <3>3, <3>4, <3>5
  <2>. QED  BY <2>1, <2>2
<1>14. Past(r, tn)
  BY <1>0, <1>5 DEF Past
<1>15. Dead(r, type)
  BY <1>0, <1>5, <1>9 DEF Dead
<1>16. Live(r)
  <2>. SUFFICES ASSUME NEW u \in WorkspaceId
                PROVE  /\ r.active[u] = NoTab <=> TabsOf(r, u) = {}
                       /\ ToSet(r.recent[u]) \cup {r.active[u]} \subseteq TabsOf(r, u) \cup {NoTab}
                       /\ IsInjective(r.recent[u])
    BY DEF Live
  <2>1. CASE u = w
    <3>1. r.active[u] = to /\ r.recent[u] = Visited(s, w, to, g) /\ to # NoTab
      BY <1>1, <1>2, <1>5, <1>6, <2>1 DEF NoTab
    <3>2. /\ ToSet(Visited(s, w, to, g)) \subseteq (TabsOf(s, w) \cup {NoTab}) \ {g}
          /\ IsInjective(Visited(s, w, to, g))
      BY <1>0, <1>7, VisitedFacts
    <3>3. TabsOf(r, u) = (TabsOf(s, w) \cup {to}) \ gone /\ to \notin gone
      BY <1>2, <1>11, <2>1
    <3>4. gone = {} \/ gone = {g}
      BY <1>2, <1>6
    <3>. QED  BY <3>1, <3>2, <3>3, <3>4
  <2>2. CASE u # w
    <3>1. TabsOf(r, u) = TabsOf(s, u)
      BY <1>11, <2>2
    <3>2. r.active[u] = s.active[u] /\ r.recent[u] = s.recent[u]
      BY <1>1, <1>5, <1>6, <2>2
    <3>. QED  BY <1>0, <3>1, <3>2 DEF Live
  <2>. QED  BY <2>1, <2>2
<1>17. Focus(r, type, od)
  <2>. SUFFICES ASSUME NEW u \in DOMAIN r.focused, u \notin od PROVE Held(r, type, u, r.focused[u])
    BY DEF Focus
  <2>1. CASE u = to
    BY <1>2, <1>4, <1>9, <2>1 DEF Held, PanesOf
  <2>2. CASE u # to
    <3>1. u \in DOMAIN s.focused
      BY <1>4, <2>2
    <3>2. Held(s, type, u, s.focused[u])
      BY <1>0, <3>1 DEF Focus
    <3>3. CASE u = from /\ s.focused[u] = p /\ left # <<>>
      <4>1. left[1] \in PanesOf(s, from) \ {p}
        BY <1>2, <1>8, <1>10, <3>3 DEF Upright, PanesIn
      <4>2. left[1] \in PanesOf(r, from)
        BY <1>9, <4>1 DEF PanesOf
      <4>. QED  BY <1>4, <2>2, <3>3, <4>2 DEF Held
    <3>4. CASE ~(u = from /\ s.focused[u] = p /\ left # <<>>)
      <4>1. r.focused[u] = s.focused[u]
        BY <1>4, <2>2, <3>4
      <4>2. CASE s.focused[u] = p
        <5>1. u = from
          BY <1>2, <3>2, <4>2 DEF Held, PanesOf
        <5>2. left = <<>> /\ from \notin gone
          BY <1>4, <3>4, <4>2, <5>1
        <5>3. PanesOf(s, from) = {p}
          <6>. SUFFICES ASSUME NEW q \in PanesOf(s, from), q # p PROVE FALSE
            BY <1>2 DEF PanesOf
          <6>1. Once(s.tabs[from].layout, q)
            BY <1>0, <5>1 DEF Seen, PanesOf
          <6>2. q \in ToSet(left)
            BY <1>8, <6>1, OnceFacts
          <6>. QED  BY <5>2, <6>2 DEF ToSet
        <5>. QED  BY <1>2, <5>2, <5>3
      <4>3. CASE s.focused[u] # p
        BY <1>9, <3>2, <4>1, <4>3 DEF Held, PanesOf
      <4>. QED  BY <4>2, <4>3
    <3>. QED  BY <3>3, <3>4
  <2>. QED  BY <2>1, <2>2
<1>. QED  BY <1>12, <1>13, <1>14, <1>15, <1>16, <1>17 DEF Good

\* What a pane leaves of its tab.
LeftBehind(s, t, p, left, b) ==
  /\ b.tabs = [s.tabs EXCEPT ![t].layout = IF left = <<>> THEN @ ELSE left]
  /\ b.focused = IF left # <<>> /\ t \in DOMAIN s.focused /\ s.focused[t] = p
                 THEN [s.focused EXCEPT ![t] = left[1]] ELSE s.focused
  /\ b = [tabs |-> b.tabs, panes |-> s.panes, active |-> s.active, focused |-> b.focused,
          recent |-> s.recent, closed |-> s.closed, killed |-> s.killed]

\* Leave, field by field.
LEMMA LeaveFields ==
  ASSUME NEW ty, NEW n, NEW s, Typed(s, ty, n), NEW t, NEW p
  PROVE  LeftBehind(s, t, p, Without(s.tabs[t].layout, {p}), Leave(s, t, p))
<1>. DEFINE left == Without(s.tabs[t].layout, {p})  l == Leave(s, t, p)
            b == [s EXCEPT !.tabs[t].layout = IF left = <<>> THEN @ ELSE left]
<1>1. s = [tabs |-> s.tabs, panes |-> s.panes, active |-> s.active, focused |-> s.focused,
           recent |-> s.recent, closed |-> s.closed, killed |-> s.killed]
  BY DEF Typed
<1>2. b = [s EXCEPT !.tabs[t].layout = IF left = <<>> THEN @ ELSE left]
  OBVIOUS
<1>3. l = IF left # <<>> /\ t \in DOMAIN s.focused /\ s.focused[t] = p
          THEN [b EXCEPT !.focused[t] = left[1]] ELSE b
  BY DEF Leave
<1>. HIDE DEF left, l, b
<1>4. /\ b.tabs = [s.tabs EXCEPT ![t].layout = IF left = <<>> THEN @ ELSE left] /\ b.focused = s.focused
      /\ b = [tabs |-> b.tabs, panes |-> s.panes, active |-> s.active, focused |-> b.focused,
              recent |-> s.recent, closed |-> s.closed, killed |-> s.killed]
  BY ONLY <1>1, <1>2
<1>5. LeftBehind(s, t, p, left, l)
  <2>1. CASE left # <<>> /\ t \in DOMAIN s.focused /\ s.focused[t] = p
    <3>1. l = [b EXCEPT !.focused[t] = left[1]]
      BY <1>3, <2>1
    <3>2. /\ l.tabs = b.tabs /\ l.focused = [s.focused EXCEPT ![t] = left[1]]
          /\ l = [tabs |-> l.tabs, panes |-> s.panes, active |-> s.active, focused |-> l.focused,
                  recent |-> s.recent, closed |-> s.closed, killed |-> s.killed]
      <4>1. b.focused = s.focused
        BY <1>4
      <4>2. b = [tabs |-> b.tabs, panes |-> s.panes, active |-> s.active, focused |-> b.focused,
                 recent |-> s.recent, closed |-> s.closed, killed |-> s.killed]
        BY <1>4
      <4>. QED  BY ONLY <3>1, <4>1, <4>2
    <3>. QED  BY <1>4, <2>1, <3>2 DEF LeftBehind
  <2>2. CASE ~(left # <<>> /\ t \in DOMAIN s.focused /\ s.focused[t] = p)
    <3>1. l = b
      BY <1>3, <2>2
    <3>. QED  BY <1>4, <2>2, <3>1 DEF LeftBehind
  <2>. QED  BY <2>1, <2>2
<1>. QED  BY <1>5 DEF left, l

\* movePaneToTab, with the removal of a tab that is left empty.
LEMMA MovePaneToTabStep ==
  ASSUME TabsInv, NEW p, NEW to, MovePaneToTab(p, to)
  PROVE  TabsInv'
<1>. DEFINE from == panes[p].tab
            w == tabs[from].ws
            gone == {t \in {from} : IsLast(Store, t, p)}
            left == Without(Store.tabs[from].layout, {p})
            base == Leave(Store, from, p)
            g == IF gone = {} THEN NoTab ELSE from
            visited == Visited(Store, w, to, g)
            f == base.tabs
            moved == WithPane(f, to, p)
            layout == Append(tabs[to].layout, p)
            r == [base EXCEPT !.tabs = Drop(WithPane(@, to, p), gone),
                              !.panes[p].tab = to,
                              !.focused = Put(Drop(@, gone), to, p),
                              !.active[w] = to,
                              !.recent[w] = Visited(Store, w, to, IF gone = {} THEN NoTab ELSE from)]
<1>1. /\ p \in DOMAIN panes /\ Shown(from, p) /\ to \in TabsOf(Store, w) \ {from} /\ p \notin PanesIn(tabs[to].layout)
      /\ Set(r) /\ NoChange
  BY DEF MovePaneToTab
<1>2. /\ Store.tabs = tabs /\ Store.panes = panes /\ Store.focused = focused
      /\ tabs \in [DOMAIN tabs -> [ws : WorkspaceId, layout : Layouts(type)]] /\ DOMAIN tabs \subseteq 1..made
      /\ panes \in [DOMAIN panes -> [tab : 1..made, target : 0..Len(type)]] /\ DOMAIN panes \subseteq 1..Len(type)
      /\ focused = [t \in DOMAIN focused |-> focused[t]] /\ made \in Nat
  BY Now, StoreFields DEF Typed
<1>3. from \in DOMAIN tabs /\ to \in DOMAIN tabs /\ to # from /\ tabs[to].ws = w /\ p \in 1..Len(type) /\ to \in 1..made
  BY <1>1, <1>2 DEF Shown, TabsOf
<1>4. LeftBehind(Store, from, p, left, base)
  BY Now, LeaveFields
<1>r. r = [base EXCEPT !.tabs = Drop(WithPane(@, to, p), gone),
                       !.panes[p].tab = to,
                       !.focused = Put(Drop(@, gone), to, p),
                       !.active[w] = to,
                       !.recent[w] = visited]
  OBVIOUS
<1>m. moved = [f EXCEPT ![to].layout = Append(@, p)] /\ f = base.tabs /\ moved = WithPane(base.tabs, to, p)
  BY DEF WithPane
<1>g. gone \subseteq {from} /\ (from \in gone <=> PanesOf(Store, from) = {p})
  BY DEF IsLast
<1>l. left = Without(tabs[from].layout, {p}) /\ layout = Append(tabs[to].layout, p)
  BY StoreFields
<1>v. visited = Visited(Store, w, to, g) /\ g \in {NoTab, from} /\ (gone # {} => g = from) /\ (gone = {} => g = NoTab)
  OBVIOUS
<1>w. from = panes[p].tab /\ w = tabs[from].ws
  OBVIOUS
<1>. HIDE DEF from, w, gone, left, base, g, visited, f, moved, layout, r
<1>5. /\ f = [tabs EXCEPT ![from].layout = IF left = <<>> THEN @ ELSE left]
      /\ base.focused = IF left # <<>> /\ from \in DOMAIN focused /\ focused[from] = p
                        THEN [focused EXCEPT ![from] = left[1]] ELSE focused
      /\ base = [tabs |-> base.tabs, panes |-> Store.panes, active |-> Store.active, focused |-> base.focused,
                 recent |-> Store.recent, closed |-> Store.closed, killed |-> Store.killed]
  BY <1>2, <1>4, <1>m DEF LeftBehind
<1>6. /\ r.tabs = Drop(moved, gone) /\ r.panes = [panes EXCEPT ![p].tab = to]
      /\ r.focused = Put(Drop(base.focused, gone), to, p) /\ r.active = [Store.active EXCEPT ![w] = to]
      /\ r.recent = [Store.recent EXCEPT ![w] = visited]
      /\ r = [tabs |-> r.tabs, panes |-> r.panes, active |-> r.active, focused |-> r.focused,
              recent |-> r.recent, closed |-> Store.closed, killed |-> Store.killed]
  <2>1. base = [tabs |-> base.tabs, panes |-> base.panes, active |-> base.active, focused |-> base.focused,
                recent |-> base.recent, closed |-> base.closed, killed |-> base.killed]
        /\ base.panes = panes /\ base.active = Store.active /\ base.recent = Store.recent
        /\ base.closed = Store.closed /\ base.killed = Store.killed
    BY <1>2, <1>5
  <2>2. r.tabs = Drop(WithPane(base.tabs, to, p), gone)
    BY ONLY <1>r, <2>1
  <2>3. r.tabs = Drop(moved, gone)
    BY <1>m, <2>2
  <2>4. /\ r.panes = [panes EXCEPT ![p].tab = to]
        /\ r.focused = Put(Drop(base.focused, gone), to, p) /\ r.active = [Store.active EXCEPT ![w] = to]
        /\ r.recent = [Store.recent EXCEPT ![w] = visited] /\ r.closed = base.closed /\ r.killed = base.killed
        /\ r = [tabs |-> r.tabs, panes |-> r.panes, active |-> r.active, focused |-> r.focused,
                recent |-> r.recent, closed |-> r.closed, killed |-> r.killed]
    BY ONLY <1>r, <2>1
  <2>. QED  BY <2>1, <2>3, <2>4
<1>7. /\ DOMAIN f = DOMAIN tabs /\ \A u \in DOMAIN tabs \ {from} : f[u] = tabs[u]
      /\ f[from] = [ws |-> w, layout |-> IF left = <<>> THEN tabs[from].layout ELSE left]
  <2>1. tabs[from] = [ws |-> w, layout |-> tabs[from].layout]
    BY <1>2, <1>3, <1>w
  <2>2. f[from] = [tabs[from] EXCEPT !.layout = IF left = <<>> THEN @ ELSE left]
    BY <1>3, <1>5
  <2>. QED  BY <1>5, <2>1, <2>2
<1>8. /\ DOMAIN moved = DOMAIN tabs /\ \A u \in DOMAIN tabs \ {from, to} : moved[u] = tabs[u]
      /\ moved[from] = f[from] /\ moved[to] = [ws |-> w, layout |-> layout]
  <2>1. tabs[to] = [ws |-> w, layout |-> tabs[to].layout]
    BY <1>2, <1>3
  <2>2. moved[to] = [f[to] EXCEPT !.layout = Append(@, p)] /\ f[to] = tabs[to]
    BY <1>3, <1>7, <1>m
  <2>3. moved[to] = [ws |-> w, layout |-> Append(tabs[to].layout, p)]
    BY <2>1, <2>2
  <2>. QED  BY <1>3, <1>7, <1>l, <1>m, <2>3
<1>9. /\ DOMAIN r.tabs = DOMAIN tabs \ gone /\ r.tabs = [u \in DOMAIN r.tabs |-> r.tabs[u]]
      /\ \A u \in DOMAIN r.tabs : r.tabs[u] = moved[u]
  BY <1>6, <1>8 DEF Drop, Restrict
<1>10. /\ DOMAIN r.focused = (DOMAIN focused \cup {to}) \ gone /\ r.focused = [u \in DOMAIN r.focused |-> r.focused[u]]
       /\ r.focused[to] = p
       /\ \A u \in DOMAIN r.focused \ {to} :
            r.focused[u] = IF u = from /\ focused[u] = p /\ left # <<>> THEN left[1] ELSE focused[u]
  <2>1. /\ DOMAIN base.focused = DOMAIN focused
        /\ \A u \in DOMAIN focused : base.focused[u] = IF u = from /\ focused[u] = p /\ left # <<>> THEN left[1] ELSE focused[u]
    BY <1>2, <1>5
  <2>2. to \notin gone
    BY <1>3, <1>g
  <2>. QED  BY <1>6, <2>1, <2>2 DEF Put, Drop, Restrict
<1>11. /\ layout \in Layouts(type) /\ Once(layout, p)
       /\ \A q : q # p /\ Once(tabs[to].layout, q) => Once(layout, q)
  <2>. DEFINE u == tabs[to].layout  X == 1..Len(type)
  <2>1. u \in Seq(X) /\ p \notin ToSet(u) /\ p \in X
    BY <1>1, <1>2, <1>3 DEF Layouts, PanesIn
  <2>2. layout = Append(u, p)
    BY <1>l
  <2>. HIDE DEF u, X
  <2>3. layout = u \o <<p>> /\ <<p>> \in Seq(X) /\ ToSet(<<p>>) = {p} /\ Once(<<p>>, p) /\ <<p>> # <<>>
    BY <2>1, <2>2 DEF ToSet, Once
  <2>4. layout \in Seq(X) /\ layout # <<>> /\ Once(layout, p) /\ \A q : q # p /\ Once(u, q) => Once(layout, q)
    BY <2>1, <2>3, JoinFacts
  <2>. QED  BY <2>4 DEF Layouts, X, u
<1>12. Moves(Store, made, p, from, to, w, gone, left, layout, r)
  <2>1. /\ p \in DOMAIN Store.panes /\ Store.panes[p].tab = from /\ from \in DOMAIN Store.tabs
        /\ Store.tabs[from].ws = w /\ left = Without(Store.tabs[from].layout, {p}) /\ to # from /\ to \in 1..made
        /\ gone \subseteq {from} /\ (from \in gone <=> PanesOf(Store, from) = {p})
    BY <1>1, <1>2, <1>3, <1>g, <1>l, <1>w
  <2>2. /\ layout \in Layouts(type) /\ Once(layout, p) /\ Store.tabs[to].ws = w
        /\ \A q : q # p /\ Once(Store.tabs[to].layout, q) => Once(layout, q)
    BY <1>2, <1>3, <1>11
  <2>3. DOMAIN r.tabs = (DOMAIN Store.tabs \cup {to}) \ gone /\ r.tabs = [u \in DOMAIN r.tabs |-> r.tabs[u]]
    BY <1>2, <1>3, <1>9
  <2>4. to \in DOMAIN r.tabs /\ (from \notin gone => from \in DOMAIN r.tabs)
    BY <1>3, <1>9, <1>g
  <2>5. \A u \in DOMAIN r.tabs \ {to, from} : r.tabs[u] = Store.tabs[u]
    BY <1>2, <1>8, <1>9
  <2>6. r.tabs[to] = [ws |-> w, layout |-> layout]
    BY <1>8, <1>9, <2>4
  <2>7. from \notin gone => r.tabs[from] = [ws |-> w, layout |-> IF left = <<>> THEN Store.tabs[from].layout ELSE left]
    BY <1>2, <1>7, <1>8, <1>9, <2>4
  <2>8. r.panes = [Store.panes EXCEPT ![p].tab = to] /\ r.active = [Store.active EXCEPT ![w] = to]
    BY <1>2, <1>6
  <2>9. /\ DOMAIN r.focused = (DOMAIN Store.focused \cup {to}) \ gone /\ r.focused = [u \in DOMAIN r.focused |-> r.focused[u]]
        /\ r.focused[to] = p
        /\ \A u \in DOMAIN r.focused \ {to} :
             r.focused[u] = IF u = from /\ Store.focused[u] = p /\ left # <<>> THEN left[1] ELSE Store.focused[u]
    BY <1>2, <1>10
  <2>10. \E x \in {NoTab, from} : (gone # {} => x = from) /\ (gone = {} => x = NoTab)
                                  /\ r.recent = [Store.recent EXCEPT ![w] = Visited(Store, w, to, x)]
    BY <1>6, <1>v
  <2>11. r = [tabs |-> r.tabs, panes |-> r.panes, active |-> r.active, focused |-> r.focused,
              recent |-> r.recent, closed |-> Store.closed, killed |-> Store.killed]
    BY <1>6
  <2>. QED  BY <2>1, <2>2, <2>3, <2>5, <2>6, <2>7, <2>8, <2>9, <2>10, <2>11 DEF Moves
<1>13. Good(r, type, made, torn, astray \cup torn)
  <2>1. made <= made
    BY <1>2
  <2>. QED  BY <1>2, <1>12, <2>1, Now, MovedGood
<1>. QED  BY <1>1, <1>13, Stays

\* movePaneToNewTab: the tab that is left keeps another pane.
LEMMA MovePaneToNewTabStep ==
  ASSUME TabsInv, NEW p, MovePaneToNewTab(p)
  PROVE  TabsInv'
<1>. DEFINE from == panes[p].tab
            w == tabs[from].ws
            to == NewTab
            left == Without(Store.tabs[from].layout, {p})
            base == Leave(Store, from, p)
            layout == <<p>>
            visited == Visited(Store, w, to, NoTab)
            r == [base EXCEPT !.tabs = Put(@, to, [ws |-> w, layout |-> layout]), !.panes[p].tab = to,
                              !.focused = Put(@, to, p), !.active[w] = to, !.recent[w] = visited]
<1>1. /\ p \in DOMAIN panes /\ Shown(from, p) /\ ~IsLast(Store, from, p) /\ made' = made + 1
      /\ Set(r) /\ drag' = drag /\ type' = type /\ torn' = torn
  BY DEF MovePaneToNewTab, NewTab
<1>2. /\ Store.tabs = tabs /\ Store.panes = panes /\ Store.focused = focused
      /\ tabs \in [DOMAIN tabs -> [ws : WorkspaceId, layout : Layouts(type)]] /\ DOMAIN tabs \subseteq 1..made
      /\ panes \in [DOMAIN panes -> [tab : 1..made, target : 0..Len(type)]] /\ DOMAIN panes \subseteq 1..Len(type)
      /\ DOMAIN focused \subseteq DOMAIN tabs /\ focused = [t \in DOMAIN focused |-> focused[t]] /\ made \in Nat
  BY Now, StoreFields DEF Typed
<1>3. /\ from \in DOMAIN tabs /\ to \notin DOMAIN tabs /\ to # from /\ p \in 1..Len(type) /\ to \in 1..made + 1
      /\ PanesOf(Store, from) # {p}
  BY <1>1, <1>2 DEF Shown, NewTab, IsLast
<1>4. LeftBehind(Store, from, p, left, base)
  BY Now, LeaveFields
<1>r. r = [base EXCEPT !.tabs = Put(@, to, [ws |-> w, layout |-> layout]), !.panes[p].tab = to,
                       !.focused = Put(@, to, p), !.active[w] = to, !.recent[w] = visited]
  OBVIOUS
<1>l. left = Without(tabs[from].layout, {p}) /\ layout = <<p>>
  BY StoreFields
<1>v. visited = Visited(Store, w, to, NoTab)
  OBVIOUS
<1>w. from = panes[p].tab /\ w = tabs[from].ws
  OBVIOUS
<1>. HIDE DEF from, w, left, base, visited, layout, r, to
<1>5. /\ base.tabs = [tabs EXCEPT ![from].layout = IF left = <<>> THEN @ ELSE left]
      /\ base.focused = IF left # <<>> /\ from \in DOMAIN focused /\ focused[from] = p
                        THEN [focused EXCEPT ![from] = left[1]] ELSE focused
      /\ base = [tabs |-> base.tabs, panes |-> Store.panes, active |-> Store.active, focused |-> base.focused,
                 recent |-> Store.recent, closed |-> Store.closed, killed |-> Store.killed]
  BY <1>2, <1>4 DEF LeftBehind
<1>6. /\ r.tabs = Put(base.tabs, to, [ws |-> w, layout |-> layout]) /\ r.panes = [panes EXCEPT ![p].tab = to]
      /\ r.focused = Put(base.focused, to, p) /\ r.active = [Store.active EXCEPT ![w] = to]
      /\ r.recent = [Store.recent EXCEPT ![w] = visited]
      /\ r = [tabs |-> r.tabs, panes |-> r.panes, active |-> r.active, focused |-> r.focused,
              recent |-> r.recent, closed |-> Store.closed, killed |-> Store.killed]
  <2>1. base = [tabs |-> base.tabs, panes |-> base.panes, active |-> base.active, focused |-> base.focused,
                recent |-> base.recent, closed |-> base.closed, killed |-> base.killed]
        /\ base.panes = panes /\ base.active = Store.active /\ base.recent = Store.recent
        /\ base.closed = Store.closed /\ base.killed = Store.killed
    BY <1>2, <1>5
  <2>2. /\ r.tabs = Put(base.tabs, to, [ws |-> w, layout |-> layout]) /\ r.panes = [panes EXCEPT ![p].tab = to]
        /\ r.focused = Put(base.focused, to, p) /\ r.active = [Store.active EXCEPT ![w] = to]
        /\ r.recent = [Store.recent EXCEPT ![w] = visited] /\ r.closed = base.closed /\ r.killed = base.killed
        /\ r = [tabs |-> r.tabs, panes |-> r.panes, active |-> r.active, focused |-> r.focused,
                recent |-> r.recent, closed |-> r.closed, killed |-> r.killed]
    BY ONLY <1>r, <2>1
  <2>. QED  BY <2>1, <2>2
<1>7. /\ DOMAIN base.tabs = DOMAIN tabs /\ \A u \in DOMAIN tabs \ {from} : base.tabs[u] = tabs[u]
      /\ base.tabs[from] = [ws |-> w, layout |-> IF left = <<>> THEN tabs[from].layout ELSE left]
  <2>1. tabs[from] = [ws |-> w, layout |-> tabs[from].layout]
    BY <1>2, <1>3, <1>w
  <2>2. base.tabs[from] = [tabs[from] EXCEPT !.layout = IF left = <<>> THEN @ ELSE left]
    BY <1>3, <1>5
  <2>. QED  BY <1>5, <2>1, <2>2
<1>8. /\ DOMAIN r.tabs = DOMAIN tabs \cup {to} /\ r.tabs = [u \in DOMAIN r.tabs |-> r.tabs[u]]
      /\ r.tabs[to] = [ws |-> w, layout |-> layout] /\ \A u \in DOMAIN tabs : r.tabs[u] = base.tabs[u]
  BY <1>3, <1>6, <1>7 DEF Put
<1>10. /\ DOMAIN r.focused = DOMAIN focused \cup {to} /\ r.focused = [u \in DOMAIN r.focused |-> r.focused[u]]
       /\ r.focused[to] = p
       /\ \A u \in DOMAIN r.focused \ {to} :
            r.focused[u] = IF u = from /\ focused[u] = p /\ left # <<>> THEN left[1] ELSE focused[u]
  <2>1. /\ DOMAIN base.focused = DOMAIN focused
        /\ \A u \in DOMAIN focused : base.focused[u] = IF u = from /\ focused[u] = p /\ left # <<>> THEN left[1] ELSE focused[u]
    BY <1>2, <1>5
  <2>. QED  BY <1>6, <2>1 DEF Put
<1>11. layout \in Layouts(type) /\ Once(layout, p)
  BY <1>3, <1>l DEF Layouts, Once
<1>12. Moves(Store, made + 1, p, from, to, w, {}, left, layout, r)
  <2>1. /\ p \in DOMAIN Store.panes /\ Store.panes[p].tab = from /\ from \in DOMAIN Store.tabs
        /\ Store.tabs[from].ws = w /\ left = Without(Store.tabs[from].layout, {p}) /\ to # from /\ to \in 1..made + 1
        /\ {} \subseteq {from} /\ (from \in {} <=> PanesOf(Store, from) = {p}) /\ to \notin DOMAIN Store.tabs
    BY <1>1, <1>2, <1>3, <1>l, <1>w
  <2>3. DOMAIN r.tabs = (DOMAIN Store.tabs \cup {to}) \ {} /\ r.tabs = [u \in DOMAIN r.tabs |-> r.tabs[u]]
    BY <1>2, <1>8
  <2>5. \A u \in DOMAIN r.tabs \ {to, from} : r.tabs[u] = Store.tabs[u]
    BY <1>2, <1>7, <1>8
  <2>6. r.tabs[to] = [ws |-> w, layout |-> layout]
    BY <1>8
  <2>7. r.tabs[from] = [ws |-> w, layout |-> IF left = <<>> THEN Store.tabs[from].layout ELSE left]
    BY <1>2, <1>3, <1>7, <1>8
  <2>8. r.panes = [Store.panes EXCEPT ![p].tab = to] /\ r.active = [Store.active EXCEPT ![w] = to]
    BY <1>2, <1>6
  <2>9. /\ DOMAIN r.focused = (DOMAIN Store.focused \cup {to}) \ {} /\ r.focused = [u \in DOMAIN r.focused |-> r.focused[u]]
        /\ r.focused[to] = p
        /\ \A u \in DOMAIN r.focused \ {to} :
             r.focused[u] = IF u = from /\ Store.focused[u] = p /\ left # <<>> THEN left[1] ELSE Store.focused[u]
    BY <1>2, <1>10
  <2>10. \E x \in {NoTab, from} : ({} # {} => x = from) /\ ({} = {} => x = NoTab)
                                  /\ r.recent = [Store.recent EXCEPT ![w] = Visited(Store, w, to, x)]
    BY <1>6, <1>v
  <2>11. r = [tabs |-> r.tabs, panes |-> r.panes, active |-> r.active, focused |-> r.focused,
              recent |-> r.recent, closed |-> Store.closed, killed |-> Store.killed]
    BY <1>6
  <2>. QED  BY <1>11, <2>1, <2>3, <2>5, <2>6, <2>7, <2>8, <2>9, <2>10, <2>11 DEF Moves
<1>13. PICK m \in Nat : m = made + 1 /\ made <= m
  BY <1>2
<1>14. Good(r, type, m, torn, astray \cup torn)
  BY <1>2, <1>12, <1>13, Now, MovedGood
<1>15. Good(r, type', made', torn', astray' \cup torn') /\ made' \in Nat /\ type' \in Seq(Type)
  <2>1. astray \cup torn \subseteq astray' \cup torn
    BY <1>1 DEF Set
  <2>2. Good(r, type, m, torn, astray' \cup torn)
    BY <1>14, <2>1, Looser
  <2>. QED  BY <1>1, <1>13, <2>2, Now
<1>16. Carried'
  BY <1>1, Now, StillCarried DEF TabsInv, Grows
<1>. QED  BY <1>1, <1>15, <1>16, Follows

------------------------------------------------------------------------------
(* Drags *)

\* Nothing of the store changes.
LEMMA SameStore ==
  ASSUME TabsInv, UNCHANGED <<storeVars, type, made, torn>>, Carried'
  PROVE  TabsInv'
<1>1. Store' = Store /\ type' = type /\ made' = made /\ torn' = torn /\ astray' = astray
  BY DEF Store, storeVars
<1>a. Good(Store, type, made, torn, astray \cup torn) /\ Straight(Store, astray \cup torn)
  BY DEF TabsInv
<1>2. Good(Store, type, made, torn, astray \cup torn)' /\ Straight(Store, astray \cup torn)'
  BY <1>1, <1>a DEF Good, Typed, Seen, Past, Dead, Live, Focus, Straight, Held, PanesOf, TabsOf, Layouts, Entry, Once, PanesIn, NoTab
<1>. QED  BY <1>1, <1>2 DEF TabsInv

\* The drawn tree is noted.
LEMMA StartDragStep ==
  ASSUME TabsInv, NEW w \in WorkspaceId, NEW p, StartDrag(w, p)
  PROVE  TabsInv'
<1>. DEFINE t == ResolveActive(Store, w)  drawn == Drawn(Store, t)
<1>1. /\ t \in DOMAIN tabs /\ p \in ToSet(drawn) /\ drag' = [tab |-> t, pane |-> p, layout |-> drawn]
      /\ UNCHANGED <<storeVars, type, made, torn>>
  BY DEF StartDrag, Shown, PanesIn
<1>2. drawn = Keep(tabs[t].layout, PanesOf(Store, t))
  BY StoreFields DEF Drawn
<1>. HIDE DEF t, drawn
<1>3. /\ tabs[t].layout \in Seq(1..Len(type))
      /\ t \notin torn => \A q \in PanesOf(Store, t) : Once(tabs[t].layout, q)
  BY <1>1, PanesThere DEF Layouts
<1>4. /\ drawn \in Seq(1..Len(type)) /\ ToSet(drawn) \subseteq PanesOf(Store, t)
      /\ \A q \in PanesOf(Store, t) : Once(tabs[t].layout, q) => Once(drawn, q)
  BY <1>2, <1>3, KeepFacts
<1>5. drawn \in Layouts(type)
  BY <1>1, <1>4 DEF Layouts, ToSet
<1>6. t \notin torn => IsInjective(drawn)
  BY <1>3, <1>4, OnceFacts
<1>7. Carried'
  BY <1>1, <1>5, <1>6 DEF Carried, storeVars, Layouts, PanesIn
<1>. QED  BY <1>1, <1>7, SameStore

\* The tab that was dragged in has the layout that came back.
LEMMA HandledLayout ==
  ASSUME type \in Seq(Type), NEW n \in Nat, NEW s, NEW tn, NEW od, Good(s, type, n, tn, od), tn \subseteq od,
         NEW t, NEW layout, Upright(s, t, od), t \in DOMAIN HandleLayoutChange(s, t, layout).tabs
  PROVE  HandleLayoutChange(s, t, layout).tabs[t].layout = layout
<1>. DEFINE old == IF t \in DOMAIN s.tabs THEN s.tabs[t].layout ELSE <<>>
            ids == Keep(old, PanesOf(s, t) \ PanesIn(layout))
            r == RemovePanes(s, ids)
            u == UpdateTabLayout(r, t, layout)
            removed == PanesIn(r.tabs[t].layout) \ PanesIn(layout)
            gone == removed \cap PanesOf(r, t)
<1>1. HandleLayoutChange(s, t, layout) = u
  BY DEF HandleLayoutChange
<1>2. old \in Seq(1..Len(type))
  <2>1. CASE t \in DOMAIN s.tabs
    <3>1. s.tabs[t] \in [ws : WorkspaceId, layout : Layouts(type)]
      BY <2>1 DEF Good, Typed
    <3>. QED  BY <2>1, <3>1 DEF Layouts
  <2>2. CASE t \notin DOMAIN s.tabs
    BY <2>2
  <2>. QED  BY <2>1, <2>2
<1>. HIDE DEF old
<1>3. ids \in Seq(1..Len(type)) /\ ToSet(ids) \subseteq PanesOf(s, t)
  BY <1>2, KeepFacts
<1>. HIDE DEF ids
<1>4. Typed(r, type, n)
  BY <1>3, RemovePanesGood DEF Good
<1>5. u = IF t \notin DOMAIN r.tabs THEN r
          ELSE [r EXCEPT !.tabs[t].layout = layout, !.panes = Drop(@, gone),
                         !.focused = IF t \in DOMAIN @ /\ @[t] \in removed THEN Put(@, t, layout[1]) ELSE @,
                         !.killed = @ \cup Terminals(gone)]
  BY DEF UpdateTabLayout
<1>. HIDE DEF r, u, removed, gone
<1>6. t \in DOMAIN u.tabs
  BY <1>1
<1>7. t \in DOMAIN r.tabs
  BY <1>5, <1>6
<1>8. u.tabs = [r.tabs EXCEPT ![t].layout = layout]
  <2>1. r = [tabs |-> r.tabs, panes |-> r.panes, active |-> r.active, focused |-> r.focused,
             recent |-> r.recent, closed |-> r.closed, killed |-> r.killed]
    BY <1>4 DEF Typed
  <2>2. u = [r EXCEPT !.tabs[t].layout = layout, !.panes = Drop(@, gone),
                      !.focused = IF t \in DOMAIN @ /\ @[t] \in removed THEN Put(@, t, layout[1]) ELSE @,
                      !.killed = @ \cup Terminals(gone)]
    BY <1>5, <1>7
  <2>. QED  BY ONLY <2>1, <2>2
<1>9. r.tabs \in [DOMAIN r.tabs -> [ws : WorkspaceId, layout : Layouts(type)]]
  BY <1>4 DEF Typed
<1>10. u.tabs[t].layout = layout
  BY <1>7, <1>8, <1>9
<1>. QED  BY <1>1, <1>10

\* What react-mosaic hands back is as the drawn tree was.
LEMMA ArrangedFacts ==
  ASSUME type \in Seq(Type), Carried, ~Idle, NEW layout \in Arrangements
  PROVE  layout \in Layouts(type) /\ (drag.tab \notin torn => IsInjective(layout))
<1>. DEFINE d == drag.layout  p == drag.pane  rest == Without(d, {p})  X == 1..Len(type)
<1>1. d \in Seq(X) /\ d # <<>> /\ p \in ToSet(d) /\ (drag.tab \notin torn => IsInjective(d))
  BY DEF Carried, Layouts, PanesIn
<1>2. CASE layout = d
  BY <1>1, <1>2 DEF Layouts
<1>3. CASE layout # d
  <2>1. PICK i \in DOMAIN rest : layout \in {SetAt(rest, i, i, <<rest[i], p>>), SetAt(rest, i, i, <<p, rest[i]>>)}
    BY <1>3 DEF Arrangements
  <2>2. PICK nodes : (nodes = <<rest[i], p>> \/ nodes = <<p, rest[i]>>) /\ layout = SetAt(rest, i, i, nodes)
    BY <2>1
  <2>. HIDE DEF d, p, rest, X
  <2>3. p \in X
    BY <1>1, FirstFacts
  <2>4. rest \in Seq(X) /\ ToSet(rest) = ToSet(d) \ {p} /\ (IsInjective(d) => IsInjective(rest))
    BY <1>1, WithoutFacts DEF rest
  <2>5. p \notin ToSet(rest)
    BY <2>4
  <2>6. /\ layout \in Seq(X) \ {<<>>} /\ ToSet(layout) = ToSet(rest) \cup {p}
        /\ \A q : Once(rest, q) => Once(layout, q)
        /\ Once(layout, p)
    BY <2>2, <2>3, <2>4, <2>5, SplitFacts
  <2>7. IsInjective(rest) => IsInjective(layout)
    <3>1. IsInjective(rest) => \A q \in ToSet(rest) : Once(rest, q)
      BY OnceFacts
    <3>2. IsInjective(rest) => \A q \in ToSet(layout) : Once(layout, q)
      BY <2>6, <3>1
    <3>. QED  BY <3>2, OnceFacts
  <2>. QED  BY <1>1, <2>4, <2>6, <2>7 DEF Layouts, X
<1>. QED  BY <1>2, <1>3

\* What the end of a drag does.
LEMMA EndDragFacts ==
  ASSUME TabsInv, EndDrag
  PROVE  \E r : /\ Set(r) /\ Good(r, type, made, torn, astray' \cup torn) /\ Shrinks(Store, r, drag.tab)
<1>. DEFINE t == drag.tab  od == astray' \cup torn
<1>1. PICK layout \in Arrangements : Set(HandleLayoutChange(Store, t, layout))
  BY DEF EndDrag
<1>. DEFINE r == HandleLayoutChange(Store, t, layout)
<1>2. layout \in Layouts(type) /\ (t \notin torn => IsInjective(layout))
  BY ArrangedFacts, Now DEF TabsInv, EndDrag
<1>3. Good(Store, type, made, torn, od) /\ Upright(Store, t, od) /\ torn \subseteq od
  <2>1. astray \cup torn \subseteq od
    BY <1>1 DEF Set
  <2>2. Good(Store, type, made, torn, od)
    BY <2>1, Now, Looser
  <2>3. Upright(Store, t, astray \cup torn)
    BY Now
  <2>. QED  BY <2>1, <2>2, <2>3 DEF Upright
<1>. HIDE DEF od, t
<1>4. Upright(r, t, od)
  <2>. SUFFICES ASSUME t \in DOMAIN r.tabs, t \notin od PROVE ToSet(r.tabs[t].layout) \subseteq PanesOf(r, t)
    BY DEF Upright, PanesIn
  <2>1. r.tabs[t].layout = layout
    BY <1>3, Now, HandledLayout
  <2>2. r.tabs[t].layout \in Seq(1..Len(type)) /\ t \notin astray'
    BY <1>2, <2>1 DEF Layouts, od
  <2>3. Set(r)
    BY <1>1
  <2>. HIDE DEF r
  <2>. QED  BY <2>2, <2>3, NotAstray
<1>5. Good(r, type, made, torn, od) /\ Shrinks(Store, r, t)
  BY <1>2, <1>3, <1>4, Now, HandleGood
<1>. QED  BY <1>1, <1>5 DEF od, t

\* onChange at the end of a drag: the tree may be older than the store.
LEMMA EndDragStep ==
  ASSUME TabsInv, EndDrag
  PROVE  TabsInv'
<1>1. PICK r : Set(r) /\ Good(r, type, made, torn, astray' \cup torn)
  BY EndDragFacts
<1>2. drag' = NoDrag /\ type' = type /\ made' = made /\ torn' = torn
  BY DEF EndDrag
<1>3. Carried'
  BY <1>2 DEF Carried, Idle, NoDrag, NoTab
<1>. QED  BY <1>1, <1>2, <1>3, Now, Follows

------------------------------------------------------------------------------
(* The theorems about the store *)

\* At the start there is nothing.
LEMMA StoreInitInv == StoreInit => TabsInv
<1>. SUFFICES ASSUME StoreInit PROVE TabsInv
  OBVIOUS
<1>1. /\ tabs = <<>> /\ panes = <<>> /\ focused = <<>> /\ closed = <<>>
      /\ active = [w \in WorkspaceId |-> NoTab] /\ recent = [w \in WorkspaceId |-> <<>>]
      /\ Idle /\ killed = {} /\ type = <<>> /\ made = 0
  BY DEF StoreInit, Idle
<1>2. /\ DOMAIN tabs = {} /\ DOMAIN panes = {} /\ DOMAIN focused = {} /\ DOMAIN closed = {} /\ DOMAIN type = {}
      /\ Len(type) = 0 /\ type \in Seq(Type)
  BY <1>1
<1>3. Typed(Store, type, made)
  <2>1. tabs \in [DOMAIN tabs -> [ws : WorkspaceId, layout : Layouts(type)]]
    BY <1>1
  <2>2. panes \in [DOMAIN panes -> [tab : 1..made, target : 0..Len(type)]] /\ focused \in [DOMAIN focused -> 1..Len(type)]
    BY <1>1
  <2>3. active \in [WorkspaceId -> 0..made]
    BY <1>1 DEF NoTab
  <2>4. recent \in [WorkspaceId -> Seq(0..made)]
    BY <1>1
  <2>5. closed \in Seq(Entry(type, made))
    BY <1>1
  <2>6. DOMAIN tabs \subseteq 1..made /\ DOMAIN panes \subseteq 1..Len(type) /\ DOMAIN focused \subseteq DOMAIN tabs
    BY <1>2
  <2>. QED  BY <2>1, <2>2, <2>3, <2>4, <2>5, <2>6 DEF Typed, Store
<1>4. Seen(Store, torn) /\ Past(Store, torn) /\ Focus(Store, type, astray \cup torn) /\ Straight(Store, astray \cup torn)
  BY <1>2, StoreFields DEF Seen, Past, Focus, Straight
<1>5. Dead(Store, type)
  BY <1>1, <1>2, StoreFields DEF Dead
<1>6. Live(Store)
  BY <1>1, <1>2, StoreFields DEF Live, TabsOf, ToSet, IsInjective
<1>7. type \in Seq(Type) /\ made \in Nat /\ Carried
  BY <1>1, <1>2 DEF Carried
<1>. QED  BY <1>3, <1>4, <1>5, <1>6, <1>7 DEF TabsInv, Good

\* Every action preserves the invariant.
LEMMA StoreStep == TabsInv /\ [StoreNext]_tabVars => TabsInv'
<1>. SUFFICES ASSUME TabsInv, [StoreNext]_tabVars PROVE TabsInv'
  OBVIOUS
<1>0. "terminal" \in Type /\ "webview" \in Type /\ "file-viewer" \in Type
  BY DEF Type
<1>1. ASSUME NEW w \in WorkspaceId,
             \/ \E n \in 1..2 : AddTab(w, n, "terminal")
             \/ \E kind \in {"webview", "file-viewer"} : AddTab(w, 1, kind)
             \/ AutoRemove(w) \/ OpenFile(w) \/ OpenInBrowser(w) \/ ReopenClosedTab(w)
             \/ \E t \in DOMAIN tabs : SetActiveTab(w, t)
             \/ \E p \in DOMAIN panes : StartDrag(w, p)
      PROVE  TabsInv'
  <2>1. ASSUME NEW n \in 1..2, AddTab(w, n, "terminal") PROVE TabsInv'
    BY <2>1, <1>0, AddTabStep
  <2>2. ASSUME NEW kind \in {"webview", "file-viewer"}, AddTab(w, 1, kind) PROVE TabsInv'
    <3>1. kind \in Type /\ 1 \in 1..2
      BY <1>0
    <3>. QED  BY <2>2, <3>1, AddTabStep
  <2>. QED  BY <1>1, <2>1, <2>2, AutoRemoveStep, OpenFileStep, OpenInBrowserStep, ReopenClosedTabStep,
               SetActiveTabStep, StartDragStep
<1>2. ASSUME NEW t \in DOMAIN tabs,
             \/ CloseTab(t) \/ \E n \in 1..2 : AddPanesToTab(t, n)
             \/ \E p \in DOMAIN panes :
                  Split(t, p) \/ OpenDevTools(t, p) \/ SetFocusedPane(t, p) \/ MovePaneToTab(p, t)
      PROVE  TabsInv'
  BY <1>2, CloseTabStep, AddPanesToTabStep, SplitStep, OpenDevToolsStep, SetFocusedPaneStep, MovePaneToTabStep
<1>3. ASSUME NEW p \in DOMAIN panes, ClosePane(p) \/ MovePaneToNewTab(p) PROVE TabsInv'
  BY <1>3, ClosePaneStep, MovePaneToNewTabStep
<1>4. CASE UNCHANGED tabVars
  <2>1. UNCHANGED <<storeVars, type, made, torn>> /\ drag' = drag
    BY <1>4 DEF tabVars
  <2>2. Carried'
    BY <2>1 DEF TabsInv, Carried, Idle, Layouts, IsInjective, PanesIn
  <2>. QED  BY <2>1, <2>2, SameStore
<1>. QED  BY <1>1, <1>2, <1>3, <1>4, EndDragStep, ReloadStep DEF StoreNext

\* The invariant holds whatever the user does and whenever the store is loaded again.
THEOREM StoreInvariant == StoreSpec => []TabsInv
<1>. QED  BY StoreInitInv, StoreStep, PTL DEF StoreSpec

\* Every pane is drawn once in the tab it names, unless that was torn, and terminals are
\* killed exactly when their panes go.
THEOREM ShownOrKilled == StoreSpec => []PaneShownOrKilled
<1>1. TabsInv => PaneShownOrKilled
  <2>. SUFFICES ASSUME TabsInv PROVE PaneShownOrKilled
    OBVIOUS
  <2>1. Seen(Store, torn) /\ Dead(Store, type)
    BY DEF TabsInv, Good
  <2>. QED  BY <2>1, StoreFields DEF PaneShownOrKilled, Seen, Dead, Terminals
<1>. QED  BY <1>1, StoreInvariant, PTL

\* What is active, remembered and focused is there.
THEOREM LivePointers == StoreSpec => []PointersLive
<1>1. TabsInv => PointersLive
  <2>. SUFFICES ASSUME TabsInv PROVE PointersLive
    OBVIOUS
  <2>1. Typed(Store, type, made) /\ Live(Store) /\ Focus(Store, type, astray \cup torn)
    BY DEF TabsInv, Good
  <2>2. DOMAIN focused \subseteq DOMAIN tabs
    BY <2>1, StoreFields DEF Typed
  <2>3. \A t \in DOMAIN focused : t \in astray \cup torn \/ Held(Store, type, t, focused[t])
    BY <2>1, StoreFields DEF Focus
  <2>4. \A w \in WorkspaceId :
          /\ active[w] = NoTab <=> TabsOf(Store, w) = {}
          /\ ToSet(recent[w]) \cup {active[w]} \subseteq TabsOf(Store, w) \cup {NoTab}
          /\ IsInjective(recent[w])
    BY <2>1, StoreFields DEF Live
  <2>. QED  BY <2>2, <2>3, <2>4, StoreFields DEF PointersLive, Held
<1>. QED  BY <1>1, StoreInvariant, PTL

\* Only the end of a drag and a new renderer leave a drag.
LEMMA DragEnds ==
  ASSUME StoreNext, ~Idle, Idle'
  PROVE  EndDrag \/ Reload
<1>. SUFFICES ASSUME ~EndDrag, ~Reload PROVE FALSE
  OBVIOUS
<1>1. ASSUME drag' = drag PROVE FALSE
  BY <1>1 DEF Idle
<1>2. ASSUME NEW w \in WorkspaceId,
             \/ \E n \in 1..2 : AddTab(w, n, "terminal")
             \/ \E kind \in {"webview", "file-viewer"} : AddTab(w, 1, kind)
             \/ AutoRemove(w) \/ OpenFile(w) \/ OpenInBrowser(w) \/ ReopenClosedTab(w)
             \/ \E t \in DOMAIN tabs : SetActiveTab(w, t)
             \/ \E p \in DOMAIN panes : StartDrag(w, p)
      PROVE  FALSE
  <2>1. OpenInBrowser(w) => drag' = drag
    BY DEF OpenInBrowser, NoChange
  <2>. QED  BY <1>1, <1>2, <2>1
         DEF AddTab, AutoRemove, OpenFile, ReopenClosedTab, SetActiveTab, StartDrag, NoChange
<1>3. ASSUME NEW t \in DOMAIN tabs,
             \/ CloseTab(t) \/ \E n \in 1..2 : AddPanesToTab(t, n)
             \/ \E p \in DOMAIN panes :
                  Split(t, p) \/ OpenDevTools(t, p) \/ SetFocusedPane(t, p) \/ MovePaneToTab(p, t)
      PROVE  FALSE
  BY <1>1, <1>3 DEF CloseTab, AddPanesToTab, Split, OpenDevTools, SetFocusedPane, MovePaneToTab, NoChange
<1>4. ASSUME NEW p \in DOMAIN panes, ClosePane(p) \/ MovePaneToNewTab(p) PROVE FALSE
  BY <1>1, <1>4 DEF ClosePane, MovePaneToNewTab, NoChange
<1>. QED  BY <1>2, <1>3, <1>4 DEF StoreNext

\* The end of a drag removes only panes of the tab it was in, and devtools panes.
THEOREM DragSpares == StoreSpec => DragSparesOthers
<1>1. ASSUME TabsInv, [StoreNext]_tabVars, ~Idle, Idle', NEW p \in DOMAIN panes \ DOMAIN panes'
      PROVE  panes[p].tab = drag.tab \/ type[p] = "devtools"
  <2>1. CASE EndDrag
    <3>1. PICK r : Set(r) /\ Shrinks(Store, r, drag.tab)
      BY <1>1, <2>1, EndDragFacts
    <3>2. panes' = r.panes
      BY <3>1 DEF Set
    <3>. QED  BY <1>1, <3>1, <3>2, StoreFields DEF Shrinks
  <2>2. CASE Reload
    <3>1. panes' = panes
      BY <2>2 DEF Reload, Set, Store
    <3>. QED  BY <1>1, <3>1
  <2>3. CASE UNCHANGED tabVars
    BY <1>1, <2>3 DEF tabVars, storeVars
  <2>. QED  BY <1>1, <2>1, <2>2, <2>3, DragEnds
<1>2. TabsInv /\ [StoreNext]_tabVars =>
        [~Idle /\ Idle' => \A p \in DOMAIN panes \ DOMAIN panes' :
           panes[p].tab = drag.tab \/ type[p] = "devtools"]_tabVars
  BY <1>1
<1>. QED  BY <1>2, StoreInvariant, PTL DEF StoreSpec, DragSparesOthers

------------------------------------------------------------------------------
(* The tabs of several Macs: operators *)

\* What a peer's update holds for a workspace is the content of some change.
LEMMA PeerTabsType ==
  ASSUME NEW u \in State, NEW w \in Workspace
  PROVE  PeerTabs(u, w) \in 0..MaxEdits
<1>. DEFINE ids == {i \in u.mapped : i[2] = w}
<1>1. CASE ids = {}
  BY <1>1, BoundsAssumption DEF PeerTabs
<1>2. CASE ids # {}
  <2>1. (CHOOSE i \in ids : TRUE) \in ids
    BY <1>2
  <2>2. (CHOOSE i \in ids : TRUE) \in Id
    BY <2>1 DEF State
  <2>. QED  BY <1>2, <2>2 DEF PeerTabs, State, Content
<1>. QED  BY <1>1, <1>2

LEMMA MergedType ==
  ASSUME TypeOK, NEW d \in Device, NEW u \in State
  PROVE  Merged(d, u) \in Content
BY PeerTabsType DEF Merged, Content, TypeOK, Winning, Id

LEMMA NothingType ==
  ASSUME NEW d \in Device
  PROVE  Nothing(d) \in State
BY BoundsAssumption DEF Nothing, State, Content

------------------------------------------------------------------------------
(* Type correctness *)

\* The steps of the main process and of the service.
LEMMA TypeMain ==
  ASSUME TypeOK, NEW d \in Device,
         Flush(d) \/ WatchRead(d) \/ (\E e \in Device : Deliver(d, e)) \/ ThemeSet(d),
         trouble' \in 0..MaxTrouble
  PROVE  TypeOK'
<1>1. CASE Flush(d)
  <2>1. saving' \in [Device -> Nat] /\ file' \in [Device -> State] /\ fresh' \subseteq Device \X Device
    BY <1>1 DEF TypeOK, Flush
  <2>. QED  BY <1>1, <2>1 DEF TypeOK, Flush, rendererVars, historyVars
<1>2. CASE WatchRead(d)
  <2>1. updates' \in [Device -> SUBSET State] /\ noticed' \subseteq Device
    BY <1>2 DEF TypeOK, WatchRead
  <2>. QED  BY <1>2, <2>1 DEF TypeOK, WatchRead, historyVars
<1>3. ASSUME NEW e \in Device, Deliver(d, e) PROVE TypeOK'
  <2>1. file' \in [Device -> State] /\ noticed' \subseteq Device /\ fresh' \subseteq Device \X Device
    BY <1>3 DEF TypeOK, Deliver
  <2>2. UNCHANGED <<store, lastSeen, updates, merges, mem, saving, known, edits, last, adopted, overrun, doubt>>
    BY <1>3 DEF Deliver, rendererVars, historyVars
  <2>. QED  BY <2>1, <2>2 DEF TypeOK
<1>4. CASE ThemeSet(d)
  <2>1. [mem[d] EXCEPT !.writer = d, !.at = edits] \in State
    <3>1. mem[d] \in State /\ edits \in 0..MaxEdits
      BY DEF TypeOK
    <3>. QED  BY <3>1 DEF State
  <2>2. mem' = [mem EXCEPT ![d] = [mem[d] EXCEPT !.writer = d, !.at = edits]]
    BY <1>4 DEF ThemeSet, TypeOK
  <2>3. mem' \in [Device -> State] /\ saving' \in [Device -> Nat] /\ doubt' \subseteq Workspace
    BY <1>4, <2>1, <2>2 DEF TypeOK, ThemeSet
  <2>. QED  BY <1>4, <2>3 DEF TypeOK, ThemeSet, rendererVars
<1>. QED  BY <1>1, <1>2, <1>3, <1>4

\* What tabs.set writes.
LEMMA TypeEdit ==
  ASSUME TypeOK, NEW d \in Device, NEW w \in Workspace, Edit(d, w), trouble' = trouble
  PROVE  TypeOK'
<1>1. edits' \in 0..MaxEdits
  BY BoundsAssumption DEF TypeOK, Edit
<1>2. store' \in [Device -> Content]
  BY <1>1 DEF TypeOK, Edit, Content, Id
<1>3. mem' \in [Device -> State]
  <2>. DEFINE named == {i \in Id : i[1] = d /\ i[2] \in known[d] /\ store'[d][i] > 0}
              u == [writer |-> d, at |-> edits', tabs |-> store'[d], mapped |-> named,
                    stamp |-> [v \in Workspace |-> IF <<d, v>> \in named THEN edits'
                                                   ELSE mem[d].stamp[v]]]
  <2>1. u.stamp \in [Workspace -> 0..MaxEdits]
    BY <1>1 DEF TypeOK, State
  <2>2. u \in State
    BY <1>1, <1>2, <2>1 DEF State
  <2>3. mem' = [mem EXCEPT ![d] = u]
    BY DEF Edit, TabsSet, TypeOK
  <2>. QED  BY <2>2, <2>3 DEF TypeOK
<1>4. saving' \in [Device -> Nat] /\ last' \in [Workspace -> 0..MaxEdits]
  BY <1>1 DEF TypeOK, Edit
<1>5. doubt' \subseteq Workspace
  BY DEF TypeOK, Edit, Suspect
<1>. QED  BY <1>1, <1>2, <1>3, <1>4, <1>5 DEF TypeOK, Edit

\* The steps of applyPeerUpdate.
LEMMA TypePeer ==
  ASSUME TypeOK, NEW d \in Device,
         (\E u \in updates[d] : Resolve(d, u) \/ ResolveFails(d, u)) \/ \E m \in merges[d] : Apply(d, m),
         trouble' \in 0..MaxTrouble
  PROVE  TypeOK'
<1>1. ASSUME NEW u \in updates[d], Resolve(d, u) PROVE TypeOK'
  <2>1. u \in State
    BY DEF TypeOK
  <2>2. updates' \in [Device -> SUBSET State] /\ doubt' \subseteq Workspace
    BY <1>1 DEF TypeOK, Resolve
  <2>3. lastSeen' \in [Device -> [Workspace -> 0..MaxEdits]]
    <3>. DEFINE seen == [w \in Workspace |-> IF w \in Winning(d, u) THEN u.stamp[w] ELSE lastSeen[d][w]]
    <3>1. seen \in [Workspace -> 0..MaxEdits]
      BY <2>1 DEF TypeOK, State
    <3>2. lastSeen' = lastSeen \/ lastSeen' = [lastSeen EXCEPT ![d] = seen]
      BY <1>1 DEF Resolve
    <3>. QED  BY <3>1, <3>2 DEF TypeOK
  <2>4. merges' \in [Device -> SUBSET [tabs : Content, over : Content]]
    <3>1. [tabs |-> Merged(d, u), over |-> store[d]] \in [tabs : Content, over : Content]
      BY <2>1, MergedType DEF TypeOK
    <3>. QED  BY <1>1, <3>1 DEF TypeOK, Resolve
  <2>5. UNCHANGED <<store, mem, saving, file, noticed, fresh, known, edits, last, adopted, overrun>>
    BY <1>1 DEF Resolve, mainVars
  <2>. QED  BY <2>2, <2>3, <2>4, <2>5 DEF TypeOK
<1>2. ASSUME NEW u \in updates[d], ResolveFails(d, u) PROVE TypeOK'
  <2>1. updates' \in [Device -> SUBSET State] /\ doubt' \subseteq Workspace
    BY <1>2 DEF TypeOK, ResolveFails
  <2>. QED  BY <1>2, <2>1 DEF TypeOK, ResolveFails, mainVars
<1>3. ASSUME NEW m \in merges[d], Apply(d, m) PROVE TypeOK'
  <2>1. /\ merges' \in [Device -> SUBSET [tabs : Content, over : Content]]
        /\ store' \in [Device -> Content] /\ overrun' \subseteq Device
    BY <1>3 DEF TypeOK, Apply
  <2>. QED  BY <1>3, <2>1 DEF TypeOK, Apply, mainVars
<1>. QED  BY <1>1, <1>2, <1>3

\* A new window, a new program, a new workspace.
LEMMA TypeAnew ==
  ASSUME TypeOK, NEW d \in Device,
         Reopen(d) \/ Restart(d) \/ \E w \in Workspace : CreateWorkspace(d, w),
         trouble' \in 0..MaxTrouble
  PROVE  TypeOK'
<1>1. ASSUME NEW content \in Content, Hydrate(d, content)
      PROVE  /\ store' \in [Device -> Content] /\ lastSeen' \in [Device -> [Workspace -> 0..MaxEdits]]
             /\ updates' \in [Device -> SUBSET State] /\ doubt' \subseteq Workspace
             /\ merges' \in [Device -> SUBSET [tabs : Content, over : Content]]
  BY <1>1, BoundsAssumption DEF TypeOK, Hydrate
<1>2. mem[d].tabs \in Content /\ file[d].tabs \in Content
  BY DEF TypeOK, State
<1>3. CASE Reopen(d)
  BY <1>1, <1>2, <1>3 DEF TypeOK, Reopen, mainVars
<1>4. CASE Restart(d)
  <2>1. /\ mem' \in [Device -> State] /\ saving' \in [Device -> Nat] /\ noticed' \subseteq Device
        /\ adopted' \subseteq Device
    BY <1>4 DEF TypeOK, Restart
  <2>. QED  BY <1>1, <1>2, <1>4, <2>1 DEF TypeOK, Restart
<1>5. CASE \E w \in Workspace : CreateWorkspace(d, w)
  <2>1. known' \in [Device -> SUBSET Workspace] /\ doubt' \subseteq Workspace
    BY <1>5 DEF TypeOK, CreateWorkspace
  <2>. QED  BY <1>5, <2>1 DEF TypeOK, CreateWorkspace, rendererVars, mainVars
<1>. QED  BY <1>3, <1>4, <1>5

LEMMA TypeInit == Init => TypeOK
<1> SUFFICES ASSUME Init PROVE TypeOK
  OBVIOUS
<1>1. mem \in [Device -> State] /\ file \in [Device -> State]
  BY NothingType DEF Init
<1>2. /\ store \in [Device -> Content] /\ lastSeen \in [Device -> [Workspace -> 0..MaxEdits]]
      /\ last \in [Workspace -> 0..MaxEdits] /\ edits \in 0..MaxEdits /\ trouble \in 0..MaxTrouble
  BY BoundsAssumption DEF Init, Content
<1>. QED  BY <1>1, <1>2 DEF Init, TypeOK

LEMMA TypeNext == TypeOK /\ [Next]_vars => TypeOK'
<1> SUFFICES ASSUME TypeOK, [Next]_vars PROVE TypeOK'
  OBVIOUS
<1>1. CASE UNCHANGED vars
  BY <1>1 DEF TypeOK, vars, rendererVars, mainVars, historyVars
<1>2. ASSUME NEW d \in Device, NEW w \in Workspace, Edit(d, w) PROVE TypeOK'
  BY <1>2, TypeEdit DEF Edit
<1>3. ASSUME NEW d \in Device, Flush(d) \/ WatchRead(d) \/ \E e \in Device : Deliver(d, e) PROVE TypeOK'
  <2>1. trouble' = trouble
    BY <1>3 DEF Flush, WatchRead, Deliver
  <2>. QED  BY <1>3, <2>1, TypeMain DEF TypeOK
<1>4. ASSUME NEW d \in Device,
             (\E u \in updates[d] : Resolve(d, u)) \/ \E m \in merges[d] : Apply(d, m)
      PROVE  TypeOK'
  <2>1. trouble' = trouble
    BY <1>4 DEF Resolve, Apply
  <2>. QED  BY <1>4, <2>1, TypePeer DEF TypeOK
<1>5. ASSUME trouble < MaxTrouble, trouble' = trouble + 1 PROVE trouble' \in 0..MaxTrouble
  BY <1>5, BoundsAssumption DEF TypeOK
<1>. QED  BY <1>1, <1>2, <1>3, <1>4, <1>5, TypeMain, TypePeer, TypeAnew DEF Next

\* Every reachable state is well typed.
THEOREM TypeCorrect == Spec => []TypeOK
BY TypeInit, TypeNext, PTL DEF Spec

------------------------------------------------------------------------------
(* A peer's update drops nothing                                           *)
(*                                                                         *)
(* An update takes the tabs of a workspace away when it stamps the         *)
(* workspace without mapping any tabs to it.  As long as no device started *)
(* from a peer's file and no merge has been overtaken, whatever is stamped *)
(* is also there: in the store of the device that stamps (Kept) and so in  *)
(* what it writes (Whole).                                                 *)

Clean == adopted = {} /\ overrun = {}

\* What a device has written maps and fills every workspace that it stamps.
Whole(u) ==
  /\ u.mapped \subseteq {u.writer} \X Workspace
  /\ \A w \in Workspace : u.stamp[w] > 0 =>
       /\ <<u.writer, w>> \in u.mapped
       /\ u.tabs[<<u.writer, w>>] > 0
       /\ w \in known[u.writer]

\* The store has all that its device stamps, and no merge takes anything from it.
Kept(d) ==
  /\ mem[d].writer = d
  /\ \A w \in Workspace : mem[d].stamp[w] > 0 => store[d][<<d, w>>] > 0
  /\ \A m \in merges[d], w \in Workspace : m.over[<<d, w>>] > 0 => m.tabs[<<d, w>>] > 0

WholeAt(d) == Whole(mem[d]) /\ Whole(file[d]) /\ \A u \in updates[d] : Whole(u)

DropInv == TypeOK /\ (Clean => \A d \in Device : Kept(d) /\ WholeAt(d))

\* What a whole update says of a workspace that it stamps.
LEMMA WholeTabs ==
  ASSUME NEW u \in State, Whole(u), NEW w \in Workspace, u.stamp[w] > 0
  PROVE  PeerTabs(u, w) > 0
<1>. DEFINE ids == {i \in u.mapped : i[2] = w}
<1>1. <<u.writer, w>> \in ids
  BY DEF Whole
<1>2. (CHOOSE i \in ids : TRUE) \in ids
  BY <1>1
<1>3. (CHOOSE i \in ids : TRUE) = <<u.writer, w>>
  BY <1>2 DEF Whole
<1>. QED  BY <1>1, <1>3 DEF PeerTabs, Whole

\* A merge of a whole update keeps what the store has.
LEMMA MergedKeeps ==
  ASSUME TypeOK, NEW d \in Device, NEW u \in State, Whole(u), NEW w \in Workspace,
         store[d][<<d, w>>] > 0
  PROVE  Merged(d, u)[<<d, w>>] > 0
<1>1. <<d, w>> \in Id
  BY DEF Id
<1>2. CASE w \in Winning(d, u)
  <2>1. u.stamp[w] > 0
    BY <1>2 DEF Winning, TypeOK, State
  <2>. QED  BY <1>1, <1>2, <2>1, WholeTabs DEF Merged
<1>3. CASE w \notin Winning(d, u)
  BY <1>1, <1>3 DEF Merged
<1>. QED  BY <1>2, <1>3

\* The tabs of a change are whole, and so is the store after it.
LEMMA EditWhole ==
  ASSUME TypeOK, TypeOK', NEW d \in Device, NEW w \in Workspace, Edit(d, w),
         Kept(d), WholeAt(d)
  PROVE  Kept(d)' /\ WholeAt(d)'
<1>. DEFINE named == {i \in Id : i[1] = d /\ i[2] \in known[d] /\ store'[d][i] > 0}
            u == [writer |-> d, at |-> edits', tabs |-> store'[d], mapped |-> named,
                  stamp |-> [v \in Workspace |-> IF <<d, v>> \in named THEN edits'
                                                 ELSE mem[d].stamp[v]]]
<1>1. mem'[d] = u /\ known' = known /\ file' = file /\ updates' = updates /\ merges' = merges
  BY DEF Edit, TabsSet, TypeOK
<1>2. edits' \in Nat /\ edits' > 0
  BY BoundsAssumption DEF Edit, TypeOK
<1>3. \A v \in Workspace : store[d][<<d, v>>] > 0 => store'[d][<<d, v>>] > 0
  BY <1>2 DEF Edit, TypeOK, Content, Id
<1>4. \A v \in Workspace : u.stamp[v] > 0 => v \in known[d] /\ store'[d][<<d, v>>] > 0
  BY <1>2, <1>3 DEF Kept, WholeAt, Whole, Id, TypeOK, State
<1>5. \A v \in Workspace : u.stamp[v] > 0 => <<d, v>> \in named
  BY <1>4 DEF Id
<1>6. named \subseteq {d} \X Workspace
  BY DEF Id
<1>7. Whole(mem[d])'
  BY <1>1, <1>4, <1>5, <1>6 DEF Whole
<1>8. Kept(d)'
  BY <1>1, <1>4 DEF Kept
<1>9. Whole(file[d])' /\ (\A x \in updates[d] : Whole(x))'
  BY <1>1 DEF WholeAt, Whole
<1>. QED  BY <1>7, <1>8, <1>9 DEF WholeAt

\* A record stays whole while workspaces are only added.
LEMMA WholeStays ==
  ASSUME NEW u \in State, Whole(u), \A x \in Device : known[x] \subseteq known'[x]
  PROVE  /\ u.mapped \subseteq {u.writer} \X Workspace
         /\ \A w \in Workspace : u.stamp[w] > 0 =>
              <<u.writer, w>> \in u.mapped /\ u.tabs[<<u.writer, w>>] > 0 /\ w \in known'[u.writer]
BY DEF Whole, State

\* Records that are only copied stay whole.
LEMMA CopiesWhole ==
  ASSUME TypeOK, \A x \in Device : WholeAt(x), \A x \in Device : known[x] \subseteq known'[x],
         NEW e \in Device, mem'[e] \in {mem[e], file[e]}, updates'[e] \subseteq updates[e] \cup {file[e]},
         \E x \in Device : file'[e] \in {file[x], mem[x]}
  PROVE  WholeAt(e)'
<1>1. Whole(mem[e])'
  BY WholeStays DEF TypeOK, WholeAt, Whole
<1>2. Whole(file[e])'
  BY WholeStays DEF TypeOK, WholeAt, Whole
<1>3. (\A u \in updates[e] : Whole(u))'
  BY WholeStays DEF TypeOK, WholeAt, Whole
<1>. QED  BY <1>1, <1>2, <1>3 DEF WholeAt

\* The store keeps what its device stamps when it keeps what it has.
LEMMA StoreKept ==
  ASSUME NEW e \in Device, Kept(e), mem'[e] = mem[e], merges'[e] \subseteq merges[e],
         \A w \in Workspace : store[e][<<e, w>>] > 0 => store'[e][<<e, w>>] > 0
  PROVE  Kept(e)'
BY DEF Kept

LEMMA InitDrop == Init => DropInv
<1> SUFFICES ASSUME Init, NEW d \in Device PROVE Kept(d) /\ WholeAt(d)
  BY TypeInit DEF DropInv
<1>1. mem[d] = Nothing(d) /\ file[d] = Nothing(d) /\ updates[d] = {} /\ merges[d] = {}
  BY DEF Init
<1>. QED  BY <1>1 DEF Kept, WholeAt, Whole, Nothing

LEMMA DropNext == DropInv /\ [Next]_vars => DropInv'
<1> SUFFICES ASSUME DropInv, [Next]_vars, Clean', NEW e \in Device PROVE Kept(e)' /\ WholeAt(e)'
  BY TypeNext DEF DropInv
<1>. TypeOK /\ TypeOK'
  BY TypeNext DEF DropInv
<1>1. Clean
  BY DEF Next, Clean, Edit, Flush, WatchRead, Deliver, Resolve, Apply, ThemeSet, Reopen, Restart,
         ResolveFails, CreateWorkspace, historyVars, vars
<1>2. \A x \in Device : Kept(x) /\ WholeAt(x)
  BY <1>1 DEF DropInv
<1>3. CASE UNCHANGED vars
  BY <1>2, <1>3, CopiesWhole, StoreKept DEF vars, rendererVars, mainVars
<1>4. ASSUME NEW d \in Device, NEW w \in Workspace, Edit(d, w) PROVE Kept(e)' /\ WholeAt(e)'
  <2>1. CASE e = d
    BY <1>2, <1>4, <2>1, EditWhole
  <2>2. CASE e # d
    <3>1. /\ mem'[e] = mem[e] /\ store'[e] = store[e] /\ merges' = merges /\ updates' = updates
          /\ file' = file /\ known' = known
      BY <1>4, <2>2 DEF Edit, TabsSet, TypeOK
    <3>. QED  BY <1>2, <3>1, CopiesWhole, StoreKept
  <2>. QED  BY <2>1, <2>2
<1>5. ASSUME NEW d \in Device, Flush(d) \/ WatchRead(d) \/ \E x \in Device : Deliver(d, x)
      PROVE  Kept(e)' /\ WholeAt(e)'
  <2>1. /\ mem' = mem /\ store' = store /\ merges' = merges /\ known' = known
        /\ updates'[e] \subseteq updates[e] \cup {file[e]}
        /\ \E x \in Device : file'[e] \in {file[x], mem[x]}
    BY <1>5 DEF Flush, WatchRead, Deliver, rendererVars, TypeOK
  <2>. QED  BY <1>2, <2>1, CopiesWhole, StoreKept
<1>6. ASSUME NEW d \in Device, NEW u \in updates[d], Resolve(d, u) \/ ResolveFails(d, u)
      PROVE  Kept(e)' /\ WholeAt(e)'
  <2>1. /\ mem' = mem /\ store' = store /\ file' = file /\ known' = known
        /\ updates'[e] \subseteq updates[e]
        /\ \/ merges'[e] \subseteq merges[e]
           \/ e = d /\ merges'[e] = merges[e] \cup {[tabs |-> Merged(d, u), over |-> store[d]]}
    BY <1>6 DEF Resolve, ResolveFails, mainVars, TypeOK
  <2>2. u \in State /\ Whole(u)
    BY <1>2 DEF TypeOK, WholeAt
  <2>3. \A w \in Workspace : store[d][<<d, w>>] > 0 => Merged(d, u)[<<d, w>>] > 0
    BY <2>2, MergedKeeps
  <2>4. Kept(e)'
    BY <1>2, <2>1, <2>3 DEF Kept
  <2>. QED  BY <1>2, <2>1, <2>4, CopiesWhole
<1>7. ASSUME NEW d \in Device, NEW m \in merges[d], Apply(d, m) PROVE Kept(e)' /\ WholeAt(e)'
  <2>1. /\ mem' = mem /\ file' = file /\ known' = known /\ updates' = updates
        /\ merges'[e] \subseteq merges[e]
        /\ \/ store'[e] = store[e]
           \/ e = d /\ store'[e] = m.tabs
    BY <1>7 DEF Apply, mainVars, TypeOK
  <2>2. store[d] = m.over
    BY <1>7 DEF Apply, Clean
  <2>3. \A w \in Workspace : store[e][<<e, w>>] > 0 => store'[e][<<e, w>>] > 0
    BY <1>2, <2>1, <2>2 DEF Kept
  <2>. QED  BY <1>2, <2>1, <2>3, CopiesWhole, StoreKept
<1>8. ASSUME NEW d \in Device, ThemeSet(d) PROVE Kept(e)' /\ WholeAt(e)'
  <2>1. /\ store' = store /\ merges' = merges /\ updates' = updates /\ file' = file /\ known' = known
        /\ mem'[e].writer = e /\ mem'[e].stamp = mem[e].stamp /\ mem'[e].tabs = mem[e].tabs
        /\ mem'[e].mapped = mem[e].mapped
    BY <1>2, <1>8 DEF ThemeSet, rendererVars, TypeOK, State, Kept
  <2>2. Kept(e)'
    BY <1>2, <2>1 DEF Kept
  <2>3. Whole(mem[e])'
    BY <1>2, <2>1 DEF Kept, WholeAt, Whole
  <2>. QED  BY <1>2, <2>1, <2>2, <2>3 DEF WholeAt, Whole
<1>9. ASSUME NEW d \in Device, Reopen(d) \/ Restart(d) PROVE Kept(e)' /\ WholeAt(e)'
  <2>1. /\ file' = file /\ known' = known /\ updates'[e] \subseteq updates[e]
        /\ mem'[e] \in {mem[e], file[e]} /\ mem'[e].writer = e
    <3>1. CASE Reopen(d)
      BY <1>2, <3>1 DEF Reopen, Hydrate, mainVars, TypeOK, Kept
    <3>2. CASE Restart(d)
      <4>1. file[d].writer = d
        BY <3>2 DEF Restart, Clean
      <4>2. /\ file' = file /\ known' = known /\ updates'[e] \subseteq updates[e]
            /\ mem' = [mem EXCEPT ![d] = file[d]]
        BY <3>2 DEF Restart, Hydrate, TypeOK
      <4>. QED  BY <1>2, <4>1, <4>2 DEF TypeOK, Kept
    <3>. QED  BY <1>9, <3>1, <3>2
  <2>2. CASE e # d
    <3>1. mem'[e] = mem[e] /\ store'[e] = store[e] /\ merges'[e] = merges[e]
      BY <1>9, <2>2 DEF Reopen, Restart, Hydrate, mainVars, TypeOK
    <3>. QED  BY <1>2, <2>1, <3>1, CopiesWhole, StoreKept
  <2>3. CASE e = d
    <3>1. store'[e] = mem'[e].tabs /\ merges'[e] = {}
      BY <1>9, <2>3 DEF Reopen, Restart, Hydrate, mainVars, TypeOK
    <3>2. WholeAt(e)'
      BY <1>2, <2>1, CopiesWhole
    <3>. QED  BY <2>1, <3>1, <3>2 DEF Kept, WholeAt, Whole
  <2>. QED  BY <2>2, <2>3
<1>10. ASSUME NEW d \in Device, NEW w \in Workspace, CreateWorkspace(d, w)
       PROVE  Kept(e)' /\ WholeAt(e)'
  <2>1. /\ mem' = mem /\ store' = store /\ merges' = merges /\ updates' = updates /\ file' = file
        /\ \A x \in Device : known[x] \subseteq known'[x]
    BY <1>10 DEF CreateWorkspace, rendererVars, mainVars, TypeOK
  <2>. QED  BY <1>2, <2>1, CopiesWhole, StoreKept
<1>. QED  BY <1>3, <1>4, <1>5, <1>6, <1>7, <1>8, <1>9, <1>10 DEF Next

\* Only the computing of a merge adds one, and a merge of a whole update drops nothing.
LEMMA DropStep ==
  ASSUME DropInv, Next, NEW d \in Device, Drops(d)
  PROVE  adopted # {} \/ overrun # {}
<1> SUFFICES ASSUME Clean PROVE FALSE
  BY DEF Clean
<1>. TypeOK /\ \A x \in Device : WholeAt(x)
  BY DEF DropInv
<1>1. PICK m \in merges'[d] \ merges[d], w \in Workspace :
        store[d][<<d, w>>] > 0 /\ m.tabs[<<d, w>>] = 0
  BY DEF Drops
<1>2. PICK x \in Device : \E u \in updates[x] : Resolve(x, u)
  <2>1. ASSUME NEW x \in Device, NEW v \in Workspace, Edit(x, v) PROVE FALSE
    BY <1>1, <2>1 DEF Edit
  <2>2. ASSUME NEW x \in Device,
               Flush(x) \/ WatchRead(x) \/ ThemeSet(x) \/ (\E y \in Device : Deliver(x, y))
        PROVE  FALSE
    BY <1>1, <2>2 DEF Flush, WatchRead, ThemeSet, Deliver, rendererVars
  <2>3. ASSUME NEW x \in Device, Reopen(x) \/ Restart(x) PROVE FALSE
    BY <1>1, <2>3 DEF Reopen, Restart, Hydrate, TypeOK
  <2>4. ASSUME NEW x \in Device, NEW n \in merges[x], Apply(x, n) PROVE FALSE
    BY <1>1, <2>4 DEF Apply, TypeOK
  <2>5. ASSUME NEW x \in Device,
               (\E u \in updates[x] : ResolveFails(x, u)) \/ \E v \in Workspace : CreateWorkspace(x, v)
        PROVE  FALSE
    BY <1>1, <2>5 DEF ResolveFails, CreateWorkspace, rendererVars
  <2>. QED  BY <2>1, <2>2, <2>3, <2>4, <2>5 DEF Next
<1>. PICK u \in updates[x] : Resolve(x, u)
  BY <1>2
<1>3. x = d /\ m = [tabs |-> Merged(d, u), over |-> store[d]]
  BY <1>1 DEF Resolve, TypeOK
<1>4. u \in State /\ Whole(u)
  BY DEF TypeOK, WholeAt
<1>. QED  BY <1>1, <1>3, <1>4, MergedKeeps

\* A peer's update never drops the tabs of a workspace, on any number of devices, while
\* none has started from a peer's file and no merge has replaced newer tabs.
THEOREM NothingDroppedHolds == Spec => NothingDropped
<1>1. DropInv /\ [Next]_vars => [\A d \in Device : Drops(d) => adopted # {} \/ overrun # {}]_vars
  BY DropStep
<1>. QED  BY <1>1, InitDrop, DropNext, PTL DEF Spec, NothingDropped

------------------------------------------------------------------------------
(* The last change is shown                                                *)
(*                                                                         *)
(* Three facts hold of every state.  What is anywhere in the system is not *)
(* younger than the last change of its workspace (Bounded).  What a device *)
(* writes maps and stamps just the workspaces of its own that have tabs,   *)
(* unless it has started from a peer's file (OwnInv).  Files of one writer *)
(* spread in the order of their times (VersionInv).  With them, a          *)
(* workspace that no disturbance has hit has an author (SyncInv): the      *)
(* device that alone has written since the last change, whose files, when  *)
(* they mention the workspace at all, bring the change to every device     *)
(* that does not have it yet.                                              *)

\* Tabs t are no younger than the changes l, and only of workspaces k.
Fits(t, l, k) == \A i \in Id : t[i] <= l[i[2]] /\ (t[i] > 0 => i[2] \in k[i[1]])

Dated(r, n) == r.at <= n /\ \A w \in Workspace : r.stamp[w] <= n

Records(d) == {mem[d], file[d]} \cup updates[d]
Maps(d) == {store[d]} \cup {m.tabs : m \in merges[d]} \cup {r.tabs : r \in Records(d)}

Bounded ==
  /\ \A d \in Device : \A t \in Maps(d) : Fits(t, last, known)
  /\ \A d \in Device : \A r \in Records(d) : Dated(r, edits)
  /\ \A d \in Device, w \in Workspace : lastSeen[d][w] <= edits
  /\ \A w \in Workspace : last[w] <= edits

\* What a device has written of its own workspaces k.
Own(r, d, k) ==
  /\ r.mapped \subseteq {d} \X k
  /\ \A w \in Workspace :
       /\ r.tabs[<<d, w>>] > 0 => <<d, w>> \in r.mapped
       /\ <<d, w>> \in r.mapped => r.stamp[w] > 0
       /\ r.stamp[w] > 0 => w \in k

OwnInv ==
  \A d \in Device \ adopted :
    /\ mem[d].writer = d
    /\ \A e \in Device : \A r \in Records(e) : r.writer = d => Own(r, d, known[d])

VersionInv ==
  /\ \A d \in Device : saving[d] > 0 =>
       mem[d].writer = d /\ \A x \in Device : file[x].writer = d => file[x].at <= mem[d].at
  /\ \A x, y \in Device : <<x, y>> \notin fresh =>
       /\ file[x].writer = file[y].writer => file[x].at <= file[y].at
       /\ \A z \in Device : <<x, z>> \in fresh /\ <<y, x>> \notin fresh => file[x] = file[y]

\* What is written to main is stamped and mapped for every workspace it mentions.
Mentioned(d, content) == {i \in Id : i[1] = d /\ i[2] \in known[d] /\ content[i] > 0}

LEMMA EditMem ==
  ASSUME TypeOK, NEW d \in Device, NEW w \in Workspace, Edit(d, w)
  PROVE  /\ mem'[d] = [writer |-> d, at |-> edits', tabs |-> store'[d], mapped |-> Mentioned(d, store'[d]),
                       stamp |-> [v \in Workspace |-> IF <<d, v>> \in Mentioned(d, store'[d])
                                                      THEN edits' ELSE mem[d].stamp[v]]]
         /\ mem'[d].writer = d /\ mem'[d].at = edits' /\ mem'[d].tabs = store'[d]
         /\ mem'[d].mapped = Mentioned(d, store'[d])
         /\ \A e \in Device \ {d} : mem'[e] = mem[e] /\ store'[e] = store[e] /\ saving'[e] = saving[e]
         /\ store'[d] = [store[d] EXCEPT ![<<d, w>>] = edits']
         /\ saving'[d] = saving[d] + 1 /\ edits' = edits + 1 /\ edits \in Nat
         /\ last' = [last EXCEPT ![w] = edits'] /\ w \in known[d]
<1>1. mem' = [mem EXCEPT ![d] =
        [writer |-> d, at |-> edits', tabs |-> store'[d], mapped |-> Mentioned(d, store'[d]),
         stamp |-> [v \in Workspace |-> IF <<d, v>> \in Mentioned(d, store'[d])
                                        THEN edits' ELSE mem[d].stamp[v]]]]
  BY DEF Edit, TabsSet, TypeOK, Mentioned
<1>2. store' = [store EXCEPT ![d] = [store[d] EXCEPT ![<<d, w>>] = edits']]
  BY DEF Edit, TypeOK
<1>3. saving' = [saving EXCEPT ![d] = saving[d] + 1]
  BY DEF Edit, TypeOK
<1>4. mem'[d] = [writer |-> d, at |-> edits', tabs |-> store'[d], mapped |-> Mentioned(d, store'[d]),
                 stamp |-> [v \in Workspace |-> IF <<d, v>> \in Mentioned(d, store'[d])
                                                THEN edits' ELSE mem[d].stamp[v]]]
  BY <1>1 DEF TypeOK
<1>5. mem'[d].writer = d /\ mem'[d].at = edits' /\ mem'[d].tabs = store'[d]
      /\ mem'[d].mapped = Mentioned(d, store'[d])
  BY <1>4
<1>. QED  BY <1>1, <1>2, <1>3, <1>4, <1>5 DEF Edit, TypeOK

LEMMA ThemeMem ==
  ASSUME TypeOK, NEW d \in Device, ThemeSet(d)
  PROVE  /\ mem'[d] = [mem[d] EXCEPT !.writer = d, !.at = edits]
         /\ mem'[d].writer = d /\ mem'[d].at = edits
         /\ mem'[d].tabs = mem[d].tabs /\ mem'[d].stamp = mem[d].stamp /\ mem'[d].mapped = mem[d].mapped
         /\ \A e \in Device \ {d} : mem'[e] = mem[e] /\ saving'[e] = saving[e]
         /\ saving'[d] = saving[d] + 1
BY DEF ThemeSet, TypeOK, State

\* Only a write makes a record; every other step copies those there are.
LEMMA RecordsFrom ==
  ASSUME TypeOK, [Next]_vars, NEW e \in Device, NEW r \in Records(e)'
  PROVE  \/ \E x \in Device : r \in Records(x)
         \/ r = mem'[e] /\ ((\E w \in Workspace : Edit(e, w)) \/ ThemeSet(e))
<1>1. CASE UNCHANGED vars
  BY <1>1 DEF vars, Records, rendererVars, mainVars
<1>2. ASSUME NEW d \in Device, NEW w \in Workspace, Edit(d, w)
      PROVE  (\E x \in Device : r \in Records(x)) \/ (r = mem'[e] /\ e = d)
  <2>1. (\A x \in Device \ {d} : mem'[x] = mem[x]) /\ file' = file /\ updates' = updates
    BY <1>2, EditMem DEF Edit
  <2>. QED  BY <2>1 DEF Records
<1>3. ASSUME NEW d \in Device, ThemeSet(d)
      PROVE  (\E x \in Device : r \in Records(x)) \/ (r = mem'[e] /\ e = d)
  <2>1. (\A x \in Device \ {d} : mem'[x] = mem[x]) /\ file' = file /\ updates' = updates
    BY <1>3, ThemeMem DEF ThemeSet, rendererVars
  <2>. QED  BY <2>1 DEF Records
<1>4. ASSUME NEW d \in Device, Flush(d) \/ WatchRead(d) \/ \E x \in Device : Deliver(d, x)
      PROVE  \E x \in Device : r \in Records(x)
  BY <1>4 DEF Flush, WatchRead, Deliver, rendererVars, Records, TypeOK
<1>5. ASSUME NEW d \in Device,
             (\E u \in updates[d] : Resolve(d, u) \/ ResolveFails(d, u)) \/ \E m \in merges[d] : Apply(d, m)
      PROVE  \E x \in Device : r \in Records(x)
  BY <1>5 DEF Resolve, ResolveFails, Apply, mainVars, Records, TypeOK
<1>6. ASSUME NEW d \in Device, Reopen(d) \/ Restart(d) \/ \E w \in Workspace : CreateWorkspace(d, w)
      PROVE  \E x \in Device : r \in Records(x)
  BY <1>6 DEF Reopen, Restart, Hydrate, CreateWorkspace, mainVars, rendererVars, Records, TypeOK
<1>. QED  BY <1>1, <1>2, <1>3, <1>4, <1>5, <1>6 DEF Next

\* What the renderer of d has after a step, and where it comes from.
LEMMA RendererFrom ==
  ASSUME TypeOK, [Next]_vars, NEW d \in Device
  PROVE  /\ (\E w \in Workspace : Edit(d, w)) \/ store'[d] \in Maps(d)
         /\ \A w \in Workspace : \/ lastSeen'[d][w] \in {lastSeen[d][w], 0}
                               \/ \E u \in updates[d] : lastSeen'[d][w] = u.stamp[w]
         /\ \A m \in merges'[d] : m \in merges[d] \/ \E u \in updates[d] : m.tabs = Merged(d, u)
<1>1. CASE UNCHANGED vars
  BY <1>1 DEF vars, rendererVars, Maps
<1>2. ASSUME NEW x \in Device, NEW w \in Workspace, Edit(x, w)
      PROVE  store'[d] # store[d] => d = x
  BY <1>2, EditMem
<1>3. ASSUME NEW x \in Device,
             ThemeSet(x) \/ Flush(x) \/ WatchRead(x) \/ (\E y \in Device : Deliver(x, y))
               \/ \E w \in Workspace : Edit(x, w) \/ CreateWorkspace(x, w)
      PROVE  lastSeen' = lastSeen /\ merges' = merges
  BY <1>3 DEF Edit, ThemeSet, Flush, WatchRead, Deliver, CreateWorkspace, rendererVars
<1>4. ASSUME NEW x \in Device,
             ThemeSet(x) \/ Flush(x) \/ WatchRead(x) \/ (\E y \in Device : Deliver(x, y))
               \/ \E w \in Workspace : CreateWorkspace(x, w)
      PROVE  store' = store
  BY <1>4 DEF ThemeSet, Flush, WatchRead, Deliver, CreateWorkspace, rendererVars
<1>5. ASSUME NEW x \in Device, NEW u \in updates[x], Resolve(x, u) \/ ResolveFails(x, u)
      PROVE  /\ store' = store
             /\ \/ lastSeen'[d] = lastSeen[d]
                \/ x = d /\ \A w \in Workspace : lastSeen'[d][w] \in {u.stamp[w], lastSeen[d][w]}
             /\ \A m \in merges'[d] : m \in merges[d] \/ (x = d /\ m.tabs = Merged(d, u))
  BY <1>5 DEF Resolve, ResolveFails, TypeOK
<1>6. ASSUME NEW x \in Device, NEW m \in merges[x], Apply(x, m)
      PROVE  /\ lastSeen' = lastSeen /\ merges'[d] \subseteq merges[d]
             /\ store'[d] = store[d] \/ (x = d /\ store'[d] = m.tabs)
  BY <1>6 DEF Apply, TypeOK
<1>7. ASSUME NEW x \in Device, Reopen(x) \/ Restart(x)
      PROVE  /\ store'[d] \in {store[d], mem[d].tabs, file[d].tabs}
             /\ lastSeen'[d] = lastSeen[d] \/ lastSeen'[d] = [w \in Workspace |-> 0]
             /\ merges'[d] \subseteq merges[d]
  BY <1>7 DEF Reopen, Restart, Hydrate, TypeOK
<1>8. /\ store[d] \in Maps(d) /\ mem[d].tabs \in Maps(d) /\ file[d].tabs \in Maps(d)
      /\ \A m \in merges[d] : m.tabs \in Maps(d)
  BY DEF Maps, Records
<1>9. CASE \E x \in Device : (\E u \in updates[x] : Resolve(x, u) \/ ResolveFails(x, u))
                            \/ \E m \in merges[x] : Apply(x, m)
  BY <1>5, <1>6, <1>8, <1>9
<1>10. CASE \E x \in Device : Reopen(x) \/ Restart(x)
  BY <1>7, <1>8, <1>10
<1>11. CASE \E x \in Device : ThemeSet(x) \/ Flush(x) \/ WatchRead(x) \/ (\E y \in Device : Deliver(x, y))
              \/ \E w \in Workspace : Edit(x, w) \/ CreateWorkspace(x, w)
  BY <1>2, <1>3, <1>4, <1>8, <1>11
<1>. QED  BY <1>1, <1>9, <1>10, <1>11 DEF Next

\* Only a change counts, and only workspaces are added.
LEMMA CountersFrom ==
  ASSUME TypeOK, [Next]_vars
  PROVE  /\ \A d \in Device : known[d] \subseteq known'[d]
         /\ (\E d \in Device, w \in Workspace : Edit(d, w)) \/ (last' = last /\ edits' = edits)
<1>1. ASSUME NEW d \in Device, \E w \in Workspace : CreateWorkspace(d, w)
      PROVE  (\A x \in Device : known[x] \subseteq known'[x]) /\ last' = last /\ edits' = edits
  BY <1>1 DEF CreateWorkspace, TypeOK
<1>2. ASSUME NEW d \in Device,
             Flush(d) \/ WatchRead(d) \/ (\E x \in Device : Deliver(d, x)) \/ ThemeSet(d)
               \/ Reopen(d) \/ Restart(d) \/ (\E m \in merges[d] : Apply(d, m))
               \/ \E u \in updates[d] : Resolve(d, u) \/ ResolveFails(d, u)
      PROVE  known' = known /\ last' = last /\ edits' = edits
  BY <1>2 DEF Flush, WatchRead, Deliver, ThemeSet, Reopen, Restart, Apply, Resolve, ResolveFails, historyVars
<1>3. ASSUME NEW d \in Device, NEW w \in Workspace, Edit(d, w) PROVE known' = known
  BY <1>3 DEF Edit
<1>4. CASE UNCHANGED vars
  BY <1>4 DEF vars, historyVars
<1>. QED  BY <1>1, <1>2, <1>3, <1>4 DEF Next

LEMMA FitsLater ==
  ASSUME NEW t \in Content, NEW l \in [Workspace -> 0..MaxEdits], NEW m \in [Workspace -> 0..MaxEdits],
         NEW k, NEW j, Fits(t, l, k),
         \A w \in Workspace : l[w] <= m[w], \A d \in Device : k[d] \subseteq j[d]
  PROVE  Fits(t, m, j)
BY BoundsAssumption DEF Fits, Content, Id

\* The tabs that a change leaves in the store.
LEMMA EditFits ==
  ASSUME TypeOK, TypeOK', Bounded, NEW d \in Device, NEW w \in Workspace, Edit(d, w)
  PROVE  /\ Fits(store'[d], last', known') /\ known' = known
         /\ \A v \in Workspace : last[v] <= last'[v] /\ last'[v] <= edits'
<1>1. known' = known /\ \A v \in Workspace : last[v] <= last'[v] /\ last'[v] <= edits'
  BY EditMem DEF Edit, TypeOK, Bounded
<1>2. Fits(store[d], last, known)
  BY DEF Bounded, Maps
<1>3. Fits(store[d], last', known')
  BY <1>1, <1>2, FitsLater DEF TypeOK
<1>4. ASSUME NEW i \in Id PROVE store'[d][i] <= last'[i[2]] /\ (store'[d][i] > 0 => i[2] \in known'[i[1]])
  <2>1. CASE i = <<d, w>>
    <3>1. store'[d] = [store[d] EXCEPT ![<<d, w>>] = edits'] /\ last' = [last EXCEPT ![w] = edits']
      BY EditMem
    <3>2. store[d] \in Content /\ <<d, w>> \in Id
      BY DEF TypeOK, Id
    <3>3. store'[d][i] = edits' /\ last'[w] = edits'
      BY <2>1, <3>1, <3>2 DEF TypeOK, Content
    <3>4. w \in known[d] /\ edits' = edits + 1 /\ edits \in Nat
      BY EditMem
    <3>. QED  BY <1>1, <2>1, <3>3, <3>4
  <2>2. CASE i # <<d, w>>
    <3>1. store'[d] = [store[d] EXCEPT ![<<d, w>>] = edits'] /\ store[d] \in Content
      BY EditMem DEF TypeOK
    <3>2. store'[d][i] = store[d][i]
      BY <2>2, <3>1 DEF Content
    <3>. QED  BY <1>3, <3>2 DEF Fits
  <2>. QED  BY <2>1, <2>2
<1>. QED  BY <1>1, <1>4 DEF Fits

\* The tabs of a merge: the store's, with what the peer has of workspaces here.
LEMMA MergedFits ==
  ASSUME TypeOK, Bounded, NEW d \in Device, NEW u \in updates[d]
  PROVE  Fits(Merged(d, u), last, known)
<1>1. u \in State /\ Fits(u.tabs, last, known) /\ Fits(store[d], last, known)
  BY DEF Bounded, Maps, Records, TypeOK
<1>2. ASSUME NEW v \in Workspace PROVE PeerTabs(u, v) <= last[v]
  <2>. DEFINE ids == {i \in u.mapped : i[2] = v}
  <2>1. CASE ids = {}
    BY <2>1, BoundsAssumption DEF PeerTabs, TypeOK
  <2>2. CASE ids # {}
    <3>1. (CHOOSE i \in ids : TRUE) \in ids
      BY <2>2
    <3>2. (CHOOSE i \in ids : TRUE) \in Id
      BY <1>1, <3>1 DEF State
    <3>. QED  BY <1>1, <2>2, <3>1, <3>2 DEF PeerTabs, Fits
  <2>. QED  BY <2>1, <2>2
<1>3. ASSUME NEW i \in Id
      PROVE  Merged(d, u)[i] <= last[i[2]] /\ (Merged(d, u)[i] > 0 => i[2] \in known[i[1]])
  <2>1. CASE i[1] = d /\ i[2] \in Winning(d, u)
    <3>1. i[2] \in known[d] /\ i[2] \in Workspace
      BY <2>1 DEF Winning, Id
    <3>. QED  BY <1>2, <2>1, <3>1 DEF Merged
  <2>2. CASE ~(i[1] = d /\ i[2] \in Winning(d, u))
    BY <1>1, <2>2 DEF Merged, Fits
  <2>. QED  BY <2>1, <2>2
<1>. QED  BY <1>3 DEF Fits

LEMMA BoundedInit == Init => Bounded
<1> SUFFICES ASSUME Init PROVE Bounded
  OBVIOUS
<1>1. ASSUME NEW d \in Device PROVE Maps(d) = {[i \in Id |-> 0]} /\ Records(d) = {Nothing(d)}
  BY <1>1 DEF Init, Maps, Records, Nothing
<1>2. Fits([i \in Id |-> 0], last, known)
  BY DEF Fits, Init, Id
<1>3. \A d \in Device : Dated(Nothing(d), edits)
  BY DEF Dated, Nothing, Init
<1>4. \A d \in Device, w \in Workspace : lastSeen[d][w] <= edits
  BY DEF Init
<1>5. \A w \in Workspace : last[w] <= edits
  BY DEF Init
<1>. QED  BY <1>1, <1>2, <1>3, <1>4, <1>5 DEF Bounded

LEMMA BoundedNext == TypeOK /\ Bounded /\ [Next]_vars => Bounded'
<1> SUFFICES ASSUME TypeOK, Bounded, [Next]_vars PROVE Bounded'
  OBVIOUS
<1>. TypeOK'
  BY TypeNext
<1>1. /\ \A w \in Workspace : last[w] <= last'[w] /\ last'[w] <= edits'
      /\ \A d \in Device : known[d] \subseteq known'[d]
      /\ edits <= edits'
  <2>1. ASSUME NEW d \in Device, NEW w \in Workspace, Edit(d, w)
        PROVE  edits <= edits' /\ \A v \in Workspace : last[v] <= last'[v] /\ last'[v] <= edits'
    <3>1. edits' = edits + 1 /\ edits \in Nat
      BY <2>1, EditMem
    <3>. QED  BY <2>1, <3>1, EditFits
  <2>2. ASSUME last' = last, edits' = edits
        PROVE  edits <= edits' /\ \A v \in Workspace : last[v] <= last'[v] /\ last'[v] <= edits'
    <3>1. edits \in Nat /\ \A v \in Workspace : last[v] \in Nat
      BY BoundsAssumption DEF TypeOK
    <3>2. \A v \in Workspace : last[v] <= edits
      BY DEF Bounded
    <3>. QED  BY <2>2, <3>1, <3>2
  <2>. QED  BY <2>1, <2>2, CountersFrom
<1>2. ASSUME NEW t \in Content, Fits(t, last, known) PROVE Fits(t, last', known')
  BY <1>1, <1>2, FitsLater DEF TypeOK
<1>3. ASSUME NEW d \in Device, NEW w \in Workspace PROVE lastSeen'[d][w] <= edits'
  <2>1. CASE lastSeen'[d][w] \in {lastSeen[d][w], 0}
    BY <1>1, <2>1, BoundsAssumption DEF Bounded, TypeOK
  <2>2. CASE \E u \in updates[d] : lastSeen'[d][w] = u.stamp[w]
    <3>1. PICK u \in updates[d] : lastSeen'[d][w] = u.stamp[w]
      BY <2>2
    <3>2. u \in State /\ u.stamp[w] <= edits
      BY DEF Bounded, Records, Dated, TypeOK
    <3>. QED  BY <1>1, <3>1, <3>2 DEF State, TypeOK
  <2>. QED  BY <2>1, <2>2, RendererFrom
<1>4. ASSUME NEW d \in Device, NEW r \in Records(d)'
      PROVE  Dated(r, edits') /\ Fits(r.tabs, last', known')
  <2>1. CASE \E x \in Device : r \in Records(x)
    <3>1. Dated(r, edits) /\ Fits(r.tabs, last, known) /\ r \in State
      BY <2>1 DEF Bounded, Records, Maps, TypeOK
    <3>2. r.tabs \in Content /\ r.at \in Nat /\ \A w \in Workspace : r.stamp[w] \in Nat
      BY <3>1 DEF State
    <3>. QED  BY <1>1, <1>2, <3>1, <3>2 DEF Dated, TypeOK
  <2>2. ASSUME NEW w \in Workspace, Edit(d, w), r = mem'[d] PROVE Dated(r, edits') /\ Fits(r.tabs, last', known')
    <3>. DEFINE named == Mentioned(d, store'[d])
    <3>1. r = [writer |-> d, at |-> edits', tabs |-> store'[d], mapped |-> named,
               stamp |-> [v \in Workspace |-> IF <<d, v>> \in named THEN edits' ELSE mem[d].stamp[v]]]
      BY <2>2, EditMem
    <3>2. /\ r.at = edits' /\ r.tabs = store'[d]
          /\ \A v \in Workspace : r.stamp[v] = edits' \/ r.stamp[v] = mem[d].stamp[v]
      BY <3>1
    <3>3. \A v \in Workspace : mem[d].stamp[v] <= edits /\ mem[d].stamp[v] \in Nat
      BY DEF Bounded, Records, Dated, TypeOK, State
    <3>4. \A v \in Workspace : r.stamp[v] <= edits'
      <4>. SUFFICES ASSUME NEW v \in Workspace PROVE r.stamp[v] <= edits'
        OBVIOUS
      <4>1. edits \in Nat /\ edits' \in Nat /\ edits <= edits'
        BY <1>1 DEF TypeOK
      <4>2. mem[d].stamp[v] <= edits'
        BY <3>3, <4>1
      <4>. QED  BY <3>2, <4>1, <4>2
    <3>5. Fits(store'[d], last', known')
      BY <2>2, EditFits
    <3>. QED  BY <3>2, <3>4, <3>5 DEF Dated, TypeOK
  <2>3. CASE ThemeSet(d) /\ r = mem'[d]
    <3>1. r.at = edits /\ r.tabs = mem[d].tabs /\ r.stamp = mem[d].stamp /\ edits' = edits /\ mem[d] \in State
      BY <2>3, ThemeMem DEF ThemeSet, TypeOK
    <3>2. Dated(mem[d], edits) /\ Fits(mem[d].tabs, last, known) /\ mem[d].tabs \in Content
      BY <3>1 DEF Bounded, Records, Maps, State
    <3>. QED  BY <1>2, <3>1, <3>2 DEF Dated, TypeOK
  <2>. QED  BY <2>1, <2>2, <2>3, RecordsFrom
<1>5. ASSUME NEW d \in Device PROVE Fits(store'[d], last', known')
  <2>1. CASE \E w \in Workspace : Edit(d, w)
    BY <2>1, EditFits
  <2>2. CASE store'[d] \in Maps(d)
    <3>1. Fits(store'[d], last, known) /\ store'[d] \in Content
      BY <2>2 DEF Bounded, TypeOK
    <3>. QED  BY <1>2, <3>1
  <2>. QED  BY <2>1, <2>2, RendererFrom
<1>6. ASSUME NEW d \in Device, NEW m \in merges'[d] PROVE Fits(m.tabs, last', known')
  <2>1. CASE m \in merges[d]
    <3>1. Fits(m.tabs, last, known) /\ m.tabs \in Content
      BY <2>1 DEF Bounded, Maps, TypeOK
    <3>. QED  BY <1>2, <3>1
  <2>2. CASE \E u \in updates[d] : m.tabs = Merged(d, u)
    <3>1. Fits(m.tabs, last, known) /\ m.tabs \in Content
      BY <2>2, MergedFits, MergedType DEF TypeOK
    <3>. QED  BY <1>2, <3>1
  <2>. QED  BY <2>1, <2>2, RendererFrom
<1>. QED  BY <1>1, <1>3, <1>4, <1>5, <1>6 DEF Bounded, Maps

\* What a change writes maps and stamps what its device has tabs of.
LEMMA EditOwn ==
  ASSUME TypeOK, TypeOK', Bounded, NEW d \in Device, NEW w \in Workspace, Edit(d, w),
         Own(mem[d], d, known[d])
  PROVE  Own(mem'[d], d, known'[d])
<1>. DEFINE named == Mentioned(d, store'[d])
            r == [writer |-> d, at |-> edits', tabs |-> store'[d], mapped |-> named,
                  stamp |-> [v \in Workspace |-> IF <<d, v>> \in named THEN edits' ELSE mem[d].stamp[v]]]
<1>1. mem'[d] = r /\ edits' = edits + 1 /\ edits \in Nat
  BY EditMem
<1>2. Fits(store'[d], last', known') /\ known' = known
  BY EditFits
<1>3. named \subseteq {d} \X known[d]
  BY DEF Mentioned, Id
<1>4. ASSUME NEW v \in Workspace
      PROVE  /\ store'[d][<<d, v>>] > 0 => <<d, v>> \in named
             /\ <<d, v>> \in named => r.stamp[v] > 0
             /\ r.stamp[v] > 0 => v \in known[d]
  <2>1. <<d, v>> \in Id
    BY DEF Id
  <2>2. store'[d][<<d, v>>] > 0 => v \in known[d]
    BY <1>2, <2>1 DEF Fits
  <2>3. store'[d][<<d, v>>] > 0 => <<d, v>> \in named
    BY <2>1, <2>2 DEF Mentioned
  <2>4. <<d, v>> \in named => r.stamp[v] > 0 /\ v \in known[d]
    BY <1>1, <1>3
  <2>5. <<d, v>> \notin named => r.stamp[v] = mem[d].stamp[v]
    OBVIOUS
  <2>6. mem[d].stamp[v] > 0 => v \in known[d]
    BY DEF Own
  <2>. QED  BY <2>3, <2>4, <2>5, <2>6
<1>5. r.tabs = store'[d] /\ r.mapped = named
  OBVIOUS
<1>. QED  BY <1>1, <1>2, <1>3, <1>4, <1>5 DEF Own

LEMMA OwnInit == Init => OwnInv
<1> SUFFICES ASSUME Init PROVE OwnInv
  OBVIOUS
<1>1. \A e \in Device : mem[e] = Nothing(e) /\ Records(e) = {Nothing(e)}
  BY DEF Init, Records
<1>2. \A e \in Device : Nothing(e).writer = e /\ Own(Nothing(e), e, known[e])
  BY DEF Nothing, Own, Id
<1>. QED  BY <1>1, <1>2 DEF OwnInv

\* Who has written what main has.
LEMMA WriterFrom ==
  ASSUME TypeOK, [Next]_vars, NEW d \in Device
  PROVE  /\ adopted \subseteq adopted'
         /\ mem'[d] = mem[d] \/ mem'[d].writer = d \/ d \in adopted'
<1>1. ASSUME NEW x \in Device, NEW w \in Workspace, Edit(x, w)
      PROVE  adopted' = adopted /\ (mem'[d] = mem[d] \/ mem'[d].writer = d)
  <2>1. mem'[x].writer = x
    BY <1>1, EditMem
  <2>2. \A e \in Device \ {x} : mem'[e] = mem[e]
    BY <1>1, EditMem
  <2>. QED  BY <1>1, <2>1, <2>2 DEF Edit
<1>2. ASSUME NEW x \in Device, ThemeSet(x)
      PROVE  adopted' = adopted /\ (mem'[d] = mem[d] \/ mem'[d].writer = d)
  <2>1. mem'[x].writer = x
    BY <1>2, ThemeMem
  <2>2. \A e \in Device \ {x} : mem'[e] = mem[e]
    BY <1>2, ThemeMem
  <2>. QED  BY <1>2, <2>1, <2>2 DEF ThemeSet
<1>3. ASSUME NEW x \in Device, Restart(x)
      PROVE  adopted \subseteq adopted' /\ (mem'[d] = mem[d] \/ mem'[d].writer = d \/ d \in adopted')
  BY <1>3 DEF Restart, TypeOK
<1>4. ASSUME NEW x \in Device,
             Flush(x) \/ WatchRead(x) \/ (\E y \in Device : Deliver(x, y)) \/ Reopen(x)
               \/ (\E m \in merges[x] : Apply(x, m)) \/ (\E w \in Workspace : CreateWorkspace(x, w))
               \/ \E u \in updates[x] : Resolve(x, u) \/ ResolveFails(x, u)
      PROVE  adopted' = adopted /\ mem' = mem
  BY <1>4 DEF Flush, WatchRead, Deliver, Reopen, Apply, CreateWorkspace, Resolve, ResolveFails,
              mainVars, historyVars
<1>5. CASE UNCHANGED vars
  BY <1>5 DEF vars, mainVars, historyVars
<1>. QED  BY <1>1, <1>2, <1>3, <1>4, <1>5 DEF Next

LEMMA OwnNext == TypeOK /\ Bounded /\ OwnInv /\ [Next]_vars => OwnInv'
<1> SUFFICES ASSUME TypeOK, Bounded, OwnInv, [Next]_vars, NEW d \in Device, d \notin adopted'
             PROVE  /\ mem'[d].writer = d
                    /\ \A e \in Device : \A r \in Records(e)' : r.writer = d => Own(r, d, known'[d])
  BY DEF OwnInv
<1>. TypeOK'
  BY TypeNext
<1>1. d \notin adopted
  BY WriterFrom
<1>2. mem[d].writer = d /\ Own(mem[d], d, known[d])
  BY <1>1 DEF OwnInv, Records
<1>3. mem'[d].writer = d
  BY <1>2, WriterFrom
<1>4. ASSUME NEW e \in Device, NEW r \in Records(e)', r.writer = d PROVE Own(r, d, known'[d])
  <2>1. CASE \E x \in Device : r \in Records(x)
    <3>1. Own(r, d, known[d])
      BY <1>1, <1>4, <2>1 DEF OwnInv
    <3>2. known[d] \subseteq known'[d]
      BY CountersFrom
    <3>. QED  BY <3>1, <3>2 DEF Own
  <2>2. ASSUME NEW w \in Workspace, Edit(e, w), r = mem'[e] PROVE Own(r, d, known'[d])
    <3>1. mem'[e].writer = e
      BY <2>2, EditMem
    <3>. QED  BY <1>2, <1>4, <2>2, <3>1, EditOwn
  <2>3. CASE ThemeSet(e) /\ r = mem'[e]
    <3>1. /\ mem'[e].writer = e /\ known' = known
          /\ mem'[e].tabs = mem[e].tabs /\ mem'[e].stamp = mem[e].stamp /\ mem'[e].mapped = mem[e].mapped
      BY <2>3, ThemeMem DEF ThemeSet
    <3>. QED  BY <1>2, <1>4, <2>3, <3>1 DEF Own
  <2>. QED  BY <2>1, <2>2, <2>3, RecordsFrom
<1>. QED  BY <1>3, <1>4

LEMMA VersionInit == Init => VersionInv
BY DEF Init, VersionInv, Nothing

\* What a flush adds to what is fresh, and what a copy leaves.
LEMMA VersionFiles ==
  ASSUME TypeOK, VersionInv, NEW d \in Device, Flush(d) \/ \E e \in Device : Deliver(d, e)
  PROVE  VersionInv'
<1>1. CASE Flush(d)
  <2>1. /\ mem' = mem /\ file' = [file EXCEPT ![d] = mem[d]] /\ saving[d] > 0
        /\ fresh' = fresh \cup {<<d, e>> : e \in Device \ {d}}
        /\ \A x \in Device : saving'[x] > 0 => saving[x] > 0
    BY <1>1 DEF Flush, TypeOK
  <2>2. mem[d].writer = d /\ \A x \in Device : file[x].writer = d => file[x].at <= mem[d].at
    BY <2>1 DEF VersionInv
  <2>3. file'[d] = mem[d] /\ (\A x \in Device \ {d} : file'[x] = file[x]) /\ mem[d].at \in Nat
    BY <2>1, BoundsAssumption DEF TypeOK, State
  <2>4. ASSUME NEW x \in Device, saving'[x] > 0, NEW y \in Device, file'[y].writer = x
        PROVE  mem'[x].writer = x /\ file'[y].at <= mem'[x].at
    BY <2>1, <2>2, <2>3, <2>4 DEF VersionInv
  <2>5. ASSUME NEW x \in Device, saving'[x] > 0 PROVE mem'[x].writer = x
    BY <2>1, <2>5 DEF VersionInv
  <2>6. ASSUME NEW x \in Device, NEW y \in Device, <<x, y>> \notin fresh', file'[x].writer = file'[y].writer
        PROVE  file'[x].at <= file'[y].at
    <3>1. <<x, y>> \notin fresh /\ (x # d \/ y = d)
      BY <2>1, <2>6
    <3>2. CASE x # d /\ y = d
      BY <2>2, <2>3, <2>6, <3>2
    <3>3. CASE x # d /\ y # d
      BY <2>3, <2>6, <3>1, <3>3 DEF VersionInv
    <3>. QED  BY <2>3, <3>1, <3>2, <3>3
  <2>7. ASSUME NEW x \in Device, NEW y \in Device, <<x, y>> \notin fresh', <<y, x>> \notin fresh',
               NEW z \in Device, <<x, z>> \in fresh'
        PROVE  file'[x] = file'[y]
    <3>1. x = y \/ (x # d /\ y # d /\ <<x, y>> \notin fresh /\ <<y, x>> \notin fresh)
      BY <2>1, <2>7
    <3>2. CASE x # y
      <4>1. <<x, z>> \in fresh
        BY <2>1, <2>7, <3>1, <3>2
      <4>. QED  BY <2>3, <3>1, <3>2, <4>1 DEF VersionInv
    <3>. QED  BY <3>2
  <2>. QED  BY <2>4, <2>5, <2>6, <2>7 DEF VersionInv
<1>2. ASSUME NEW e \in Device, Deliver(d, e) PROVE VersionInv'
  <2>. DEFINE origin(x) == IF x = e THEN d ELSE x
  <2>1. /\ mem' = mem /\ saving' = saving
        /\ \A x \in Device : origin(x) \in Device /\ file'[x] = file[origin(x)]
        /\ \A x, y \in Device : <<x, y>> \in fresh' <=> <<origin(x), origin(y)>> \in fresh
    BY <1>2 DEF Deliver, TypeOK
  <2>. HIDE DEF origin
  <2>2. ASSUME NEW x \in Device, saving'[x] > 0
        PROVE  mem'[x].writer = x /\ \A y \in Device : file'[y].writer = x => file'[y].at <= mem'[x].at
    <3>1. mem[x].writer = x /\ \A y \in Device : file[y].writer = x => file[y].at <= mem[x].at
      BY <2>1, <2>2 DEF VersionInv
    <3>. QED  BY <2>1, <3>1
  <2>3. ASSUME NEW x \in Device, NEW y \in Device, <<x, y>> \notin fresh'
        PROVE  /\ file'[x].writer = file'[y].writer => file'[x].at <= file'[y].at
               /\ \A z \in Device : <<x, z>> \in fresh' /\ <<y, x>> \notin fresh' => file'[x] = file'[y]
    <3>1. <<origin(x), origin(y)>> \notin fresh
      BY <2>1, <2>3
    <3>2. file[origin(x)].writer = file[origin(y)].writer => file[origin(x)].at <= file[origin(y)].at
      BY <2>1, <3>1 DEF VersionInv
    <3>3. \A z \in Device : <<origin(x), z>> \in fresh /\ <<origin(y), origin(x)>> \notin fresh
                               => file[origin(x)] = file[origin(y)]
      BY <2>1, <3>1 DEF VersionInv
    <3>. QED  BY <2>1, <3>2, <3>3
  <2>. QED  BY <2>2, <2>3 DEF VersionInv
<1>. QED  BY <1>1, <1>2

LEMMA VersionNext == TypeOK /\ Bounded /\ VersionInv /\ [Next]_vars => VersionInv'
<1> SUFFICES ASSUME TypeOK, Bounded, VersionInv, [Next]_vars PROVE VersionInv'
  OBVIOUS
<1>1. \A x \in Device : file[x].at <= edits /\ file[x].at \in Nat
  BY BoundsAssumption DEF Bounded, Records, Dated, TypeOK, State
<1>2. ASSUME NEW d \in Device, NEW w \in Workspace, Edit(d, w) PROVE VersionInv'
  <2>1. mem'[d].writer = d /\ mem'[d].at = edits'
    BY <1>2, EditMem
  <2>2. edits' = edits + 1 /\ edits \in Nat /\ \A x \in Device \ {d} : mem'[x] = mem[x] /\ saving'[x] = saving[x]
    BY <1>2, EditMem
  <2>3. file' = file /\ fresh' = fresh
    BY <1>2 DEF Edit
  <2>. QED  BY <1>1, <2>1, <2>2, <2>3 DEF VersionInv
<1>3. ASSUME NEW d \in Device, ThemeSet(d) PROVE VersionInv'
  <2>1. mem'[d].writer = d /\ mem'[d].at = edits /\ \A x \in Device \ {d} : mem'[x] = mem[x] /\ saving'[x] = saving[x]
    BY <1>3, ThemeMem
  <2>2. file' = file /\ fresh' = fresh
    BY <1>3 DEF ThemeSet
  <2>. QED  BY <1>1, <2>1, <2>2 DEF VersionInv
<1>4. ASSUME NEW d \in Device, Restart(d) PROVE VersionInv'
  <2>1. file' = file /\ fresh' = fresh /\ saving'[d] = 0
        /\ \A x \in Device \ {d} : mem'[x] = mem[x] /\ saving'[x] = saving[x]
    BY <1>4 DEF Restart, TypeOK
  <2>. QED  BY <2>1 DEF VersionInv
<1>5. ASSUME NEW x \in Device,
             WatchRead(x) \/ Reopen(x) \/ (\E m \in merges[x] : Apply(x, m))
               \/ (\E w \in Workspace : CreateWorkspace(x, w))
               \/ \E u \in updates[x] : Resolve(x, u) \/ ResolveFails(x, u)
      PROVE  VersionInv'
  <2>1. mem' = mem /\ saving' = saving /\ file' = file /\ fresh' = fresh
    BY <1>5 DEF WatchRead, Reopen, Apply, CreateWorkspace, Resolve, ResolveFails, mainVars
  <2>. QED  BY <2>1 DEF VersionInv
<1>6. CASE UNCHANGED vars
  BY <1>6 DEF vars, mainVars, VersionInv
<1>. QED  BY <1>2, <1>3, <1>4, <1>5, <1>6, VersionFiles DEF Next

\* What waits to be read or resolved at c, and all that is on its way from a.
Pending(c) == updates[c] \cup {r \in {file[c]} : c \in noticed}
Sent == {file[pair[1]] : pair \in fresh}
Active(a) == Sent \cup UNION {Pending(c) : c \in Device \ {a}}

\* The store of c has the last change of v, or will have it from its merge.
Basic(c, v) ==
  /\ \A m \in merges[c] : m.tabs[<<c, v>>] = last[v]
  /\ merges[c] = {} => store[c][<<c, v>>] = last[v]

\* The writes of a since time th have the last change of v and stamp it with si or
\* later; those before are stamped earlier.
Newer(r, v, th, si) == r.at >= th /\ PeerTabs(r, v) = last[v] /\ r.stamp[v] >= si
Older(r, v, th, si) == r.at < th /\ r.stamp[v] < si

\* The change of a is in its main process alone.
Unflushed(a) ==
  /\ saving[a] > 0 /\ mem[a].tabs = store[a]
  /\ \A x \in Device : file[x].tabs # store[a] /\ (file[x].writer = a => file[x].at < mem[a].at)

\* Nothing on its way says anything of v, and every device has its last change.
Mute(a, v) ==
  /\ \/ saving[a] = 0 /\ Active(a) = {}
     \/ /\ v \notin known[a] /\ \A r \in Active(a) : r.stamp[v] = 0
        /\ saving[a] > 0 => mem[a].stamp[v] = 0
  /\ \A c \in Device : v \in known[c] => Basic(c, v)

\* A newer file is to be flushed, resolved or copied to c, and will win there.
Coming(a, c, v, th, si) ==
  /\ lastSeen[c][v] < si
  /\ \/ Unflushed(a)
     \/ \E r \in Pending(c) : r.at >= th
     \/ \E x \in Device : <<x, c>> \in fresh /\ file[x].at >= th /\ (file[c].writer = a => file[x].at > file[c].at)

\* c has the last change, and no older file can win there any more.
InHand(a, c, v, th) ==
  /\ Basic(c, v)
  /\ \A r \in Pending(c) : r.stamp[v] > lastSeen[c][v] => r.at >= th
  /\ \/ file[c].writer = a /\ file[c].at >= th
     \/ \A r \in Active(a) : r.at >= th \/ r.stamp[v] = 0

\* The writes of a since th bring the last change of v to every device.
Loud(a, v, th, si) ==
  /\ si > 0 /\ Newer(mem[a], v, th, si)
  /\ \A r \in Active(a) : Newer(r, v, th, si) \/ Older(r, v, th, si)
  /\ Unflushed(a) \/ Active(a) = {} \/ (file[a].writer = a /\ Newer(file[a], v, th, si))
  /\ \A c \in Device \ {a} : \A u \in updates[c] : u.at >= th => file[c].writer = a /\ file[c].at >= th
  /\ \A c \in Device \ {a} : v \in known[c] => Coming(a, c, v, th, si) \/ InHand(a, c, v, th)

Settled(a, v) ==
  /\ Alone(a)
  /\ v \in known[a] => store[a][<<a, v>>] = last[v]
  /\ Mute(a, v) \/ \E th, si \in 0..MaxEdits : Loud(a, v, th, si)

SyncInv == \A v \in Workspace \ doubt : last[v] > 0 => \E a \in Device : Settled(a, v)

ShownInv == TypeOK /\ Bounded /\ OwnInv /\ VersionInv /\ SyncInv

\* All that is on its way has been written by its author.
LEMMA ActiveWriter ==
  ASSUME TypeOK, NEW a \in Device, Alone(a), NEW r \in Active(a)
  PROVE  r \in State /\ r.writer = a
<1>1. CASE r \in Sent
  BY <1>1 DEF Sent, Alone, TypeOK
<1>2. ASSUME NEW c \in Device \ {a}, r \in Pending(c) PROVE r \in State /\ r.writer = a
  BY <1>2 DEF Pending, Alone, TypeOK
<1>. QED  BY <1>1, <1>2 DEF Active

\* Of two files of one writer, the one that may be copied over the other is no older.
LEMMA CopyIsLater ==
  ASSUME TypeOK, VersionInv, NEW d \in Device, NEW e \in Device,
         <<e, d>> \in fresh => file[d].at >= file[e].at,
         file[d].writer = file[e].writer
  PROVE  file[d].at >= file[e].at
<1>1. <<e, d>> \notin fresh => file[e].at <= file[d].at
  BY DEF VersionInv
<1>. QED  BY <1>1 DEF TypeOK, State

\* A file that is on its way and lacks nothing of c's is no later than c's.
LEMMA NoNews ==
  ASSUME TypeOK, VersionInv, NEW a \in Device, Alone(a), NEW d \in Device, NEW e \in Device,
         <<d, e>> \in fresh, NEW c \in Device, <<d, c>> \notin fresh
  PROVE  file[c].writer = a /\ file[d].at <= file[c].at
<1>1. file[d].writer = a
  BY DEF Alone
<1>2. CASE <<c, d>> \in fresh
  <2>1. file[c].writer = a
    BY <1>2 DEF Alone
  <2>. QED  BY <1>1, <2>1 DEF VersionInv
<1>3. CASE <<c, d>> \notin fresh
  <2>1. file[d] = file[c]
    BY <1>3 DEF VersionInv
  <2>2. file[d].at \in Nat
    BY BoundsAssumption DEF TypeOK, State
  <2>. QED  BY <1>1, <2>1, <2>2
<1>. QED  BY <1>2, <1>3

\* With nothing on its way and nothing to write, every device has the last change.
LEMMA AllHave ==
  ASSUME TypeOK, NEW a \in Device, NEW v \in Workspace, Settled(a, v),
         ~Unflushed(a), Active(a) = {}, NEW c \in Device, v \in known[c]
  PROVE  Basic(c, v)
<1>1. CASE Mute(a, v)
  BY <1>1 DEF Mute
<1>2. CASE c = a
  BY <1>2 DEF Settled, Alone, Arriving, Basic
<1>3. ASSUME c # a, NEW th, NEW si, Loud(a, v, th, si) PROVE Basic(c, v)
  <2>1. Pending(c) = {} /\ Sent = {}
    BY <1>3 DEF Active
  <2>2. fresh = {}
    BY <2>1 DEF Sent
  <2>3. Coming(a, c, v, th, si) \/ InHand(a, c, v, th)
    BY <1>3 DEF Loud
  <2>. QED  BY <2>1, <2>2, <2>3 DEF Coming, InHand
<1>. QED  BY <1>1, <1>2, <1>3 DEF Settled

\* The invariant, where nothing is on its way, says what is shown.
LEMMA ShownThen == ShownInv => LastEditShown
<1> SUFFICES ASSUME ShownInv, Calm, NEW d \in Device, NEW w \in known[d] \ doubt
             PROVE  store[d][<<d, w>>] = last[w]
  BY DEF LastEditShown
<1>. TypeOK
  BY DEF ShownInv
<1>1. w \in Workspace /\ <<d, w>> \in Id
  BY DEF TypeOK, Id
<1>2. CASE last[w] = 0
  <2>1. Fits(store[d], last, known) /\ store[d] \in Content
    BY DEF ShownInv, Bounded, Maps, TypeOK
  <2>2. store[d][<<d, w>>] <= last[w] /\ store[d][<<d, w>>] \in Nat
    BY <1>1, <2>1, BoundsAssumption DEF Fits, Content
  <2>. QED  BY <1>2, <2>2
<1>3. CASE last[w] > 0
  <2>1. PICK a \in Device : Settled(a, w)
    BY <1>1, <1>3 DEF ShownInv, SyncInv
  <2>2. Alone(a)
    BY <2>1 DEF Settled
  <2>3. ASSUME NEW c \in Device \ {a} PROVE Pending(c) = {}
    <3>1. updates[c] = {} /\ (c \in noticed => file[c].writer = c)
      BY DEF Calm, Arriving
    <3>2. c \notin noticed
      BY <2>2, <3>1 DEF Alone
    <3>. QED  BY <3>1, <3>2 DEF Pending
  <2>4. Active(a) = {} /\ ~Unflushed(a)
    BY <2>3 DEF Active, Sent, Calm, Unflushed
  <2>5. Basic(d, w) /\ merges[d] = {}
    BY <1>1, <2>1, <2>4, AllHave DEF Calm, Arriving
  <2>. QED  BY <2>5 DEF Basic
<1>. QED  BY <1>1, <1>2, <1>3, BoundsAssumption DEF TypeOK

\* A step that leaves the author and the files alone, and brings c no further away from
\* the last change.
LEMMA SettledKeep ==
  ASSUME TypeOK, NEW a \in Device, NEW v \in Workspace, Settled(a, v), Alone(a)',
         mem'[a] = mem[a], saving'[a] = saving[a], store'[a] = store[a],
         file' = file, fresh' = fresh, last' = last,
         \A c \in Device : v \in known'[c] <=> v \in known[c],
         \A r : r \in Active(a)' => r \in Active(a),
         \A c \in Device \ {a} : \A u \in updates'[c] : u \in updates[c] \/ u = file[c],
         \A c \in Device : Mute(a, v) /\ v \in known[c] /\ Basic(c, v) => Basic(c, v)',
         \A c \in Device \ {a}, th, si \in 0..MaxEdits : Loud(a, v, th, si) /\ v \in known[c]
           => Coming(a, c, v, th, si)' \/ InHand(a, c, v, th)'
  PROVE  Settled(a, v)'
<1>1. ASSUME Mute(a, v) PROVE Mute(a, v)'
  <2>1. ASSUME saving[a] = 0, Active(a) = {} PROVE saving'[a] = 0 /\ Active(a)' = {}
    BY <2>1
  <2>2. ASSUME v \notin known[a], \A r \in Active(a) : r.stamp[v] = 0, saving[a] > 0 => mem[a].stamp[v] = 0
        PROVE  /\ v \notin known'[a] /\ \A r \in Active(a)' : r.stamp[v] = 0
               /\ saving'[a] > 0 => mem'[a].stamp[v] = 0
    BY <2>2
  <2>3. \A c \in Device : v \in known'[c] => Basic(c, v)'
    BY <1>1 DEF Mute
  <2>. QED  BY <1>1, <2>1, <2>2, <2>3 DEF Mute
<1>2. ASSUME NEW th \in 0..MaxEdits, NEW si \in 0..MaxEdits, Loud(a, v, th, si) PROVE Loud(a, v, th, si)'
  <2>1. si > 0 /\ Newer(mem[a], v, th, si)'
    BY <1>2 DEF Loud, Newer, PeerTabs
  <2>2. (\A r \in Active(a) : Newer(r, v, th, si) \/ Older(r, v, th, si))'
    BY <1>2 DEF Loud, Newer, Older, PeerTabs
  <2>3. (Unflushed(a) \/ Active(a) = {} \/ (file[a].writer = a /\ Newer(file[a], v, th, si)))'
    BY <1>2 DEF Loud, Newer, PeerTabs, Unflushed
  <2>4. (\A c \in Device \ {a} : \A u \in updates[c] : u.at >= th => file[c].writer = a /\ file[c].at >= th)'
    <3>1. \A c \in Device \ {a} : \A u \in updates'[c] : u.writer = a
      BY DEF Alone
    <3>. QED  BY <1>2, <3>1 DEF Loud
  <2>5. (\A c \in Device \ {a} : v \in known[c] => Coming(a, c, v, th, si) \/ InHand(a, c, v, th))'
    BY <1>2
  <2>. QED  BY <2>1, <2>2, <2>3, <2>4, <2>5 DEF Loud
<1>3. (v \in known[a] => store[a][<<a, v>>] = last[v])'
  BY DEF Settled
<1>. QED  BY <1>1, <1>2, <1>3 DEF Settled

\* What is true of c stays true when nothing that concerns it changes.
LEMMA ReachKept ==
  ASSUME NEW a \in Device, NEW c \in Device, NEW v, NEW th, NEW si,
         Coming(a, c, v, th, si) \/ InHand(a, c, v, th),
         mem'[a] = mem[a], saving'[a] = saving[a], store'[a] = store[a], file' = file, fresh' = fresh,
         lastSeen'[c] = lastSeen[c], Basic(c, v) => Basic(c, v)',
         \A r : r \in Pending(c)' <=> r \in Pending(c),
         \A r : r \in Active(a)' => r \in Active(a)
  PROVE  Coming(a, c, v, th, si)' \/ InHand(a, c, v, th)'
<1>1. ASSUME Coming(a, c, v, th, si) PROVE Coming(a, c, v, th, si)'
  BY <1>1 DEF Coming, Unflushed
<1>2. ASSUME InHand(a, c, v, th) PROVE InHand(a, c, v, th)'
  BY <1>2 DEF InHand
<1>. QED  BY <1>1, <1>2

\* What is pending or active after a step in which the files stay as they are.
LEMMA SettledRead ==
  ASSUME TypeOK, TypeOK', NEW a \in Device, NEW v \in Workspace, Settled(a, v),
         NEW d \in Device, WatchRead(d)
  PROVE  Settled(a, v)'
<1>1. /\ d \in noticed /\ noticed' = noticed \ {d} /\ file' = file /\ fresh' = fresh /\ mem' = mem
      /\ store' = store /\ lastSeen' = lastSeen /\ merges' = merges /\ saving' = saving
      /\ known' = known /\ last' = last
      /\ \A c \in Device \ {d} : updates'[c] = updates[c]
      /\ updates'[d] = IF file[d].writer = d THEN updates[d] ELSE updates[d] \cup {file[d]}
  BY DEF WatchRead, historyVars, TypeOK
<1>2. Alone(a) /\ file[d].writer = a
  BY <1>1 DEF Settled, Alone, Arriving
<1>3. ASSUME NEW c \in Device \ {a}, NEW r PROVE r \in Pending(c)' <=> r \in Pending(c)
  BY <1>1, <1>2 DEF Pending
<1>4. \A r : r \in Active(a)' => r \in Active(a)
  BY <1>1, <1>3 DEF Active, Sent
<1>5. Alone(a)'
  BY <1>1, <1>2 DEF Alone, Arriving
<1>6. \A c \in Device : Basic(c, v) => Basic(c, v)'
  BY <1>1 DEF Basic
<1>7. ASSUME NEW c \in Device \ {a}, NEW th, NEW si, Loud(a, v, th, si), v \in known[c]
      PROVE  Coming(a, c, v, th, si)' \/ InHand(a, c, v, th)'
  <2>1. Coming(a, c, v, th, si) \/ InHand(a, c, v, th)
    BY <1>7 DEF Loud
  <2>. QED  BY <1>1, <1>3, <1>4, <1>6, <2>1, ReachKept
<1>8. \A c \in Device \ {a} : \A u \in updates'[c] : u \in updates[c] \/ u = file[c]
  BY <1>1
<1>. QED  BY <1>1, <1>4, <1>5, <1>6, <1>7, <1>8, SettledKeep

LEMMA SettledApply ==
  ASSUME TypeOK, TypeOK', NEW a \in Device, NEW v \in Workspace, Settled(a, v),
         NEW d \in Device, NEW m \in merges[d], Apply(d, m)
  PROVE  Settled(a, v)'
<1>1. /\ noticed' = noticed /\ file' = file /\ fresh' = fresh /\ mem' = mem /\ lastSeen' = lastSeen
      /\ updates' = updates /\ saving' = saving /\ known' = known /\ last' = last
      /\ \A c \in Device \ {d} : store'[c] = store[c] /\ merges'[c] = merges[c]
      /\ store'[d] = m.tabs /\ merges'[d] = merges[d] \ {m}
  BY DEF Apply, mainVars, TypeOK
<1>2. Alone(a) /\ d # a
  BY DEF Settled, Alone, Arriving
<1>3. \A c \in Device : \A r : r \in Pending(c)' <=> r \in Pending(c)
  BY <1>1 DEF Pending
<1>4. \A r : r \in Active(a)' => r \in Active(a)
  BY <1>1, <1>3 DEF Active, Sent
<1>5. Alone(a)'
  BY <1>1, <1>2 DEF Alone, Arriving
<1>6. \A c \in Device : Basic(c, v) => Basic(c, v)'
  BY <1>1 DEF Basic
<1>7. ASSUME NEW c \in Device \ {a}, NEW th, NEW si, Loud(a, v, th, si), v \in known[c]
      PROVE  Coming(a, c, v, th, si)' \/ InHand(a, c, v, th)'
  <2>1. Coming(a, c, v, th, si) \/ InHand(a, c, v, th)
    BY <1>7 DEF Loud
  <2>. QED  BY <1>1, <1>2, <1>3, <1>4, <1>6, <2>1, ReachKept
<1>. QED  BY <1>1, <1>2, <1>4, <1>5, <1>6, <1>7, SettledKeep

LEMMA SettledCreate ==
  ASSUME TypeOK, TypeOK', NEW a \in Device, NEW v \in Workspace, Settled(a, v),
         NEW d \in Device, NEW w \in Workspace, CreateWorkspace(d, w), v # w
  PROVE  Settled(a, v)'
<1>1. /\ noticed' = noticed /\ file' = file /\ fresh' = fresh /\ mem' = mem /\ lastSeen' = lastSeen
      /\ updates' = updates /\ saving' = saving /\ last' = last /\ store' = store /\ merges' = merges
      /\ \A c \in Device : v \in known'[c] <=> v \in known[c]
  BY DEF CreateWorkspace, rendererVars, mainVars, TypeOK
<1>2. Alone(a)
  BY DEF Settled
<1>3. \A c \in Device : \A r : r \in Pending(c)' <=> r \in Pending(c)
  BY <1>1 DEF Pending
<1>4. \A r : r \in Active(a)' => r \in Active(a)
  BY <1>1, <1>3 DEF Active, Sent
<1>5. Alone(a)'
  BY <1>1, <1>2 DEF Alone, Arriving
<1>6. \A c \in Device : Basic(c, v) => Basic(c, v)'
  BY <1>1 DEF Basic
<1>7. ASSUME NEW c \in Device \ {a}, NEW th, NEW si, Loud(a, v, th, si), v \in known[c]
      PROVE  Coming(a, c, v, th, si)' \/ InHand(a, c, v, th)'
  <2>1. Coming(a, c, v, th, si) \/ InHand(a, c, v, th)
    BY <1>7 DEF Loud
  <2>. QED  BY <1>1, <1>3, <1>4, <1>6, <2>1, ReachKept
<1>. QED  BY <1>1, <1>4, <1>5, <1>6, <1>7, SettledKeep

\* What a resolved update leaves of v at d: what was there, or what the peer has.
LEMMA MergedAt ==
  ASSUME TypeOK, NEW d \in Device, NEW u \in State, NEW v \in Workspace, v \in known[d]
  PROVE  /\ v \in Winning(d, u) => Merged(d, u)[<<d, v>>] = PeerTabs(u, v)
         /\ v \notin Winning(d, u) => Merged(d, u)[<<d, v>>] = store[d][<<d, v>>]
         /\ v \in Winning(d, u) <=> u.stamp[v] > lastSeen[d][v]
BY DEF Merged, Winning, Id

LEMMA SettledResolve ==
  ASSUME TypeOK, TypeOK', NEW a \in Device, NEW v \in Workspace, Settled(a, v), v \notin doubt',
         NEW d \in Device, NEW u \in updates[d], Resolve(d, u) \/ ResolveFails(d, u)
  PROVE  Settled(a, v)'
<1>1. /\ noticed' = noticed /\ file' = file /\ fresh' = fresh /\ mem' = mem /\ store' = store
      /\ saving' = saving /\ known' = known /\ last' = last
      /\ updates'[d] = updates[d] \ {u}
      /\ \A c \in Device \ {d} : updates'[c] = updates[c] /\ lastSeen'[c] = lastSeen[c] /\ merges'[c] = merges[c]
  BY DEF Resolve, ResolveFails, mainVars, TypeOK
<1>2. ASSUME Winning(d, u) = {} PROVE lastSeen'[d] = lastSeen[d] /\ merges'[d] = merges[d]
  BY <1>2 DEF Resolve, ResolveFails
<1>3. ASSUME Winning(d, u) # {}
      PROVE  /\ merges[d] = {} /\ \A m \in merges'[d] : m.tabs = Merged(d, u)
             /\ merges'[d] # {}
             /\ lastSeen'[d][v] = IF v \in Winning(d, u) THEN u.stamp[v] ELSE lastSeen[d][v]
  <2>1. Resolve(d, u)
    BY <1>3 DEF ResolveFails
  <2>2. merges[d] = {}
    BY <1>3, <2>1 DEF Resolve
  <2>3. merges' = [merges EXCEPT ![d] = @ \cup {[tabs |-> Merged(d, u), over |-> store[d]]}]
    BY <1>3, <2>1 DEF Resolve
  <2>4. merges'[d] = {[tabs |-> Merged(d, u), over |-> store[d]]}
    BY <2>2, <2>3 DEF TypeOK
  <2>5. lastSeen'[d] = [w \in Workspace |-> IF w \in Winning(d, u) THEN u.stamp[w] ELSE lastSeen[d][w]]
    BY <1>3, <2>1 DEF Resolve, TypeOK
  <2>. QED  BY <2>2, <2>4, <2>5
<1>4. Alone(a) /\ d # a
  BY DEF Settled, Alone, Arriving
<1>5. u \in Active(a) /\ u \in Pending(d)
  BY <1>4 DEF Active, Pending
<1>6. u \in State /\ lastSeen[d][v] \in Nat /\ u.stamp[v] \in Nat /\ u.at \in Nat
  BY BoundsAssumption DEF TypeOK, State
<1>7. \A c \in Device : \A r : /\ r \in Pending(c)' => r \in Pending(c)
                               /\ r \in Pending(c) /\ (c # d \/ r # u) => r \in Pending(c)'
  BY <1>1 DEF Pending
<1>8. \A r : r \in Active(a)' => r \in Active(a)
  BY <1>1, <1>7 DEF Active, Sent
<1>9. Alone(a)'
  BY <1>1, <1>4 DEF Alone, Arriving
<1>10. \A c \in Device \ {d} : Basic(c, v) => Basic(c, v)'
  BY <1>1 DEF Basic
<1>11. ASSUME v \in known[d], v \notin Winning(d, u), Basic(d, v) PROVE Basic(d, v)'
  <2>1. CASE Winning(d, u) = {}
    BY <1>1, <1>2, <1>11, <2>1 DEF Basic
  <2>2. CASE Winning(d, u) # {}
    BY <1>1, <1>3, <1>6, <1>11, <2>2, MergedAt DEF Basic
  <2>. QED  BY <2>1, <2>2
<1>12. ASSUME Mute(a, v), v \in known[d], Basic(d, v) PROVE Basic(d, v)'
  <2>1. u.stamp[v] = 0
    BY <1>5, <1>12 DEF Mute
  <2>2. v \notin Winning(d, u)
    BY <1>6, <2>1 DEF Winning
  <2>. QED  BY <1>11, <1>12, <2>2
<1>13. ASSUME NEW th \in 0..MaxEdits, NEW si \in 0..MaxEdits, Loud(a, v, th, si), v \in known[d]
       PROVE  Coming(a, d, v, th, si)' \/ InHand(a, d, v, th)'
  <2>1. /\ Newer(u, v, th, si) \/ Older(u, v, th, si)
        /\ Coming(a, d, v, th, si) \/ InHand(a, d, v, th)
        /\ u.at >= th => file[d].writer = a /\ file[d].at >= th
    BY <1>4, <1>5, <1>13 DEF Loud
  <2>. th \in Nat /\ si \in Nat
    BY BoundsAssumption
  <2>2. ASSUME Coming(a, d, v, th, si), lastSeen'[d][v] < si, ~(u.at >= th)
        PROVE  Coming(a, d, v, th, si)'
    <3>1. CASE Unflushed(a)
      BY <1>1, <2>2, <3>1 DEF Coming, Unflushed
    <3>2. CASE \E r \in Pending(d) : r.at >= th
      BY <1>7, <2>2, <3>2 DEF Coming
    <3>3. CASE \E x \in Device : <<x, d>> \in fresh /\ file[x].at >= th
                                 /\ (file[d].writer = a => file[x].at > file[d].at)
      BY <1>1, <2>2, <3>3 DEF Coming
    <3>. QED  BY <2>2, <3>1, <3>2, <3>3 DEF Coming
  <2>3. CASE v \notin Winning(d, u)
    <3>1. lastSeen'[d][v] = lastSeen[d][v] /\ ~(u.stamp[v] > lastSeen[d][v])
      BY <1>2, <1>3, <1>6, <1>13, <2>3, MergedAt
    <3>2. CASE Coming(a, d, v, th, si)
      <4>1. lastSeen[d][v] < si
        BY <3>2 DEF Coming
      <4>2. ~Newer(u, v, th, si)
        BY <1>6, <3>1, <4>1 DEF Newer
      <4>3. ~(u.at >= th)
        BY <1>6, <2>1, <4>2 DEF Older
      <4>. QED  BY <2>2, <3>1, <3>2, <4>1, <4>3
    <3>3. CASE InHand(a, d, v, th)
      <4>1. Basic(d, v)'
        BY <1>11, <1>13, <2>3, <3>3 DEF InHand
      <4>. QED  BY <1>1, <1>7, <1>8, <3>1, <3>3, <4>1 DEF InHand
    <3>. QED  BY <2>1, <3>2, <3>3
  <2>4. CASE v \in Winning(d, u)
    <3>1. lastSeen'[d][v] = u.stamp[v] /\ u.stamp[v] > lastSeen[d][v]
      BY <1>3, <1>6, <1>13, <2>4, MergedAt
    <3>2. CASE Older(u, v, th, si)
      <4>1. ~(u.at >= th) /\ u.stamp[v] < si
        BY <1>6, <3>2 DEF Older
      <4>2. Coming(a, d, v, th, si)
        BY <1>5, <2>1, <3>1, <4>1 DEF InHand
      <4>. QED  BY <2>2, <3>1, <4>1, <4>2
    <3>3. CASE Newer(u, v, th, si)
      <4>1. PeerTabs(u, v) = last[v] /\ u.at >= th /\ u.stamp[v] >= si
        BY <3>3 DEF Newer
      <4>2. Basic(d, v)'
        BY <1>1, <1>3, <1>6, <1>13, <2>4, <4>1, MergedAt DEF Basic
      <4>3. ASSUME NEW r \in Pending(d)', r.stamp[v] > lastSeen'[d][v] PROVE r.at >= th
        <5>1. r \in Active(a) /\ r \in State
          BY <1>4, <1>7, <4>3, ActiveWriter DEF Active
        <5>2. r.stamp[v] \in Nat
          BY <5>1, BoundsAssumption DEF State
        <5>3. ~Older(r, v, th, si)
          BY <1>6, <3>1, <4>1, <4>3, <5>2 DEF Older
        <5>. QED  BY <1>13, <5>1, <5>3 DEF Loud, Newer
      <4>. QED  BY <1>1, <2>1, <4>1, <4>2, <4>3 DEF InHand
    <3>. QED  BY <2>1, <3>2, <3>3
  <2>. QED  BY <2>3, <2>4
<1>14. ASSUME NEW c \in Device \ {a}, NEW th \in 0..MaxEdits, NEW si \in 0..MaxEdits,
              Loud(a, v, th, si), v \in known[c], c # d
       PROVE  Coming(a, c, v, th, si)' \/ InHand(a, c, v, th)'
  <2>1. Coming(a, c, v, th, si) \/ InHand(a, c, v, th)
    BY <1>14 DEF Loud
  <2>2. lastSeen'[c] = lastSeen[c] /\ (Basic(c, v) => Basic(c, v)')
    BY <1>1, <1>10, <1>14
  <2>3. \A r : r \in Pending(c)' <=> r \in Pending(c)
    BY <1>7, <1>14
  <2>. QED  BY <1>1, <1>8, <2>1, <2>2, <2>3, ReachKept
<1>15. \A c \in Device \ {a} : \A r \in updates'[c] : r \in updates[c] \/ r = file[c]
  BY <1>1
<1>16. \A c \in Device : Mute(a, v) /\ v \in known[c] /\ Basic(c, v) => Basic(c, v)'
  BY <1>10, <1>12
<1>17. \A c \in Device \ {a}, th, si \in 0..MaxEdits : Loud(a, v, th, si) /\ v \in known[c]
         => Coming(a, c, v, th, si)' \/ InHand(a, c, v, th)'
  BY <1>13, <1>14
<1>. QED  BY <1>1, <1>8, <1>9, <1>15, <1>16, <1>17, SettledKeep

\* A device that shows what its main process or file has, with nothing from a peer on
\* its way, starts anew: only what it has seen of its peers is forgotten.
LEMMA HydrateSame ==
  ASSUME TypeOK, NEW v \in Workspace, v \notin doubt', NEW d \in Device, NEW content, Hydrate(d, content)
  PROVE  /\ content = store[d] /\ ~Arriving(d)
         /\ store' = store /\ updates' = updates /\ merges' = merges
         /\ lastSeen'[d] = [w \in Workspace |-> 0]
         /\ \A c \in Device \ {d} : lastSeen'[c] = lastSeen[c]
<1>1. content = store[d] /\ ~Arriving(d)
  BY DEF Hydrate
<1>2. updates[d] = {} /\ merges[d] = {}
  BY <1>1 DEF Arriving
<1>3. store' = store
  BY <1>1 DEF Hydrate, TypeOK
<1>4. updates' = updates /\ merges' = merges
  BY <1>2 DEF Hydrate, TypeOK
<1>5. lastSeen'[d] = [w \in Workspace |-> 0] /\ \A c \in Device \ {d} : lastSeen'[c] = lastSeen[c]
  BY DEF Hydrate, TypeOK
<1>. QED  BY <1>1, <1>3, <1>4, <1>5

LEMMA SettledAnew ==
  ASSUME TypeOK, TypeOK', NEW a \in Device, NEW v \in Workspace, Settled(a, v), v \notin doubt',
         NEW d \in Device, Reopen(d) \/ (d # a /\ Restart(d))
  PROVE  Settled(a, v)'
<1>1. /\ ~Arriving(d) /\ store' = store /\ updates' = updates /\ merges' = merges
      /\ lastSeen'[d] = [w \in Workspace |-> 0]
      /\ \A c \in Device \ {d} : lastSeen'[c] = lastSeen[c]
  BY HydrateSame DEF Reopen, Restart
<1>2. /\ file' = file /\ fresh' = fresh /\ known' = known /\ last' = last
      /\ \A c \in Device \ {d} : mem'[c] = mem[c] /\ saving'[c] = saving[c]
      /\ mem'[a] = mem[a] /\ saving'[a] = saving[a]
      /\ saving'[d] = saving[d] \/ saving'[d] = 0
      /\ noticed' = noticed \/ (d # a /\ noticed' = noticed \ {d})
  BY DEF Reopen, Restart, mainVars, TypeOK
<1>3. Alone(a) /\ (d # a => d \notin noticed /\ updates[d] = {})
  BY <1>1 DEF Settled, Alone, Arriving
<1>4. noticed' = noticed
  BY <1>2, <1>3
<1>5. \A c \in Device : \A r : r \in Pending(c)' <=> r \in Pending(c)
  BY <1>1, <1>2, <1>4 DEF Pending
<1>6. \A r : r \in Active(a)' => r \in Active(a)
  BY <1>2, <1>5 DEF Active, Sent
<1>7. Alone(a)'
  BY <1>1, <1>2, <1>3, <1>4 DEF Alone, Arriving
<1>8. \A c \in Device : Basic(c, v) => Basic(c, v)'
  BY <1>1, <1>2 DEF Basic
<1>9. ASSUME NEW c \in Device \ {a}, NEW th \in 0..MaxEdits, NEW si \in 0..MaxEdits,
             Loud(a, v, th, si), v \in known[c]
      PROVE  Coming(a, c, v, th, si)' \/ InHand(a, c, v, th)'
  <2>1. Coming(a, c, v, th, si) \/ InHand(a, c, v, th)
    BY <1>9 DEF Loud
  <2>2. CASE c # d
    BY <1>1, <1>2, <1>5, <1>6, <1>8, <2>1, <2>2, ReachKept
  <2>3. CASE c = d
    <3>1. Pending(c) = {}
      BY <1>3, <2>3 DEF Pending
    <3>2. lastSeen'[c][v] = 0 /\ si > 0
      BY <1>1, <1>9, <2>3 DEF Loud
    <3>3. CASE Coming(a, c, v, th, si)
      BY <1>1, <1>2, <3>1, <3>2, <3>3 DEF Coming, Unflushed
    <3>4. CASE InHand(a, c, v, th)
      BY <1>2, <1>5, <1>6, <1>8, <3>1, <3>4 DEF InHand
    <3>. QED  BY <2>1, <3>3, <3>4
  <2>. QED  BY <2>2, <2>3
<1>10. \A c \in Device \ {a} : \A u \in updates'[c] : u \in updates[c] \/ u = file[c]
  BY <1>1
<1>. QED  BY <1>1, <1>2, <1>6, <1>7, <1>8, <1>9, <1>10, SettledKeep

\* The author starts anew from a file that has what it shows: nothing is lost.
LEMMA SettledRestart ==
  ASSUME TypeOK, TypeOK', NEW a \in Device, NEW v \in Workspace, Settled(a, v), v \notin doubt', Restart(a)
  PROVE  Settled(a, v)'
<1>1. /\ file[a].tabs = store[a] /\ ~Arriving(a)
      /\ store' = store /\ updates' = updates /\ merges' = merges
      /\ \A c \in Device \ {a} : lastSeen'[c] = lastSeen[c]
  BY HydrateSame DEF Restart
<1>2. /\ file' = file /\ fresh' = fresh /\ known' = known /\ last' = last
      /\ \A c \in Device \ {a} : mem'[c] = mem[c] /\ saving'[c] = saving[c]
      /\ mem'[a] = file[a] /\ saving'[a] = 0 /\ noticed' = noticed \ {a}
  BY DEF Restart, TypeOK
<1>3. Alone(a) /\ ~Unflushed(a)
  BY <1>1 DEF Settled, Unflushed
<1>4. \A c \in Device \ {a} : \A r : r \in Pending(c)' <=> r \in Pending(c)
  BY <1>1, <1>2 DEF Pending
<1>5. \A r : r \in Active(a)' <=> r \in Active(a)
  BY <1>2, <1>4 DEF Active, Sent
<1>6. Alone(a)'
  BY <1>1, <1>2, <1>3 DEF Alone, Arriving
<1>7. \A c \in Device : Basic(c, v) => Basic(c, v)'
  BY <1>1, <1>2 DEF Basic
<1>8. (v \in known[a] => store[a][<<a, v>>] = last[v])'
  BY <1>1, <1>2 DEF Settled
<1>9. CASE Active(a) = {}
  <2>1. \A c \in Device : v \in known[c] => Basic(c, v)
    BY <1>3, <1>9, AllHave
  <2>2. Mute(a, v)'
    BY <1>2, <1>5, <1>7, <1>9, <2>1 DEF Mute
  <2>. QED  BY <1>6, <1>8, <2>2 DEF Settled
<1>10. CASE Mute(a, v)
  <2>1. Mute(a, v)'
    BY <1>2, <1>5, <1>7, <1>10 DEF Mute
  <2>. QED  BY <1>6, <1>8, <2>1 DEF Settled
<1>11. ASSUME Active(a) # {}, NEW th \in 0..MaxEdits, NEW si \in 0..MaxEdits, Loud(a, v, th, si)
       PROVE  Loud(a, v, th, si)'
  <2>1. file[a].writer = a /\ Newer(file[a], v, th, si)
    BY <1>3, <1>11 DEF Loud
  <2>2. si > 0 /\ Newer(mem[a], v, th, si)'
    BY <1>2, <1>11, <2>1 DEF Loud, Newer, PeerTabs
  <2>3. (\A r \in Active(a) : Newer(r, v, th, si) \/ Older(r, v, th, si))'
    BY <1>2, <1>5, <1>11 DEF Loud, Newer, Older, PeerTabs
  <2>4. (file[a].writer = a /\ Newer(file[a], v, th, si))'
    BY <1>2, <2>1 DEF Newer, PeerTabs
  <2>5. (\A c \in Device \ {a} : \A u \in updates[c] : u.at >= th => file[c].writer = a /\ file[c].at >= th)'
    BY <1>1, <1>2, <1>11 DEF Loud
  <2>6. ASSUME NEW c \in Device \ {a}, v \in known'[c] PROVE (Coming(a, c, v, th, si) \/ InHand(a, c, v, th))'
    <3>1. Coming(a, c, v, th, si) \/ InHand(a, c, v, th)
      BY <1>2, <1>11, <2>6 DEF Loud
    <3>2. CASE Coming(a, c, v, th, si)
      BY <1>1, <1>2, <1>3, <1>4, <3>2 DEF Coming
    <3>3. CASE InHand(a, c, v, th)
      BY <1>1, <1>2, <1>4, <1>5, <1>7, <3>3 DEF InHand
    <3>. QED  BY <3>1, <3>2, <3>3
  <2>. QED  BY <2>2, <2>3, <2>4, <2>5, <2>6 DEF Loud
<1>. QED  BY <1>6, <1>8, <1>9, <1>10, <1>11 DEF Settled

\* The author writes its file: what was in its main process is on its way.
LEMMA SettledFlush ==
  ASSUME TypeOK, TypeOK', VersionInv, NEW a \in Device, NEW v \in Workspace, Settled(a, v),
         NEW d \in Device, Flush(d)
  PROVE  Settled(a, v)'
<1>1. Alone(a) /\ d = a /\ saving[a] > 0
  BY DEF Settled, Alone, Flush, TypeOK
<1>2. /\ mem' = mem /\ store' = store /\ updates' = updates /\ merges' = merges /\ lastSeen' = lastSeen
      /\ known' = known /\ last' = last /\ noticed' = noticed
      /\ file'[a] = mem[a] /\ (\A c \in Device \ {a} : file'[c] = file[c] /\ saving'[c] = saving[c])
      /\ fresh' = fresh \cup {<<a, c>> : c \in Device \ {a}}
      /\ saving'[a] = saving[a] - 1
  BY <1>1 DEF Flush, rendererVars, historyVars, TypeOK
<1>3. mem[a].writer = a /\ \A x \in Device : file[x].writer = a => file[x].at <= mem[a].at
  BY <1>1 DEF VersionInv
<1>4. \A c \in Device \ {a} : \A r : r \in Pending(c)' <=> r \in Pending(c)
  BY <1>2 DEF Pending
<1>5. \A r : r \in Active(a)' => r \in Active(a) \/ r = mem[a]
  <2>1. ASSUME NEW r, r \in Sent' PROVE r \in Sent \/ r = mem[a]
    <3>1. PICK pair \in fresh' : r = file'[pair[1]]
      BY <2>1 DEF Sent
    <3>2. pair \in Device \X Device
      BY DEF TypeOK
    <3>3. pair[1] = a \/ (pair \in fresh /\ file'[pair[1]] = file[pair[1]])
      BY <1>2, <3>2
    <3>. QED  BY <1>2, <3>1, <3>3 DEF Sent
  <2>. QED  BY <1>4, <2>1 DEF Active
<1>6. Alone(a)'
  <2>1. \A e \in Device \ {a} :
          /\ saving'[e] = 0 /\ (e \in noticed' => file'[e].writer = a)
          /\ \A u \in updates'[e] : u.writer = a
    BY <1>1, <1>2 DEF Alone
  <2>2. ASSUME NEW pair \in fresh' PROVE file'[pair[1]].writer = a
    <3>1. pair \in Device \X Device
      BY DEF TypeOK
    <3>2. CASE pair[1] = a
      BY <1>2, <1>3, <3>2
    <3>3. CASE pair[1] # a
      <4>1. pair \in fresh /\ file'[pair[1]] = file[pair[1]]
        BY <1>2, <3>1, <3>3
      <4>. QED  BY <1>1, <4>1 DEF Alone
    <3>. QED  BY <3>2, <3>3
  <2>3. ~Arriving(a)'
    BY <1>1, <1>2, <1>3 DEF Alone, Arriving
  <2>. QED  BY <2>1, <2>2, <2>3 DEF Alone
<1>7. \A c \in Device : Basic(c, v) => Basic(c, v)'
  BY <1>2 DEF Basic
<1>8. (v \in known[a] => store[a][<<a, v>>] = last[v])'
  BY <1>2 DEF Settled
<1>9. CASE Mute(a, v)
  <2>1. v \notin known'[a] /\ mem[a].stamp[v] = 0 /\ \A r \in Active(a)' : r.stamp[v] = 0
    BY <1>1, <1>2, <1>5, <1>9 DEF Mute
  <2>2. Mute(a, v)'
    BY <1>2, <1>7, <1>9, <2>1 DEF Mute
  <2>. QED  BY <1>6, <1>8, <2>2 DEF Settled
<1>10. ASSUME NEW th \in 0..MaxEdits, NEW si \in 0..MaxEdits, Loud(a, v, th, si)
       PROVE  Loud(a, v, th, si)'
  <2>1. si > 0 /\ Newer(mem[a], v, th, si)
    BY <1>10 DEF Loud
  <2>2. Newer(mem[a], v, th, si)'
    BY <1>2, <2>1 DEF Newer, PeerTabs
  <2>3. (\A r \in Active(a) : Newer(r, v, th, si) \/ Older(r, v, th, si))'
    BY <1>2, <1>5, <1>10, <2>1 DEF Loud, Newer, Older, PeerTabs
  <2>4. (file[a].writer = a /\ Newer(file[a], v, th, si))'
    BY <1>2, <1>3, <2>2 DEF Newer, PeerTabs
  <2>5. (\A c \in Device \ {a} : \A u \in updates[c] : u.at >= th => file[c].writer = a /\ file[c].at >= th)'
    BY <1>2, <1>10 DEF Loud
  <2>6. ASSUME NEW c \in Device \ {a}, v \in known'[c] PROVE (Coming(a, c, v, th, si) \/ InHand(a, c, v, th))'
    <3>1. Coming(a, c, v, th, si) \/ InHand(a, c, v, th)
      BY <1>2, <1>10, <2>6 DEF Loud
    <3>2. /\ <<a, c>> \in fresh' /\ file'[a].at >= th /\ file'[a] = mem[a] /\ mem[a].at \in Nat
          /\ file'[c] = file[c] /\ file[c].at \in Nat
      BY <1>2, <2>1, BoundsAssumption DEF Newer, TypeOK, State
    <3>3. CASE Coming(a, c, v, th, si)
      <4>1. lastSeen'[c][v] < si
        BY <1>2, <3>3 DEF Coming
      <4>2. CASE Unflushed(a)
        BY <3>2, <4>1, <4>2 DEF Unflushed, Coming
      <4>3. CASE \E r \in Pending(c) : r.at >= th
        BY <1>4, <4>1, <4>3 DEF Coming
      <4>4. ASSUME NEW x \in Device, <<x, c>> \in fresh, file[x].at >= th,
                   file[c].writer = a => file[x].at > file[c].at
            PROVE  Coming(a, c, v, th, si)'
        <5>1. CASE x = a
          <6>1. file[a].at <= mem[a].at /\ file[a].at \in Nat
            BY <1>1, <1>3, <4>4, <5>1, BoundsAssumption DEF Alone, TypeOK, State
          <6>2. file[c].writer = a => mem[a].at > file[c].at
            BY <3>2, <4>4, <5>1, <6>1
          <6>. QED  BY <3>2, <4>1, <6>2 DEF Coming
        <5>2. CASE x # a
          <6>1. <<x, c>> \in fresh' /\ file'[x] = file[x]
            BY <1>2, <4>4, <5>2
          <6>. QED  BY <3>2, <4>1, <4>4, <6>1 DEF Coming
        <5>. QED  BY <5>1, <5>2
      <4>. QED  BY <3>3, <4>2, <4>3, <4>4 DEF Coming
    <3>4. CASE InHand(a, c, v, th)
      <4>1. Basic(c, v)' /\ \A r \in Pending(c)' : r.stamp[v] > lastSeen'[c][v] => r.at >= th
        BY <1>2, <1>4, <1>7, <3>4 DEF InHand
      <4>2. \/ (file[c].writer = a /\ file[c].at >= th)'
            \/ (\A r \in Active(a) : r.at >= th \/ r.stamp[v] = 0)'
        BY <1>5, <3>2, <3>4 DEF InHand
      <4>. QED  BY <4>1, <4>2 DEF InHand
    <3>. QED  BY <3>1, <3>3, <3>4
  <2>. QED  BY <2>1, <2>2, <2>3, <2>4, <2>5, <2>6 DEF Loud
<1>. QED  BY <1>6, <1>8, <1>9, <1>10 DEF Settled

\* A file of the author's is copied over what may replace it.
LEMMA SettledDeliver ==
  ASSUME TypeOK, TypeOK', VersionInv, NEW a \in Device, NEW v \in Workspace, Settled(a, v),
         NEW d \in Device, NEW e \in Device, Deliver(d, e)
  PROVE  Settled(a, v)'
<1>. DEFINE origin(x) == IF x = e THEN d ELSE x
<1>1. /\ mem' = mem /\ store' = store /\ updates' = updates /\ merges' = merges /\ lastSeen' = lastSeen
      /\ known' = known /\ last' = last /\ saving' = saving /\ noticed' = noticed \cup {e}
      /\ file'[e] = file[d] /\ \A x \in Device \ {e} : file'[x] = file[x]
      /\ <<d, e>> \in fresh
  BY DEF Deliver, rendererVars, historyVars, TypeOK
<1>2. \A x, y \in Device : <<x, y>> \in fresh' <=> <<origin(x), origin(y)>> \in fresh
  BY DEF Deliver
<1>3. Alone(a) /\ file[d].writer = a
  BY <1>1 DEF Settled, Alone
<1>4. file[e].writer = a => file[d].at >= file[e].at
  BY <1>3, CopyIsLater DEF Deliver
<1>5. file[d] \in Active(a) /\ \A x \in Device : file[x].at \in Nat
  BY <1>1, BoundsAssumption DEF Active, Sent, TypeOK, State
<1>6. \A c \in Device \ {a} : \A r :
        /\ r \in Pending(c)' => r \in Pending(c) \/ (c = e /\ r = file[d])
        /\ r \in Pending(c) => r \in Pending(c)' \/ (c = e /\ e \in noticed /\ r = file[e])
  BY <1>1 DEF Pending
<1>7. \A r : r \in Active(a)' => r \in Active(a)
  <2>1. ASSUME NEW r, r \in Sent' PROVE r \in Sent
    <3>1. PICK pair \in fresh' : r = file'[pair[1]]
      BY <2>1 DEF Sent
    <3>2. PICK x \in Device, y \in Device : pair = <<x, y>>
      BY DEF TypeOK
    <3>3. <<origin(x), origin(y)>> \in fresh /\ r = file[origin(x)]
      BY <1>1, <1>2, <3>1, <3>2
    <3>. QED  BY <3>3 DEF Sent
  <2>. QED  BY <1>5, <1>6, <2>1 DEF Active
<1>8. Alone(a)'
  <2>1. ASSUME NEW c \in Device \ {a}
        PROVE  /\ saving'[c] = 0 /\ (c \in noticed' => file'[c].writer = a)
               /\ \A u \in updates'[c] : u.writer = a
    BY <1>1, <1>3 DEF Alone
  <2>2. ASSUME NEW pair \in fresh' PROVE file'[pair[1]].writer = a
    <3>1. PICK x \in Device, y \in Device : pair = <<x, y>>
      BY DEF TypeOK
    <3>2. <<origin(x), origin(y)>> \in fresh /\ file'[x] = file[origin(x)]
      BY <1>1, <1>2, <3>1
    <3>. QED  BY <1>3, <3>1, <3>2 DEF Alone
  <2>3. ~Arriving(a)'
    BY <1>1, <1>3 DEF Alone, Arriving
  <2>. QED  BY <2>1, <2>2, <2>3 DEF Alone
<1>9. \A c \in Device : Basic(c, v) => Basic(c, v)'
  BY <1>1 DEF Basic
<1>10. (v \in known[a] => store[a][<<a, v>>] = last[v])'
  BY <1>1 DEF Settled
<1>11. CASE Mute(a, v)
  <2>1. v \notin known'[a] /\ (saving'[a] > 0 => mem'[a].stamp[v] = 0) /\ \A r \in Active(a)' : r.stamp[v] = 0
    BY <1>1, <1>5, <1>7, <1>11 DEF Mute
  <2>2. Mute(a, v)'
    BY <1>1, <1>9, <1>11, <2>1 DEF Mute
  <2>. QED  BY <1>8, <1>10, <2>2 DEF Settled
<1>12. ASSUME NEW th \in 0..MaxEdits, NEW si \in 0..MaxEdits, Loud(a, v, th, si)
       PROVE  Loud(a, v, th, si)'
  <2>. th \in Nat /\ si \in Nat
    BY BoundsAssumption
  <2>1. si > 0 /\ Newer(mem[a], v, th, si)'
    BY <1>1, <1>12 DEF Loud, Newer, PeerTabs
  <2>2. (\A r \in Active(a) : Newer(r, v, th, si) \/ Older(r, v, th, si))'
    BY <1>1, <1>7, <1>12 DEF Loud, Newer, Older, PeerTabs
  <2>3. Newer(file[d], v, th, si) \/ Older(file[d], v, th, si)
    BY <1>5, <1>12 DEF Loud
  <2>4. (Unflushed(a) \/ (file[a].writer = a /\ Newer(file[a], v, th, si)))'
    <3>1. CASE Unflushed(a)
      <4>1. \A x \in Device : \E y \in Device : file'[x] = file[y]
        BY <1>1
      <4>. QED  BY <1>1, <3>1, <4>1 DEF Unflushed
    <3>2. CASE file[a].writer = a /\ Newer(file[a], v, th, si)
      <4>1. CASE a # e
        BY <1>1, <3>2, <4>1 DEF Newer, PeerTabs
      <4>2. CASE a = e
        <5>1. file[d].at >= th
          BY <1>4, <1>5, <3>2, <4>2 DEF Newer
        <5>2. Newer(file[d], v, th, si)
          BY <1>5, <2>3, <5>1 DEF Older
        <5>. QED  BY <1>1, <1>3, <4>2, <5>2 DEF Newer, PeerTabs
      <4>. QED  BY <4>1, <4>2
    <3>. QED  BY <1>5, <1>12, <3>1, <3>2 DEF Loud
  <2>5. ASSUME NEW c \in Device \ {a}, NEW u \in updates'[c], u.at >= th
        PROVE  file'[c].writer = a /\ file'[c].at >= th
    <3>1. file[c].writer = a /\ file[c].at >= th
      BY <1>1, <1>12, <2>5 DEF Loud
    <3>. QED  BY <1>1, <1>3, <1>4, <1>5, <3>1
  <2>6. ASSUME NEW c \in Device \ {a}, v \in known[c], Coming(a, c, v, th, si)
        PROVE  Coming(a, c, v, th, si)'
    <3>1. lastSeen'[c][v] < si
      BY <1>1, <2>6 DEF Coming
    <3>2. CASE Unflushed(a)
      <4>1. \A x \in Device : \E y \in Device : file'[x] = file[y]
        BY <1>1
      <4>2. Unflushed(a)'
        BY <1>1, <3>2, <4>1 DEF Unflushed
      <4>. QED  BY <3>1, <4>2 DEF Coming
    <3>3. ASSUME NEW r \in Pending(c), r.at >= th PROVE Coming(a, c, v, th, si)'
      <4>1. CASE r \in Pending(c)'
        BY <3>1, <3>3, <4>1 DEF Coming
      <4>2. CASE c = e /\ e \in noticed /\ r = file[e]
        <5>1. file[e].writer = a /\ file[d].at >= th
          BY <1>3, <1>4, <1>5, <3>3, <4>2 DEF Alone
        <5>2. file[d] \in Pending(c)'
          BY <1>1, <4>2 DEF Pending
        <5>. QED  BY <3>1, <5>1, <5>2 DEF Coming
      <4>. QED  BY <1>6, <4>1, <4>2
    <3>4. ASSUME NEW x \in Device, <<x, c>> \in fresh, file[x].at >= th,
                 file[c].writer = a => file[x].at > file[c].at
          PROVE  Coming(a, c, v, th, si)'
      <4>1. file[x].writer = a
        BY <1>3, <3>4 DEF Alone
      <4>2. x # c
        BY <1>5, <3>4, <4>1
      <4>3. CASE c = e /\ file[d].at >= th
        <5>1. file[d] \in Pending(c)'
          BY <1>1, <4>3 DEF Pending
        <5>. QED  BY <3>1, <4>3, <5>1 DEF Coming
      <4>4. CASE c = e /\ ~(file[d].at >= th)
        <5>1. <<x, d>> \in fresh
          <6>1. ~(file[x].at <= file[d].at)
            BY <1>5, <3>4, <4>4
          <6>. QED  BY <1>3, <4>1, <6>1 DEF VersionInv
        <5>2. <<x, c>> \in fresh' /\ file'[x] = file[x] /\ file'[c] = file[d]
          BY <1>1, <1>2, <4>2, <4>4, <5>1
        <5>3. file[x].at > file[d].at
          BY <1>5, <3>4, <4>4
        <5>. QED  BY <3>1, <3>4, <5>2, <5>3 DEF Coming
      <4>5. CASE c # e /\ x # e
        <5>1. <<x, c>> \in fresh' /\ file'[x] = file[x] /\ file'[c] = file[c]
          BY <1>1, <1>2, <3>4, <4>5
        <5>. QED  BY <3>1, <3>4, <5>1 DEF Coming
      <4>6. CASE c # e /\ x = e
        <5>1. file[d].at >= file[e].at
          BY <1>4, <4>1, <4>6
        <5>2. <<d, c>> \in fresh
          <6>1. ~(file[c].writer = a /\ file[d].at <= file[c].at)
            BY <1>5, <3>4, <4>6, <5>1
          <6>. QED  BY <1>1, <1>3, <6>1, NoNews
        <5>3. <<x, c>> \in fresh' /\ file'[x] = file[d] /\ file'[c] = file[c]
          BY <1>1, <1>2, <4>6, <5>2
        <5>4. file[d].at >= th /\ (file[c].writer = a => file[d].at > file[c].at)
          BY <1>5, <3>4, <4>6, <5>1
        <5>. QED  BY <3>1, <5>3, <5>4 DEF Coming
      <4>. QED  BY <4>3, <4>4, <4>5, <4>6
    <3>. QED  BY <2>6, <3>2, <3>3, <3>4 DEF Coming
  <2>7. ASSUME NEW c \in Device \ {a}, v \in known[c], InHand(a, c, v, th)
        PROVE  InHand(a, c, v, th)'
    <3>1. Basic(c, v)'
      BY <1>9, <2>7 DEF InHand
    <3>2. CASE c # e
      <4>1. \A r : r \in Pending(c)' => r \in Pending(c)
        BY <1>6, <3>2
      <4>. QED  BY <1>1, <1>7, <2>7, <3>1, <3>2, <4>1 DEF InHand
    <3>3. CASE c = e
      <4>1. (file[c].writer = a /\ file[c].at >= th) => file[d].at >= th
        BY <1>4, <1>5, <3>3
      <4>2. file[d].at >= th \/ file[d].stamp[v] = 0
        BY <1>5, <2>7, <4>1 DEF InHand
      <4>3. lastSeen[c][v] \in Nat
        BY BoundsAssumption DEF TypeOK
      <4>4. \A r \in Pending(c)' : r.stamp[v] > lastSeen'[c][v] => r.at >= th
        BY <1>1, <1>6, <2>7, <4>2, <4>3 DEF InHand
      <4>5. \/ file'[c].writer = a /\ file'[c].at >= th
            \/ \A r \in Active(a)' : r.at >= th \/ r.stamp[v] = 0
        BY <1>1, <1>3, <1>7, <2>7, <3>3, <4>1 DEF InHand
      <4>. QED  BY <3>1, <4>4, <4>5 DEF InHand
    <3>. QED  BY <3>2, <3>3
  <2>8. (\A c \in Device \ {a} : v \in known[c] => Coming(a, c, v, th, si) \/ InHand(a, c, v, th))'
    BY <1>1, <1>12, <2>6, <2>7 DEF Loud
  <2>. QED  BY <2>1, <2>2, <2>4, <2>5, <2>8 DEF Loud
<1>. QED  BY <1>8, <1>10, <1>11, <1>12 DEF Settled

\* What a device writes of its own: the content of v and its stamp.
LEMMA OwnSays ==
  ASSUME NEW r \in State, NEW d \in Device, NEW k, Own(r, d, k), NEW v \in Workspace
  PROVE  /\ r.tabs[<<d, v>>] > 0 => PeerTabs(r, v) = r.tabs[<<d, v>>] /\ r.stamp[v] > 0
         /\ v \notin k => r.stamp[v] = 0
<1>. DEFINE ids == {i \in r.mapped : i[2] = v}
<1>1. ASSUME r.tabs[<<d, v>>] > 0 PROVE PeerTabs(r, v) = r.tabs[<<d, v>>] /\ r.stamp[v] > 0
  <2>1. <<d, v>> \in ids /\ r.stamp[v] > 0
    BY <1>1 DEF Own
  <2>2. (CHOOSE i \in ids : TRUE) \in ids
    BY <2>1
  <2>3. (CHOOSE i \in ids : TRUE) = <<d, v>>
    BY <2>2 DEF Own
  <2>. QED  BY <2>1, <2>3 DEF PeerTabs
<1>2. ASSUME v \notin k PROVE r.stamp[v] = 0
  <2>1. ~(r.stamp[v] > 0)
    BY <1>2 DEF Own
  <2>2. r.stamp[v] \in Nat
    BY BoundsAssumption DEF State
  <2>. QED  BY <2>1, <2>2
<1>. QED  BY <1>1, <1>2

\* A record on its way is one that somebody has.
LEMMA ActiveRecord ==
  ASSUME TypeOK, NEW a \in Device, NEW r \in Active(a)
  PROVE  \E x \in Device : r \in Records(x)
BY DEF Active, Sent, Pending, Records, TypeOK

\* Where two devices are each alone, nothing is on its way at all.
LEMMA Turn ==
  ASSUME TypeOK, NEW a \in Device, NEW v \in Workspace, Settled(a, v),
         NEW d \in Device, d # a, Alone(d)
  PROVE  /\ Active(d) = {} /\ \A c \in Device \ {d} : updates[c] = {}
         /\ \A c \in Device : v \in known[c] => Basic(c, v)
<1>1. Alone(a)
  BY DEF Settled
<1>2. fresh = {}
  BY <1>1 DEF Alone
<1>3. ASSUME NEW c \in Device PROVE updates[c] = {} /\ c \notin noticed
  BY <1>1 DEF Alone, Arriving
<1>4. Active(a) = {} /\ Active(d) = {}
  BY <1>2, <1>3 DEF Active, Sent, Pending
<1>5. ~Unflushed(a)
  BY DEF Alone, Unflushed
<1>. QED  BY <1>3, <1>4, <1>5, AllHave

LEMMA SettledTheme ==
  ASSUME TypeOK, TypeOK', Bounded, OwnInv, NEW a \in Device, NEW v \in Workspace, Settled(a, v),
         v \notin doubt', last[v] > 0, NEW d \in Device, ThemeSet(d)
  PROVE  Settled(d, v)'
<1>1. Alone(d) /\ d \notin adopted /\ mem[d].tabs = store[d]
  BY DEF ThemeSet
<1>2. /\ store' = store /\ updates' = updates /\ merges' = merges /\ lastSeen' = lastSeen
      /\ file' = file /\ fresh' = fresh /\ noticed' = noticed /\ known' = known /\ last' = last
  BY DEF ThemeSet, rendererVars
<1>3. /\ mem'[d].at = edits /\ mem'[d].tabs = mem[d].tabs
      /\ mem'[d].stamp = mem[d].stamp /\ mem'[d].mapped = mem[d].mapped
      /\ saving'[d] = saving[d] + 1 /\ \A c \in Device \ {d} : saving'[c] = saving[c]
  BY ThemeMem
<1>4. Own(mem[d], d, known[d]) /\ mem[d] \in State /\ mem[d].writer = d
  BY <1>1 DEF OwnInv, Records, TypeOK
<1>5. \A c \in Device : \A r : r \in Pending(c)' <=> r \in Pending(c)
  BY <1>2 DEF Pending
<1>6. \A r : r \in Active(d)' <=> r \in Active(d)
  BY <1>2, <1>5 DEF Active, Sent
<1>7. Alone(d)'
  BY <1>1, <1>2, <1>3 DEF Alone, Arriving
<1>8. \A c \in Device : Basic(c, v) => Basic(c, v)'
  BY <1>2 DEF Basic
<1>9. edits \in 0..MaxEdits /\ edits \in Nat /\ saving[d] \in Nat
  BY BoundsAssumption DEF TypeOK
<1>10. PeerTabs(mem[d], v)' = PeerTabs(mem[d], v)
  BY <1>3 DEF PeerTabs
<1>11. ASSUME v \in known[d] => store[d][<<d, v>>] = last[v], Active(d) = {},
              \A c \in Device : v \in known[c] => Basic(c, v)
       PROVE  Settled(d, v)'
  <2>1. CASE v \in known[d]
    <3>1. PeerTabs(mem[d], v) = last[v] /\ mem[d].stamp[v] > 0
      BY <1>1, <1>4, <1>11, <2>1, OwnSays
    <3>2. mem[d].stamp[v] \in 0..MaxEdits
      BY <1>4 DEF State
    <3>. PICK si \in 0..MaxEdits : si = mem[d].stamp[v]
      BY <3>2
    <3>. PICK th \in 0..MaxEdits : th = edits
      BY <1>9
    <3>. si \in Nat /\ th \in Nat
      BY BoundsAssumption
    <3>3. Newer(mem[d], v, th, si)'
      BY <1>2, <1>3, <1>10, <3>1 DEF Newer
    <3>4. \A c \in Device \ {d} : updates'[c] = {} /\ \A r \in Pending(c)' : FALSE
      BY <1>2, <1>5, <1>11 DEF Active, Pending
    <3>5. \A c \in Device \ {d} : v \in known'[c] => InHand(d, c, v, th)'
      BY <1>2, <1>6, <1>8, <1>11, <3>4 DEF InHand
    <3>6. Loud(d, v, th, si)'
      BY <1>6, <1>11, <3>1, <3>3, <3>4, <3>5 DEF Loud
    <3>. QED  BY <1>2, <1>7, <1>11, <3>6 DEF Settled
  <2>2. CASE v \notin known[d]
    <3>1. mem[d].stamp[v] = 0
      BY <1>4, <2>2, OwnSays
    <3>2. Mute(d, v)'
      BY <1>2, <1>3, <1>6, <1>8, <1>11, <2>2, <3>1 DEF Mute
    <3>. QED  BY <1>2, <1>7, <2>2, <3>2 DEF Settled
  <2>. QED  BY <2>1, <2>2
<1>12. CASE a # d
  <2>1. Active(d) = {} /\ \A c \in Device : v \in known[c] => Basic(c, v)
    BY <1>1, <1>12, Turn
  <2>2. v \in known[d] => store[d][<<d, v>>] = last[v]
    BY <1>1, <2>1 DEF Alone, Arriving, Basic
  <2>. QED  BY <1>11, <2>1, <2>2
<1>13. CASE a = d /\ Mute(d, v)
  <2>1. v \in known[d] => store[d][<<d, v>>] = last[v]
    BY <1>13 DEF Settled
  <2>2. CASE Active(d) = {}
    BY <1>11, <1>13, <2>1, <2>2 DEF Mute
  <2>3. CASE Active(d) # {}
    <3>1. v \notin known[d] /\ \A r \in Active(d) : r.stamp[v] = 0
      BY <1>13, <2>3 DEF Mute
    <3>2. mem[d].stamp[v] = 0
      BY <1>4, <3>1, OwnSays
    <3>3. Mute(d, v)'
      BY <1>2, <1>3, <1>6, <1>8, <1>13, <3>1, <3>2 DEF Mute
    <3>. QED  BY <1>2, <1>7, <3>1, <3>3 DEF Settled
  <2>. QED  BY <2>2, <2>3
<1>14. ASSUME a = d, NEW th \in 0..MaxEdits, NEW si \in 0..MaxEdits, Loud(d, v, th, si)
       PROVE  Loud(d, v, th, si)'
  <2>1. mem[d].at <= edits /\ mem[d].at \in Nat
    BY <1>4, BoundsAssumption DEF Bounded, Records, Dated, State
  <2>2. Newer(mem[d], v, th, si) /\ si > 0 /\ th \in Nat
    BY <1>14, BoundsAssumption DEF Loud
  <2>3. Newer(mem[d], v, th, si)'
    BY <1>2, <1>3, <1>9, <1>10, <2>1, <2>2 DEF Newer
  <2>4. Unflushed(d) => Unflushed(d)'
    <3>1. \A x \in Device : file[x].at \in Nat
      BY BoundsAssumption DEF TypeOK, State
    <3>. QED  BY <1>2, <1>3, <1>9, <2>1, <3>1 DEF Unflushed
  <2>5. (\A r \in Active(d) : Newer(r, v, th, si) \/ Older(r, v, th, si))'
    BY <1>2, <1>6, <1>14 DEF Loud, Newer, Older, PeerTabs
  <2>6. (Unflushed(d) \/ Active(d) = {} \/ (file[d].writer = d /\ Newer(file[d], v, th, si)))'
    BY <1>2, <1>6, <1>14, <2>4 DEF Loud, Newer, PeerTabs
  <2>7. (\A c \in Device \ {d} : \A u \in updates[c] : u.at >= th => file[c].writer = d /\ file[c].at >= th)'
    BY <1>2, <1>14 DEF Loud
  <2>8. ASSUME NEW c \in Device \ {d}, v \in known'[c] PROVE (Coming(d, c, v, th, si) \/ InHand(d, c, v, th))'
    <3>1. Coming(d, c, v, th, si) \/ InHand(d, c, v, th)
      BY <1>2, <1>14, <2>8 DEF Loud
    <3>2. CASE Coming(d, c, v, th, si)
      BY <1>2, <1>5, <2>4, <3>2 DEF Coming
    <3>3. CASE InHand(d, c, v, th)
      BY <1>2, <1>5, <1>6, <1>8, <3>3 DEF InHand
    <3>. QED  BY <3>1, <3>2, <3>3
  <2>. QED  BY <2>2, <2>3, <2>5, <2>6, <2>7, <2>8 DEF Loud
<1>15. CASE a = d /\ ~Mute(d, v)
  <2>1. PICK th \in 0..MaxEdits, si \in 0..MaxEdits : Loud(d, v, th, si)
    BY <1>15 DEF Settled
  <2>2. Loud(d, v, th, si)'
    BY <1>14, <1>15, <2>1
  <2>. QED  BY <1>2, <1>7, <1>15, <2>2 DEF Settled
<1>. QED  BY <1>12, <1>13, <1>15

\* Before a change elsewhere, an undisturbed workspace of a device that writes alone has
\* its last change everywhere, unless the device is its author.
LEMMA BeforeEdit ==
  ASSUME TypeOK, Bounded, SyncInv, NEW d \in Device, Alone(d), NEW v \in Workspace,
         d \notin adopted, v \notin doubt, last[v] > 0
  PROVE  /\ v \in known[d] => store[d][<<d, v>>] = last[v]
         /\ Settled(d, v) \/ \A c \in Device : v \in known[c] => Basic(c, v)
<1>. PICK a \in Device : Settled(a, v)
  BY DEF SyncInv
<1>1. CASE a = d
  BY <1>1 DEF Settled
<1>2. CASE a # d
  <2>1. \A c \in Device : v \in known[c] => Basic(c, v)
    BY <1>2, Turn
  <2>. QED  BY <2>1 DEF Alone, Arriving, Basic
<1>. QED  BY <1>1, <1>2

\* A change made with nothing else on its way settles all that it mentions, and leaves
\* settled what its device does not know.
LEMMA SettledEdit ==
  ASSUME TypeOK, TypeOK', Bounded, OwnInv, SyncInv, NEW d \in Device, NEW w \in Workspace, Edit(d, w),
         NEW v \in Workspace, v \notin doubt', last'[v] > 0
  PROVE  Settled(d, v)'
<1>1. Alone(d) /\ (v \in Suspect(d) => store'[d][<<d, v>>] = last'[v])
  BY DEF Edit
<1>2. /\ updates' = updates /\ merges' = merges /\ lastSeen' = lastSeen
      /\ file' = file /\ fresh' = fresh /\ noticed' = noticed /\ known' = known
  BY DEF Edit
<1>3. /\ mem'[d].at = edits' /\ mem'[d].tabs = store'[d] /\ mem'[d].mapped = Mentioned(d, store'[d])
      /\ \A c \in Device \ {d} : store'[c] = store[c] /\ saving'[c] = saving[c]
      /\ saving'[d] = saving[d] + 1 /\ edits' = edits + 1 /\ edits \in Nat
      /\ w \in known[d]
  BY EditMem
<1>4. mem'[d].stamp[v] = IF <<d, v>> \in Mentioned(d, store'[d]) THEN edits' ELSE mem[d].stamp[v]
  <2>. DEFINE named == Mentioned(d, store'[d])
  <2>1. mem'[d] = [writer |-> d, at |-> edits', tabs |-> store'[d], mapped |-> named,
                   stamp |-> [x \in Workspace |-> IF <<d, x>> \in named THEN edits' ELSE mem[d].stamp[x]]]
    BY EditMem
  <2>. QED  BY <2>1
<1>5. store'[d][<<d, w>>] = edits' /\ last'[w] = edits'
  <2>1. store'[d] = [store[d] EXCEPT ![<<d, w>>] = edits'] /\ last' = [last EXCEPT ![w] = edits']
    BY EditMem
  <2>2. store[d] \in [Id -> 0..MaxEdits] /\ <<d, w>> \in Id /\ last \in [Workspace -> 0..MaxEdits]
    BY DEF TypeOK, Content, Id
  <2>. QED  BY <2>1, <2>2
<1>6. v # w => store'[d][<<d, v>>] = store[d][<<d, v>>] /\ last'[v] = last[v]
  <2>1. store'[d] = [store[d] EXCEPT ![<<d, w>>] = edits'] /\ last' = [last EXCEPT ![w] = edits']
    BY EditMem
  <2>2. store[d] \in [Id -> 0..MaxEdits] /\ <<d, v>> \in Id /\ last \in [Workspace -> 0..MaxEdits]
    BY DEF TypeOK, Content, Id
  <2>. QED  BY <2>1, <2>2
<1>7. \A c \in Device : \A r : r \in Pending(c)' <=> r \in Pending(c)
  BY <1>2 DEF Pending
<1>8. \A r : r \in Active(d)' <=> r \in Active(d)
  BY <1>2, <1>7 DEF Active, Sent
<1>9. Alone(d)'
  BY <1>1, <1>2, <1>3 DEF Alone, Arriving
<1>10. saving[d] \in Nat /\ edits' \in 0..MaxEdits
  BY DEF TypeOK
<1>11. v \in known[d] => store'[d][<<d, v>>] = last'[v]
  <2>1. CASE v = w
    BY <1>5, <2>1
  <2>2. CASE v # w /\ v \notin Suspect(d)
    <3>1. d \notin adopted /\ v \notin doubt
      BY <2>2 DEF Suspect
    <3>. QED  BY <1>1, <1>6, <2>2, <3>1, BeforeEdit
  <2>. QED  BY <1>1, <2>1, <2>2
<1>12. \A x \in Device : \A r \in Records(x) : Dated(r, edits) /\ Fits(r.tabs, last, known)
  BY DEF Bounded, Maps
<1>13. CASE v \in known[d]
  <2>. PICK th \in 0..MaxEdits : th = edits'
    BY <1>10
  <2>. th \in Nat /\ th = edits + 1
    BY <1>3, BoundsAssumption
  <2>1. <<d, v>> \in Mentioned(d, store'[d])
    BY <1>11, <1>13 DEF Mentioned, Id
  <2>2. PeerTabs(mem'[d], v) = last'[v]
    <3>. DEFINE ids == {i \in mem'[d].mapped : i[2] = v}
    <3>1. <<d, v>> \in ids
      BY <1>3, <2>1
    <3>2. (CHOOSE i \in ids : TRUE) \in ids
      BY <3>1
    <3>3. (CHOOSE i \in ids : TRUE) = <<d, v>>
      BY <1>3, <3>2 DEF Mentioned, Id
    <3>. QED  BY <1>3, <1>11, <1>13, <3>1, <3>3 DEF PeerTabs
  <2>3. Newer(mem[d], v, th, th)'
    BY <1>3, <1>4, <2>1, <2>2 DEF Newer
  <2>4. ASSUME NEW r \in Active(d) PROVE Older(r, v, th, th)
    <3>1. PICK x \in Device : r \in Records(x)
      BY ActiveRecord
    <3>2. r \in State /\ Dated(r, edits)
      BY <1>1, <1>12, <3>1, ActiveWriter
    <3>3. r.at \in Nat /\ r.stamp[v] \in Nat /\ r.at <= edits /\ r.stamp[v] <= edits
      BY <3>2, BoundsAssumption DEF State, Dated
    <3>. QED  BY <1>3, <3>3 DEF Older
  <2>5. (\A r \in Active(d) : Newer(r, v, th, th) \/ Older(r, v, th, th))'
    BY <1>8, <2>4 DEF Older
  <2>6. Unflushed(d)'
    <3>1. ASSUME NEW x \in Device PROVE file[x].tabs # store'[d] /\ file[x].at < edits'
      <4>1. file[x] \in Records(x) /\ file[x] \in State /\ <<d, w>> \in Id
        BY DEF Records, TypeOK, Id
      <4>2. file[x].at <= edits /\ file[x].tabs[<<d, w>>] <= last[w]
        BY <1>12, <4>1 DEF Dated, Fits
      <4>3. last[w] <= edits /\ last[w] \in Nat /\ file[x].at \in Nat /\ file[x].tabs[<<d, w>>] \in Nat
        BY <4>1, BoundsAssumption DEF Bounded, TypeOK, State, Content
      <4>. QED  BY <1>3, <1>5, <4>2, <4>3
    <3>. QED  BY <1>2, <1>3, <1>10, <3>1 DEF Unflushed
  <2>7. ASSUME NEW c \in Device \ {d}, NEW u \in updates'[c] PROVE ~(u.at >= th)
    <3>1. u \in Active(d)
      BY <1>2, <2>7 DEF Active, Pending
    <3>2. u \in State
      BY <1>1, <3>1, ActiveWriter
    <3>. QED  BY <2>4, <3>1, <3>2, BoundsAssumption DEF Older, State
  <2>8. ASSUME NEW c \in Device PROVE Coming(d, c, v, th, th)'
    <3>1. lastSeen[c][v] <= edits /\ lastSeen[c][v] \in Nat
      BY BoundsAssumption DEF Bounded, TypeOK
    <3>. QED  BY <1>2, <1>3, <2>6, <3>1 DEF Coming
  <2>9. Loud(d, v, th, th)'
    BY <1>3, <2>3, <2>5, <2>6, <2>7, <2>8 DEF Loud
  <2>. QED  BY <1>9, <1>11, <1>2, <1>13, <2>9 DEF Settled
<1>14. CASE v \notin known[d]
  <2>1. v # w
    BY <1>3, <1>14
  <2>2. store'[d][<<d, v>>] # last'[v]
    <3>1. Fits(store'[d], last', known') /\ <<d, v>> \in Id
      BY EditFits DEF Id
    <3>2. ~(store'[d][<<d, v>>] > 0)
      BY <1>2, <1>14, <3>1 DEF Fits
    <3>. QED  BY <3>2
  <2>3. d \notin adopted /\ v \notin doubt
    BY <1>1, <2>2 DEF Suspect
  <2>4. \A x \in Device : \A r \in Records(x) : r.writer = d => Own(r, d, known[d])
    BY <2>3 DEF OwnInv
  <2>5. mem[d].stamp[v] = 0 /\ Own(mem[d], d, known[d])
    <3>1. mem[d].writer = d /\ mem[d] \in State /\ mem[d] \in Records(d)
      BY <2>3 DEF OwnInv, TypeOK, Records
    <3>. QED  BY <1>14, <2>4, <3>1, OwnSays
  <2>6. ASSUME NEW r \in Active(d) PROVE r.stamp[v] = 0
    <3>1. r \in State /\ r.writer = d /\ \E x \in Device : r \in Records(x)
      BY <1>1, ActiveRecord, ActiveWriter
    <3>. QED  BY <1>14, <2>4, <3>1, OwnSays
  <2>7. \A c \in Device : v \in known[c] => Basic(c, v)
    <3>1. CASE Settled(d, v)
      <4>1. ASSUME NEW th, NEW si \in 0..MaxEdits, Loud(d, v, th, si) PROVE FALSE
        BY <2>5, <4>1, BoundsAssumption DEF Loud, Newer
      <4>. QED  BY <3>1, <4>1 DEF Settled, Mute
    <3>. QED  BY <1>1, <1>6, <2>1, <2>3, <3>1, BeforeEdit
  <2>8. \A c \in Device : v \in known'[c] => Basic(c, v)'
    BY <1>2, <1>3, <1>6, <1>14, <2>1, <2>7 DEF Basic
  <2>9. mem'[d].stamp[v] = 0
    BY <1>4, <1>14, <2>5 DEF Mentioned
  <2>10. Mute(d, v)'
    BY <1>2, <1>8, <1>14, <2>6, <2>8, <2>9 DEF Mute
  <2>. QED  BY <1>2, <1>9, <1>14, <2>10 DEF Settled
<1>. QED  BY <1>13, <1>14

LEMMA ShownInit == Init => ShownInv
<1>1. Init => SyncInv
  BY DEF Init, SyncInv
<1>. QED  BY <1>1, TypeInit, BoundedInit, OwnInit, VersionInit DEF ShownInv

LEMMA SyncNext == ShownInv /\ [Next]_vars => SyncInv'
<1> SUFFICES ASSUME ShownInv, [Next]_vars, NEW v \in Workspace, v \notin doubt', last'[v] > 0
             PROVE  (\E a \in Device : Settled(a, v))'
  BY DEF SyncInv
<1>. TypeOK /\ TypeOK' /\ Bounded /\ OwnInv /\ VersionInv /\ SyncInv
  BY TypeNext DEF ShownInv
<1>1. ASSUME NEW d \in Device, NEW w \in Workspace, Edit(d, w) PROVE Settled(d, v)'
  BY <1>1, SettledEdit
<1>2. ASSUME v \notin doubt, last' = last PROVE \E a \in Device : Settled(a, v)
  BY <1>2 DEF SyncInv
<1>3. ASSUME NEW d \in Device, Flush(d) \/ WatchRead(d) \/ \E e \in Device : Deliver(d, e)
      PROVE  (\E a \in Device : Settled(a, v))'
  <2>1. doubt' = doubt /\ last' = last
    BY <1>3 DEF Flush, WatchRead, Deliver, historyVars
  <2>2. PICK a \in Device : Settled(a, v)
    BY <1>2, <2>1
  <2>3. Settled(a, v)'
    BY <1>3, <2>2, SettledFlush, SettledRead, SettledDeliver
  <2>. QED  BY <2>3
<1>4. ASSUME NEW d \in Device,
             (\E u \in updates[d] : Resolve(d, u) \/ ResolveFails(d, u)) \/ \E m \in merges[d] : Apply(d, m)
      PROVE  (\E a \in Device : Settled(a, v))'
  <2>1. v \notin doubt /\ last' = last
    BY <1>4 DEF Resolve, ResolveFails, Apply
  <2>2. PICK a \in Device : Settled(a, v)
    BY <1>2, <2>1
  <2>3. Settled(a, v)'
    BY <1>4, <2>2, SettledResolve, SettledApply
  <2>. QED  BY <2>3
<1>5. ASSUME NEW d \in Device, ThemeSet(d) PROVE (\E a \in Device : Settled(a, v))'
  <2>1. v \notin doubt /\ last' = last
    BY <1>5 DEF ThemeSet
  <2>2. PICK a \in Device : Settled(a, v)
    BY <1>2, <2>1
  <2>3. Settled(d, v)'
    BY <1>5, <2>1, <2>2, SettledTheme
  <2>. QED  BY <2>3
<1>6. ASSUME NEW d \in Device, Reopen(d) \/ Restart(d) PROVE (\E a \in Device : Settled(a, v))'
  <2>1. v \notin doubt /\ last' = last
    BY <1>6 DEF Reopen, Restart, Hydrate
  <2>2. PICK a \in Device : Settled(a, v)
    BY <1>2, <2>1
  <2>3. Settled(a, v)'
    BY <1>6, <2>2, SettledAnew, SettledRestart
  <2>. QED  BY <2>3
<1>7. ASSUME NEW d \in Device, NEW w \in Workspace, CreateWorkspace(d, w)
      PROVE  (\E a \in Device : Settled(a, v))'
  <2>1. v \notin doubt /\ v # w /\ last' = last
    BY <1>7 DEF CreateWorkspace
  <2>2. PICK a \in Device : Settled(a, v)
    BY <1>2, <2>1
  <2>3. Settled(a, v)'
    BY <1>7, <2>1, <2>2, SettledCreate
  <2>. QED  BY <2>3
<1>8. CASE UNCHANGED vars
  <2>1. PICK a \in Device : Settled(a, v)
    BY <1>2, <1>8 DEF vars, historyVars
  <2>2. Settled(a, v)'
    <3>1. /\ store' = store /\ lastSeen' = lastSeen /\ updates' = updates /\ merges' = merges
          /\ mem' = mem /\ saving' = saving /\ file' = file /\ noticed' = noticed
          /\ fresh' = fresh /\ known' = known /\ last' = last
      BY <1>8 DEF vars, rendererVars, mainVars, historyVars
    <3>2. \A c \in Device : \A r : r \in Pending(c)' <=> r \in Pending(c)
      BY <3>1 DEF Pending
    <3>3. \A r : r \in Active(a)' => r \in Active(a)
      BY <3>1, <3>2 DEF Active, Sent
    <3>4. Alone(a)'
      BY <2>1, <3>1 DEF Settled, Alone, Arriving
    <3>5. \A c \in Device : Basic(c, v) => Basic(c, v)'
      BY <3>1 DEF Basic
    <3>6. ASSUME NEW c \in Device \ {a}, NEW th, NEW si, Loud(a, v, th, si), v \in known[c]
          PROVE  Coming(a, c, v, th, si)' \/ InHand(a, c, v, th)'
      <4>1. Coming(a, c, v, th, si) \/ InHand(a, c, v, th)
        BY <3>6 DEF Loud
      <4>. QED  BY <3>1, <3>2, <3>3, <3>5, <4>1, ReachKept
    <3>. QED  BY <2>1, <3>1, <3>3, <3>4, <3>5, <3>6, SettledKeep
  <2>. QED  BY <2>2
<1>. QED  BY <1>1, <1>3, <1>4, <1>5, <1>6, <1>7, <1>8 DEF Next

\* Once nothing is on its way, every device shows the last change of each undisturbed
\* workspace, for any number of devices, workspaces and changes.
THEOREM LastEditShownHolds == Spec => []LastEditShown
<1>1. ShownInv /\ [Next]_vars => ShownInv'
  BY TypeNext, BoundedNext, OwnNext, VersionNext, SyncNext DEF ShownInv
<1>. QED  BY <1>1, ShownInit, ShownThen, PTL DEF Spec

==============================================================================
