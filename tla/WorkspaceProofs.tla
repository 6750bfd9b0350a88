--------------------------- MODULE WorkspaceProofs ---------------------------
(***************************************************************************)
(* Workspace for any numbers of sidebar items, windows, tabs and actions:  *)
(* the filter shows what matches, the tabs stay well formed with the       *)
(* active one among them, and the palette executes what was chosen.        *)
(***************************************************************************)
EXTENDS Workspace, SequenceTheorems, WellFoundedInduction, TLAPS

-----------------------------------------------------------------------------
(* The sidebar filter *)

SidebarTyped ==
    /\ typed \in Text
    /\ shown \subseteq Item
    /\ timer \in BOOLEAN

SidebarInv == SidebarTyped /\ SidebarAgrees
-----------------------------------------------------------------------------
(* The highlight wraps around what is shown. *)

LEMMA LeastExists ==
    ASSUME NEW S \in SUBSET Nat, S # {}
    PROVE  \E j \in S : \A k \in S : j <= k
<1> DEFINE R == OpToRel(<, Nat)
<1>1. IsWellFoundedOn(R, Nat)
  BY NatLessThanWellFounded
<1>2. PICK j \in S : \A k \in S : ~(<<k, j>> \in R)
  <2> HIDE DEF R
  <2> QED BY <1>1, WFMin
<1>3. \A k \in S : ~(k < j)
  BY <1>2 DEF OpToRel
<1> QED BY <1>3

LEMMA GreatestExists ==
    ASSUME NEW S \in SUBSET Item, S # {}
    PROVE  \E j \in S : \A k \in S : j >= k
<1> DEFINE T == {Items - j : j \in S}
<1>1. T \in SUBSET Nat /\ T # {}
  <2>1. \A j \in S : Items - j \in Nat
    BY SidebarAssumption DEF Item
  <2> QED BY <2>1
<1>2. PICK t \in T : \A u \in T : t <= u
  BY <1>1, LeastExists
<1>3. PICK j \in S : t = Items - j
  BY <1>2
<1>4. \A k \in S : Items - j <= Items - k
  BY <1>2, <1>3
<1> QED BY <1>4, SidebarAssumption DEF Item

LEMMA Wraps ==
    ASSUME shown \subseteq Item, shown # {}, NEW i
    PROVE  Following(i) \in shown /\ Preceding(i) \in shown
<1> DEFINE below == {j \in shown : j > i}
           above == {j \in shown : j < i}
           least(S) == CHOOSE j \in S : \A k \in S : j <= k
           greatest(S) == CHOOSE j \in S : \A k \in S : j >= k
<1>1. ASSUME NEW S \in SUBSET shown, S # {} PROVE least(S) \in S /\ greatest(S) \in S
  <2>1. S \in SUBSET Item /\ S \in SUBSET Nat
    BY DEF Item
  <2>2. \E j \in S : \A k \in S : j <= k
    BY <1>1, <2>1, LeastExists
  <2>3. \E j \in S : \A k \in S : j >= k
    BY <1>1, <2>1, GreatestExists
  <2> QED BY <2>2, <2>3
<1>2. Following(i) = IF below # {} THEN least(below) ELSE least(shown)
  BY DEF Following
<1>3. Preceding(i) = IF above # {} THEN greatest(above) ELSE greatest(shown)
  BY DEF Preceding
<1>4. below \in SUBSET shown /\ above \in SUBSET shown
  OBVIOUS
<1> HIDE DEF below, above, least, greatest
<1>5. Following(i) \in shown
  BY <1>1, <1>2, <1>4
<1>6. Preceding(i) \in shown
  BY <1>1, <1>3, <1>4
<1> QED BY <1>5, <1>6
-----------------------------------------------------------------------------
LEMMA InitSidebar == SidebarInit => SidebarInv
BY SidebarAssumption DEF SidebarInit, SidebarInv, SidebarTyped, SidebarAgrees

\* A step keeps the invariant; so does leaving everything as it is.
LEMMA StepSidebar == SidebarInv /\ [SidebarNext]_sidebarVars => SidebarInv'
<1> SUFFICES ASSUME SidebarInv, [SidebarNext]_sidebarVars PROVE SidebarInv'
  OBVIOUS
<1>1. CASE UNCHANGED sidebarVars
  BY <1>1 DEF sidebarVars, SidebarInv, SidebarTyped, SidebarAgrees
<1>2. CASE TypeFilter
  BY <1>2 DEF TypeFilter, SidebarInv, SidebarTyped, SidebarAgrees
<1>3. ASSUME NEW q \in Text, ApplySidebarFilter(q), typed' = q, timer' \in BOOLEAN PROVE SidebarInv'
  BY <1>3, SidebarAssumption DEF ApplySidebarFilter, SidebarInv, SidebarTyped, SidebarAgrees
<1>4. CASE FilterTimer
  BY <1>3, <1>4 DEF FilterTimer, SidebarInv, SidebarTyped
<1>5. CASE ClearFilter
  BY <1>3, <1>5, SidebarAssumption DEF ClearFilter, SidebarInv, SidebarTyped
<1>6. CASE SidebarMorphed
  BY <1>3, <1>6 DEF SidebarMorphed, SidebarInv, SidebarTyped
<1>7. CASE MoveSidebarSelection
  <2>1. highlight' \in shown /\ UNCHANGED <<typed, shown, timer>>
    BY <1>7, Wraps DEF MoveSidebarSelection, SidebarInv, SidebarTyped
  <2> QED BY <2>1 DEF SidebarInv, SidebarTyped, SidebarAgrees
<1>8. ASSUME NEW i \in Item, ActivateSidebarSelection(i) \/ ClickSidebarItem(i) PROVE SidebarInv'
  BY <1>1, <1>8 DEF ActivateSidebarSelection, ClickSidebarItem
<1>9. CASE SidebarReplaced
  BY <1>9, SidebarAssumption DEF SidebarReplaced, SidebarInv, SidebarTyped, SidebarAgrees
<1> QED BY <1>1, <1>2, <1>4, <1>5, <1>6, <1>7, <1>8, <1>9 DEF SidebarNext, SidebarStep

(***************************************************************************)
(* For every sidebar: once no filter is pending what is shown is what      *)
(* matches the input, and Enter opens nothing that is hidden.              *)
(***************************************************************************)
THEOREM FilterAgrees == SidebarSpec => []SidebarAgrees
<1>1. SidebarInv => SidebarAgrees
  BY DEF SidebarInv
<1> QED BY InitSidebar, StepSidebar, <1>1, PTL DEF SidebarSpec
-----------------------------------------------------------------------------
(* The tabs: lists *)

Distinct(s) == \A i, j \in DOMAIN s : s[i].id = s[j].id => i = j
DistinctUrls(s) == \A i, j \in DOMAIN s : s[i].url = s[j].url => i = j

LEMMA Thinned ==
    ASSUME NEW s \in Seq(Tab), NEW t \in Seq(Tab), NEW f \in [DOMAIN t -> DOMAIN s],
           \A k, l \in DOMAIN t : f[k] = f[l] => k = l,
           \A k \in DOMAIN t : t[k] = s[f[k]]
    PROVE  /\ Ids(t) \subseteq Ids(s) /\ Urls(t) \subseteq Urls(s)
           /\ Distinct(s) => Distinct(t)
           /\ DistinctUrls(s) => DistinctUrls(t)
<1>1. Ids(t) \subseteq Ids(s) /\ Urls(t) \subseteq Urls(s)
  BY DEF Ids, Urls
<1>2. Distinct(s) => Distinct(t)
  BY DEF Distinct
<1>3. DistinctUrls(s) => DistinctUrls(t)
  BY DEF DistinctUrls
<1> QED BY <1>1, <1>2, <1>3

LEMMA Removed ==
    ASSUME NEW s \in Seq(Tab), NEW i \in DOMAIN s
    PROVE  /\ RemoveAt(s, i) \in Seq(Tab) /\ Len(RemoveAt(s, i)) = Len(s) - 1
           /\ Ids(RemoveAt(s, i)) \subseteq Ids(s) /\ Urls(RemoveAt(s, i)) \subseteq Urls(s)
           /\ Ids(s) \subseteq Ids(RemoveAt(s, i)) \cup {s[i].id}
           /\ Distinct(s) => Distinct(RemoveAt(s, i)) /\ s[i].id \notin Ids(RemoveAt(s, i))
           /\ DistinctUrls(s) => DistinctUrls(RemoveAt(s, i))
<1>1. PICK t : t = RemoveAt(s, i)
  OBVIOUS
<1>2. PICK a : a = SubSeq(s, 1, i - 1)
  OBVIOUS
<1>3. PICK b : b = SubSeq(s, i + 1, Len(s))
  OBVIOUS
<1>4. /\ t \in Seq(Tab) /\ Len(t) = Len(s) - 1
      /\ \A k \in DOMAIN t : t[k] = IF k < i THEN s[k] ELSE s[k + 1]
  <2>1. a \in Seq(Tab) /\ Len(a) = i - 1 /\ \A k \in 1..(i - 1) : a[k] = s[k]
    BY <1>2
  <2>2. b \in Seq(Tab) /\ Len(b) = Len(s) - i /\ \A k \in 1..(Len(s) - i) : b[k] = s[k + i]
    BY <1>3
  <2>3. t = a \o b
    BY <1>1, <1>2, <1>3 DEF RemoveAt
  <2>4. /\ t \in Seq(Tab) /\ Len(t) = Len(a) + Len(b)
        /\ \A k \in 1..(Len(a) + Len(b)) : t[k] = IF k <= Len(a) THEN a[k] ELSE b[k - Len(a)]
    BY <2>1, <2>2, <2>3, ConcatProperties
  <2>5. Len(t) = Len(s) - 1 /\ DOMAIN t = 1..(Len(a) + Len(b))
    BY <2>1, <2>2, <2>4
  <2>6. ASSUME NEW k \in DOMAIN t PROVE t[k] = IF k < i THEN s[k] ELSE s[k + 1]
    <3>1. CASE k < i
      <4>1. k <= Len(a) /\ k \in 1..(i - 1)
        BY <2>1, <2>5, <3>1
      <4> QED BY <2>1, <2>4, <2>5, <3>1, <4>1
    <3>2. CASE ~(k < i)
      <4>1. PICK m : m = k - Len(a)
        OBVIOUS
      <4>2. k \in 1..(Len(s) - 1) /\ i \in 1..Len(s) /\ Len(a) = i - 1 /\ Len(s) \in Nat
        BY <2>1, <2>2, <2>5
      <4>3. m \in 1..(Len(s) - i) /\ m + i = k + 1 /\ ~(k <= Len(a))
        BY <3>2, <4>1, <4>2
      <4>4. t[k] = b[m]
        BY <2>4, <2>5, <4>1, <4>3
      <4> QED BY <2>2, <3>2, <4>3, <4>4
    <3> QED BY <3>1, <3>2
  <2> QED BY <2>4, <2>5, <2>6
<1> DEFINE f == [k \in DOMAIN t |-> IF k < i THEN k ELSE k + 1]
<1>5. /\ f \in [DOMAIN t -> DOMAIN s]
      /\ \A k, l \in DOMAIN t : f[k] = f[l] => k = l
      /\ \A k \in DOMAIN t : t[k] = s[f[k]] /\ f[k] # i
  BY <1>4
<1>6. \A j \in DOMAIN s : j # i => \E k \in DOMAIN t : f[k] = j
  <2> SUFFICES ASSUME NEW j \in DOMAIN s, j # i PROVE \E k \in DOMAIN t : f[k] = j
    OBVIOUS
  <2>1. CASE j < i
    <3>1. j \in DOMAIN t /\ f[j] = j
      BY <1>4, <2>1
    <3> QED BY <3>1
  <2>2. CASE j > i
    <3>1. j - 1 \in DOMAIN t /\ f[j - 1] = j
      BY <1>4, <2>2
    <3> QED BY <3>1
  <2> QED BY <2>1, <2>2
<1> HIDE DEF f
<1>7. /\ Ids(t) \subseteq Ids(s) /\ Urls(t) \subseteq Urls(s)
      /\ Distinct(s) => Distinct(t)
      /\ DistinctUrls(s) => DistinctUrls(t)
  BY <1>4, <1>5, Thinned
<1>8. Ids(s) \subseteq Ids(t) \cup {s[i].id}
  BY <1>5, <1>6 DEF Ids
<1>9. Distinct(s) => s[i].id \notin Ids(t)
  BY <1>5 DEF Ids, Distinct
<1> QED BY <1>1, <1>4, <1>7, <1>8, <1>9

LEMMA Cut ==
    ASSUME NEW s \in Seq(Tab), NEW n \in 0..Len(s)
    PROVE  /\ SubSeq(s, 1, n) \in Seq(Tab) /\ Len(SubSeq(s, 1, n)) = n
           /\ \A k \in 1..n : SubSeq(s, 1, n)[k] = s[k]
           /\ Ids(SubSeq(s, 1, n)) \subseteq Ids(s)
           /\ Distinct(s) => Distinct(SubSeq(s, 1, n))
           /\ DistinctUrls(s) => DistinctUrls(SubSeq(s, 1, n))
<1>1. PICK t : t = SubSeq(s, 1, n)
  OBVIOUS
<1>2. t \in Seq(Tab) /\ Len(t) = n /\ \A k \in 1..n : t[k] = s[k]
  BY <1>1
<1> DEFINE f == [k \in DOMAIN t |-> k]
<1>3. /\ f \in [DOMAIN t -> DOMAIN s]
      /\ \A k, l \in DOMAIN t : f[k] = f[l] => k = l
      /\ \A k \in DOMAIN t : t[k] = s[f[k]]
  BY <1>2
<1> HIDE DEF f
<1>4. /\ Ids(t) \subseteq Ids(s)
      /\ Distinct(s) => Distinct(t)
      /\ DistinctUrls(s) => DistinctUrls(t)
  BY <1>2, <1>3, Thinned
<1> QED BY <1>1, <1>2, <1>4

LEMMA Beheaded ==
    ASSUME NEW s \in Seq(Tab), s # <<>>
    PROVE  /\ Head(s) \in Tab /\ Tail(s) \in Seq(Tab) /\ Len(Tail(s)) = Len(s) - 1
           /\ Ids(s) = Ids(Tail(s)) \cup {Head(s).id}
           /\ Distinct(s) => Distinct(Tail(s)) /\ Head(s).id \notin Ids(Tail(s))
<1>1. PICK t : t = Tail(s)
  OBVIOUS
<1>2. /\ t \in Seq(Tab) /\ Len(t) = Len(s) - 1 /\ Head(s) = s[1] /\ Head(s) \in Tab
      /\ \A k \in DOMAIN t : t[k] = s[k + 1]
  BY <1>1
<1> DEFINE f == [k \in DOMAIN t |-> k + 1]
<1>3. /\ f \in [DOMAIN t -> DOMAIN s]
      /\ \A k, l \in DOMAIN t : f[k] = f[l] => k = l
      /\ \A k \in DOMAIN t : t[k] = s[f[k]] /\ f[k] # 1
      /\ 1 \in DOMAIN s
  BY <1>2
<1>4. \A j \in DOMAIN s : j # 1 => \E k \in DOMAIN t : f[k] = j
  <2> SUFFICES ASSUME NEW j \in DOMAIN s, j # 1 PROVE \E k \in DOMAIN t : f[k] = j
    OBVIOUS
  <2>1. j - 1 \in DOMAIN t /\ f[j - 1] = j
    BY <1>2
  <2> QED BY <2>1
<1> HIDE DEF f
<1>5. Ids(t) \subseteq Ids(s) /\ (Distinct(s) => Distinct(t))
  BY <1>2, <1>3, Thinned
<1>6. Ids(s) = Ids(t) \cup {s[1].id}
  BY <1>3, <1>4, <1>5 DEF Ids
<1>7. Distinct(s) => s[1].id \notin Ids(t)
  BY <1>3 DEF Ids, Distinct
<1> QED BY <1>1, <1>2, <1>5, <1>6, <1>7

LEMMA Appended ==
    ASSUME NEW s \in Seq(Tab), NEW x \in Tab
    PROVE  /\ Append(s, x) \in Seq(Tab) /\ Len(Append(s, x)) = Len(s) + 1
           /\ Ids(Append(s, x)) = Ids(s) \cup {x.id}
           /\ Distinct(s) /\ x.id \notin Ids(s) => Distinct(Append(s, x))
           /\ DistinctUrls(s) /\ x.url \notin Urls(s) => DistinctUrls(Append(s, x))
<1>1. PICK t : t = Append(s, x)
  OBVIOUS
<1>2. /\ t \in Seq(Tab) /\ Len(t) = Len(s) + 1 /\ t[Len(s) + 1] = x
      /\ \A k \in DOMAIN s : k \in DOMAIN t /\ t[k] = s[k]
      /\ \A k \in DOMAIN t : k \in DOMAIN s \/ k = Len(s) + 1
      /\ Len(s) + 1 \in DOMAIN t
  BY <1>1
<1>3. PICK n : n = Len(s) + 1
  OBVIOUS
<1>4. Ids(t) = Ids(s) \cup {x.id}
  BY <1>2, <1>3 DEF Ids
<1>5. Distinct(s) /\ x.id \notin Ids(s) => Distinct(t)
  BY <1>2, <1>3 DEF Ids, Distinct
<1>6. DistinctUrls(s) /\ x.url \notin Urls(s) => DistinctUrls(t)
  BY <1>2, <1>3 DEF Urls, DistinctUrls
<1> QED BY <1>1, <1>2, <1>4, <1>5, <1>6

LEMMA Prepended ==
    ASSUME NEW s \in Seq(Tab), NEW x \in Tab
    PROVE  /\ <<x>> \o s \in Seq(Tab) /\ Len(<<x>> \o s) = Len(s) + 1
           /\ Ids(<<x>> \o s) = Ids(s) \cup {x.id}
           /\ Distinct(s) /\ x.id \notin Ids(s) => Distinct(<<x>> \o s)
<1>1. PICK t : t = <<x>> \o s
  OBVIOUS
<1>2. /\ t \in Seq(Tab) /\ Len(t) = Len(s) + 1 /\ t[1] = x
      /\ \A k \in DOMAIN s : k + 1 \in DOMAIN t /\ t[k + 1] = s[k]
      /\ \A k \in DOMAIN t : k # 1 => k - 1 \in DOMAIN s /\ t[k] = s[k - 1]
      /\ 1 \in DOMAIN t
  BY <1>1
<1>3. Ids(t) = Ids(s) \cup {x.id}
  BY <1>2 DEF Ids
<1>4. Distinct(s) /\ x.id \notin Ids(s) => Distinct(t)
  <2> SUFFICES ASSUME Distinct(s), x.id \notin Ids(s), NEW i \in DOMAIN t, NEW j \in DOMAIN t,
                      t[i].id = t[j].id
               PROVE  i = j
    BY DEF Distinct
  <2>1. CASE i # 1 /\ j # 1
    <3>1. i - 1 = j - 1
      BY <1>2, <2>1 DEF Distinct
    <3> QED BY <1>2, <3>1
  <2>2. CASE i = 1 \/ j = 1
    BY <1>2, <2>2 DEF Ids
  <2> QED BY <2>1, <2>2
<1> QED BY <1>1, <1>2, <1>3, <1>4
-----------------------------------------------------------------------------
(* The tabs: one copy and one call *)

Copy == [open : Seq(Tab), active : Id \cup {None}, closed : Seq(Tab)]
TabCalls == {"switch-tab", "close-tab", "close-active-tab", "reopen-last-closed-tab",
             "openWorkspaceTab", "close-all-to-right", "close-all", "close-others"}
TabEvent == [name : TabCalls, id : Id \cup {None}, url : Url \cup {NoUrl}]
Opens(e) == e.name = "openWorkspaceTab"

Held(c) == Ids(c.open) \cup Ids(c.closed)
Within(c) == Len(c.open) <= MaxTabs /\ Len(c.closed) <= MaxClosed
Apart(c) == Distinct(c.open) /\ Distinct(c.closed) /\ Ids(c.open) \cap Ids(c.closed) = {}

\* A copy as it should be, but for the active tab.
Sound(c) == c \in Copy /\ Within(c) /\ Apart(c) /\ DistinctUrls(c.open)

ActiveOpen(c) == IF c.open = <<>> THEN c.active = None ELSE c.active \in Ids(c.open)

\* What a handler makes of c and the id it brings along.
Handled(c, d, new) ==
    /\ Sound(d)
    /\ Held(d) \subseteq Held(c) \cup new

LEMMA IdsTyped == \A s \in Seq(Tab) : Ids(s) \subseteq Id
<1> SUFFICES ASSUME NEW s \in Seq(Tab), NEW i \in DOMAIN s PROVE s[i].id \in Id
  BY DEF Ids
<1>1. s[i] \in Tab
  OBVIOUS
<1> QED BY <1>1 DEF Tab

LEMMA IdsInside ==
    ASSUME NEW s \in Seq(Tab)
    PROVE  /\ s = <<>> <=> Ids(s) = {}
           /\ \A i \in DOMAIN s : s[i].id \in Ids(s)
           /\ \A id \in Ids(s) : IndexOf(s, id) \in DOMAIN s /\ s[IndexOf(s, id)].id = id
           /\ \A id : id \notin Ids(s) => IndexOf(s, id) = 0
<1>1. \A i \in DOMAIN s : s[i].id \in Ids(s)
  BY DEF Ids
<1>2. s # <<>> => 1 \in DOMAIN s
  OBVIOUS
<1>3. s = <<>> <=> Ids(s) = {}
  <2>1. s = <<>> => DOMAIN s = {}
    OBVIOUS
  <2> QED BY <1>1, <1>2, <2>1 DEF Ids
<1>4. \A id \in Ids(s) : IndexOf(s, id) \in DOMAIN s /\ s[IndexOf(s, id)].id = id
  BY DEF Ids, IndexOf
<1>5. \A id : id \notin Ids(s) => IndexOf(s, id) = 0
  BY DEF Ids, IndexOf
<1> QED BY <1>1, <1>3, <1>4, <1>5

LEMMA ByIdInside ==
    ASSUME NEW s \in Seq(Tab), NEW url \in Urls(s)
    PROVE  ById(s, url) \in Ids(s)
BY DEF ById, Ids, Urls

LEMMA RoomMade ==
    ASSUME NEW c \in Copy
    PROVE  /\ Room(c) \in Seq(Tab)
           /\ Len(c.open) <= MaxTabs => Len(Room(c)) < MaxTabs
           /\ Ids(Room(c)) \subseteq Ids(c.open) /\ Urls(Room(c)) \subseteq Urls(c.open)
           /\ Distinct(c.open) => Distinct(Room(c))
           /\ DistinctUrls(c.open) => DistinctUrls(Room(c))
<1>1. PICK s \in Seq(Tab) : s = c.open
  BY DEF Copy
<1> DEFINE others == {i \in DOMAIN s : s[i].id # c.active}
           first == IF others = {} THEN 1
                    ELSE CHOOSE i \in others : \A j \in others : i <= j
<1>2. Room(c) = IF Len(s) < MaxTabs THEN s ELSE RemoveAt(s, first)
  BY <1>1 DEF Room
<1>3. CASE Len(s) < MaxTabs
  BY <1>1, <1>2, <1>3
<1>4. CASE ~(Len(s) < MaxTabs)
  <2>1. 1 \in DOMAIN s
    BY <1>4, TabsAssumption
  <2>2. others \in SUBSET Nat
    OBVIOUS
  <2>3. others # {} => \E i \in others : \A j \in others : i <= j
    <3> HIDE DEF others
    <3> QED BY <2>2, LeastExists
  <2>4. first \in DOMAIN s
    BY <2>1, <2>3
  <2> HIDE DEF first
  <2>5. Len(s) <= MaxTabs => Len(s) - 1 < MaxTabs
    BY TabsAssumption
  <2> QED BY <1>1, <1>2, <1>4, <2>4, <2>5, Removed
<1> QED BY <1>3, <1>4

LEMMA FirstOfShort ==
    ASSUME NEW s \in Seq(Tab), NEW n \in Nat
    PROVE  /\ FirstOf(s, n) \in Seq(Tab) /\ Len(FirstOf(s, n)) <= n
           /\ Ids(FirstOf(s, n)) \subseteq Ids(s)
           /\ Distinct(s) => Distinct(FirstOf(s, n))
<1>1. PICK m \in 0..Len(s) : m = (IF Len(s) < n THEN Len(s) ELSE n) /\ m <= n
  OBVIOUS
<1> QED BY <1>1, Cut DEF FirstOf

LEMMA SwitchHandled ==
    ASSUME NEW c, Sound(c), NEW id \in Id
    PROVE  /\ Handled(c, SwitchTab(c, id), {})
           /\ id \in Ids(c.open) => ActiveOpen(SwitchTab(c, id))
<1>1. PICK d : d = SwitchTab(c, id)
  OBVIOUS
<1>2. d \in Copy /\ d.open = c.open /\ d.closed = c.closed /\ d.active = id
  BY <1>1 DEF SwitchTab, Sound, Copy
<1>3. Handled(c, d, {})
  BY <1>2 DEF Handled, Sound, Within, Apart, Held
<1>4. id \in Ids(c.open) => c.open # <<>>
  BY IdsInside DEF Sound, Copy
<1> QED BY <1>1, <1>2, <1>3, <1>4 DEF ActiveOpen

LEMMA CloseHandled ==
    ASSUME NEW c, Sound(c), NEW id
    PROVE  /\ Handled(c, CloseTab(c, id), {})
           /\ ActiveOpen(c) => ActiveOpen(CloseTab(c, id))
           /\ id \notin Ids(c.open) => CloseTab(c, id) = c
<1>1. PICK s \in Seq(Tab), q \in Seq(Tab) : s = c.open /\ q = c.closed
  BY DEF Sound, Copy
<1>2. CASE id \notin Ids(s)
  <2>1. CloseTab(c, id) = c
    BY <1>1, <1>2, IdsInside DEF CloseTab
  <2> QED BY <2>1 DEF Handled
<1>3. CASE id \in Ids(s)
  <2>1. PICK i \in DOMAIN s : i = IndexOf(s, id) /\ i # 0 /\ s[i].id = id
    BY <1>3, IdsInside
  <2>2. PICK left \in Seq(Tab) : left = RemoveAt(s, i)
    BY Removed
  <2>3. /\ Len(left) = Len(s) - 1 /\ Ids(left) \subseteq Ids(s) /\ Ids(s) \subseteq Ids(left) \cup {id}
        /\ Distinct(left) /\ id \notin Ids(left) /\ DistinctUrls(left)
    <3>1. Distinct(s) /\ DistinctUrls(s)
      BY <1>1 DEF Sound, Apart
    <3> QED BY <2>1, <2>2, <3>1, Removed
  <2>4. PICK new : new = FirstOf(<<s[i]>> \o q, MaxClosed)
    OBVIOUS
  <2>5. new \in Seq(Tab) /\ Len(new) <= MaxClosed /\ Distinct(new) /\ Ids(new) \subseteq Ids(q) \cup {id}
    <3>1. PICK r \in Seq(Tab) : r = <<s[i]>> \o q /\ Ids(r) = Ids(q) \cup {id} /\ Distinct(r)
      <4>1. s[i].id \notin Ids(q) /\ Distinct(q) /\ s[i] \in Tab
        BY <1>1, <1>3, <2>1 DEF Sound, Apart
      <4> QED BY <2>1, <4>1, Prepended
    <3> QED BY <2>4, <3>1, FirstOfShort, TabsAssumption
  <2>6. PICK adjacent : adjacent = (IF left = <<>> THEN None
                                    ELSE IF i <= Len(left) THEN left[i].id ELSE Last(left).id)
    OBVIOUS
  <2>7. IF left = <<>> THEN adjacent = None ELSE adjacent \in Ids(left)
    <3>1. left # <<>> => Len(left) \in DOMAIN left /\ Last(left) = left[Len(left)]
      BY DEF Last
    <3>2. i <= Len(left) => i \in DOMAIN left
      OBVIOUS
    <3> QED BY <2>6, <3>1, <3>2, IdsInside
  <2>8. PICK active : active = (IF c.active = id THEN adjacent ELSE c.active)
    OBVIOUS
  <2>9. CloseTab(c, id) = [open |-> left, active |-> active, closed |-> new]
    BY <1>1, <2>1, <2>2, <2>4, <2>6, <2>8 DEF CloseTab
  <2>10. active \in Id \cup {None}
    BY <2>7, <2>8, IdsTyped DEF Sound, Copy
  <2>11. ActiveOpen(c) => IF left = <<>> THEN active = None ELSE active \in Ids(left)
    <3> SUFFICES ASSUME ActiveOpen(c)
                 PROVE  IF left = <<>> THEN active = None ELSE active \in Ids(left)
      OBVIOUS
    <3>1. c.active \in Ids(s)
      BY <1>1, <1>3, IdsInside DEF ActiveOpen
    <3>2. left = <<>> => c.active = id
      BY <2>3, <3>1, IdsInside
    <3> QED BY <2>3, <2>7, <2>8, <3>1, <3>2
  <2>12. PICK d : d = CloseTab(c, id)
    OBVIOUS
  <2>13. d \in Copy /\ d.open = left /\ d.active = active /\ d.closed = new
    BY <2>5, <2>9, <2>10, <2>12 DEF Copy
  <2>14. Within(d) /\ DistinctUrls(d.open)
    BY <1>1, <2>3, <2>5, <2>13, TabsAssumption DEF Sound, Within
  <2>15. Apart(d) /\ Held(d) \subseteq Held(c)
    BY <1>1, <1>3, <2>3, <2>5, <2>13 DEF Sound, Apart, Held
  <2> QED BY <1>1, <1>3, <2>11, <2>12, <2>13, <2>14, <2>15 DEF Handled, Sound, ActiveOpen
<1> QED BY <1>2, <1>3

LEMMA ReopenHandled ==
    ASSUME NEW c, Sound(c)
    PROVE  /\ Handled(c, ReopenLastClosed(c), {})
           /\ ActiveOpen(c) => ActiveOpen(ReopenLastClosed(c))
           /\ c.closed = <<>> => ReopenLastClosed(c) = c
<1>1. PICK s \in Seq(Tab), q \in Seq(Tab) : s = c.open /\ q = c.closed
  BY DEF Sound, Copy
<1>2. CASE q = <<>>
  <2>1. ReopenLastClosed(c) = c
    BY <1>1, <1>2 DEF ReopenLastClosed
  <2> QED BY <2>1 DEF Handled
<1>3. CASE q # <<>>
  <2>1. PICK tab \in Tab, rest \in Seq(Tab) : tab = Head(q) /\ rest = Tail(q)
    BY <1>3, Beheaded
  <2>2. /\ Len(rest) = Len(q) - 1 /\ Ids(q) = Ids(rest) \cup {tab.id}
        /\ Distinct(rest) /\ tab.id \notin Ids(rest) /\ tab.id \notin Ids(s)
    BY <1>1, <1>3, <2>1, Beheaded DEF Sound, Apart
  <2>3. Len(rest) <= MaxClosed
    BY <1>1, <2>2, TabsAssumption DEF Sound, Within
  <2>4. PICK d : d = ReopenLastClosed(c)
    OBVIOUS
  <2>5. CASE tab.url \in Urls(s)
    <3>1. ById(s, tab.url) \in Ids(s)
      BY <2>5, ByIdInside
    <3>2. /\ d \in Copy /\ d.open = s /\ d.closed = rest /\ d.active = ById(s, tab.url)
      BY <1>1, <1>3, <2>1, <2>4, <2>5, <3>1, IdsTyped DEF ReopenLastClosed, Sound, Copy
    <3>3. Within(d) /\ DistinctUrls(d.open)
      BY <1>1, <2>3, <3>2 DEF Sound, Within
    <3>4. Apart(d) /\ Held(d) \subseteq Held(c)
      BY <1>1, <2>2, <3>2 DEF Sound, Apart, Held
    <3>5. ActiveOpen(d)
      BY <3>1, <3>2, IdsInside DEF ActiveOpen
    <3> QED BY <1>1, <1>3, <2>4, <3>2, <3>3, <3>4, <3>5 DEF Handled, Sound
  <2>6. CASE tab.url \notin Urls(s)
    <3>1. PICK room \in Seq(Tab) :
             /\ room = Room(c) /\ Len(room) < MaxTabs
             /\ Ids(room) \subseteq Ids(s) /\ Urls(room) \subseteq Urls(s)
             /\ Distinct(room) /\ DistinctUrls(room)
      BY <1>1, RoomMade DEF Sound, Within, Apart
    <3>2. PICK new : new = Append(room, tab)
      OBVIOUS
    <3>3. /\ new \in Seq(Tab) /\ Len(new) = Len(room) + 1 /\ Ids(new) = Ids(room) \cup {tab.id}
          /\ Distinct(new) /\ DistinctUrls(new)
      BY <2>2, <2>6, <3>1, <3>2, Appended
    <3>4. /\ d \in Copy /\ d.open = new /\ d.closed = rest /\ d.active = tab.id
      BY <1>1, <1>3, <2>1, <2>4, <2>6, <3>1, <3>2, <3>3
         DEF ReopenLastClosed, Sound, Copy, Tab
    <3>5. Within(d) /\ DistinctUrls(d.open)
      BY <1>1, <2>3, <3>1, <3>3, <3>4, TabsAssumption DEF Sound, Within
    <3>6. Apart(d) /\ Held(d) \subseteq Held(c)
      BY <1>1, <2>2, <3>1, <3>3, <3>4 DEF Sound, Apart, Held
    <3>7. ActiveOpen(d)
      BY <3>3, <3>4, IdsInside DEF ActiveOpen
    <3> QED BY <1>1, <1>3, <2>4, <3>4, <3>5, <3>6, <3>7 DEF Handled, Sound
  <2> QED BY <2>5, <2>6
<1> QED BY <1>2, <1>3

LEMMA OpenHandled ==
    ASSUME NEW c, Sound(c), NEW url \in Url, NEW id \in Id, id \notin Held(c)
    PROVE  /\ Handled(c, OpenTab(c, url, id), {id})
           /\ ActiveOpen(OpenTab(c, url, id))
<1>1. PICK s \in Seq(Tab) : s = c.open
  BY DEF Sound, Copy
<1>2. PICK d : d = OpenTab(c, url, id)
  OBVIOUS
<1>3. CASE url \in Urls(s)
  <2>1. ById(s, url) \in Ids(s)
    BY <1>3, ByIdInside
  <2>2. d \in Copy /\ d.open = s /\ d.closed = c.closed /\ d.active = ById(s, url)
    BY <1>1, <1>2, <1>3, <2>1, IdsTyped DEF OpenTab, Sound, Copy
  <2>3. Sound(d) /\ Held(d) \subseteq Held(c)
    BY <1>1, <2>2 DEF Sound, Within, Apart, Held
  <2>4. ActiveOpen(d)
    BY <2>1, <2>2, IdsInside DEF ActiveOpen
  <2> QED BY <1>2, <2>3, <2>4 DEF Handled
<1>4. CASE url \notin Urls(s)
  <2>1. PICK room \in Seq(Tab) :
           /\ room = Room(c) /\ Len(room) < MaxTabs
           /\ Ids(room) \subseteq Ids(s) /\ Urls(room) \subseteq Urls(s)
           /\ Distinct(room) /\ DistinctUrls(room)
    BY <1>1, RoomMade DEF Sound, Within, Apart
  <2>2. PICK tab : tab = [id |-> id, url |-> url]
    OBVIOUS
  <2> tab \in Tab /\ tab.id = id /\ tab.url = url
    BY <2>2 DEF Tab
  <2>3. PICK new : new = Append(room, tab)
    OBVIOUS
  <2>4. id \notin Ids(s) /\ id \notin Ids(c.closed)
    BY <1>1 DEF Held
  <2>5. /\ new \in Seq(Tab) /\ Len(new) = Len(room) + 1 /\ Ids(new) = Ids(room) \cup {id}
        /\ Distinct(new) /\ DistinctUrls(new)
    BY <1>4, <2>1, <2>2, <2>3, <2>4, Appended
  <2>6. d \in Copy /\ d.open = new /\ d.closed = c.closed /\ d.active = id
    BY <1>1, <1>2, <1>4, <2>1, <2>2, <2>3, <2>5 DEF OpenTab, Sound, Copy
  <2>7. Within(d) /\ DistinctUrls(d.open)
    BY <2>1, <2>5, <2>6, TabsAssumption DEF Sound, Within
  <2>8. Apart(d) /\ Held(d) \subseteq Held(c) \cup {id}
    BY <1>1, <2>1, <2>4, <2>5, <2>6 DEF Sound, Apart, Held
  <2>9. ActiveOpen(d)
    BY <2>5, <2>6, IdsInside DEF ActiveOpen
  <2> QED BY <1>2, <2>6, <2>7, <2>8, <2>9 DEF Handled, Sound
<1> QED BY <1>3, <1>4

LEMMA CutHandled ==
    ASSUME NEW c, Sound(c), NEW id
    PROVE  /\ Handled(c, CloseAllToRight(c, id), {})
           /\ ActiveOpen(c) => ActiveOpen(CloseAllToRight(c, id))
           /\ id \notin Ids(c.open) => CloseAllToRight(c, id) = c
<1>1. PICK s \in Seq(Tab) : s = c.open
  BY DEF Sound, Copy
<1>2. CASE id \notin Ids(s)
  <2>1. CloseAllToRight(c, id) = c
    BY <1>1, <1>2, IdsInside DEF CloseAllToRight
  <2> QED BY <2>1 DEF Handled
<1>3. CASE id \in Ids(s)
  <2>1. PICK i \in DOMAIN s : i = IndexOf(s, id) /\ i # 0 /\ s[i].id = id
    BY <1>3, IdsInside
  <2>2. PICK left : left = SubSeq(s, 1, i)
    OBVIOUS
  <2>3. /\ left \in Seq(Tab) /\ Len(left) = i /\ left[i] = s[i] /\ Len(left) <= Len(s)
        /\ Ids(left) \subseteq Ids(s) /\ Distinct(left) /\ DistinctUrls(left)
    <3>1. i \in 0..Len(s) /\ i \in 1..i
      OBVIOUS
    <3> QED BY <1>1, <2>2, <3>1, Cut DEF Sound, Apart
  <2>4. id \in Ids(left)
    <3>1. i \in DOMAIN left
      BY <2>3
    <3> QED BY <2>1, <2>3, <3>1, IdsInside
  <2>5. PICK active : active = (IF c.active \in Ids(left) THEN c.active ELSE id)
    OBVIOUS
  <2>6. active \in Ids(left)
    BY <2>4, <2>5
  <2>7. PICK d : d = CloseAllToRight(c, id)
    OBVIOUS
  <2>8. d \in Copy /\ d.open = left /\ d.closed = c.closed /\ d.active = active
    BY <1>1, <2>1, <2>2, <2>3, <2>5, <2>6, <2>7, IdsTyped DEF CloseAllToRight, Sound, Copy
  <2>9. Within(d) /\ DistinctUrls(d.open)
    BY <1>1, <2>3, <2>8, TabsAssumption DEF Sound, Within
  <2>10. Apart(d) /\ Held(d) \subseteq Held(c)
    BY <1>1, <2>3, <2>8 DEF Sound, Apart, Held
  <2>11. ActiveOpen(d)
    BY <2>3, <2>6, <2>8, IdsInside DEF ActiveOpen
  <2> QED BY <1>1, <1>3, <2>7, <2>8, <2>9, <2>10, <2>11 DEF Handled, Sound
<1> QED BY <1>2, <1>3

LEMMA CloseAllHandled ==
    ASSUME NEW c, Sound(c), NEW d, d = [c EXCEPT !.open = <<>>, !.active = None]
    PROVE  Handled(c, d, {}) /\ ActiveOpen(d)
<1>1. d \in Copy /\ d.open = <<>> /\ d.closed = c.closed /\ d.active = None
  <2>1. <<>> \in Seq(Tab) /\ None \in Id \cup {None} /\ c \in Copy
    BY DEF Sound
  <2> QED BY <2>1 DEF Copy
<1>2. Ids(<<>>) = {} /\ Distinct(<<>>) /\ DistinctUrls(<<>>) /\ Len(<<>>) = 0
  BY DEF Ids, Distinct, DistinctUrls
<1> QED BY <1>1, <1>2, TabsAssumption DEF Handled, Sound, Within, Apart, Held, ActiveOpen

\* A call as the page makes it: what is switched to or opened has an id.
Proper(e) ==
    /\ e \in TabEvent
    /\ e.name = "switch-tab" => e.id \in Id
    /\ Opens(e) => e.id \in Id /\ e.url \in Url

\* Every handler, and what it leaves behind.
LEMMA CallHandled ==
    ASSUME NEW c, Sound(c), NEW e, Proper(e), Opens(e) => e.id \notin Held(c)
    PROVE  /\ Handled(c, Handle(c, e), IF Opens(e) THEN {e.id} ELSE {})
           /\ ActiveOpen(c) /\ ~Straying(c, e) => ActiveOpen(Handle(c, e))
           /\ ~Persists(c, e) => Handle(c, e) = c
<1>1. CASE e.name = "switch-tab"
  <2>1. Handle(c, e) = SwitchTab(c, e.id) /\ Persists(c, e) /\ ~Opens(e) /\ e.id \in Id
    BY <1>1 DEF Handle, Persists, Opens, Proper
  <2> QED BY <1>1, <2>1, SwitchHandled DEF Straying
<1>2. CASE e.name = "close-tab"
  <2>1. /\ Handle(c, e) = CloseTab(c, e.id) /\ ~Opens(e)
        /\ ~Persists(c, e) => e.id \notin Ids(c.open)
    BY <1>2 DEF Handle, Persists, Opens
  <2> QED BY <2>1, CloseHandled
<1>3. CASE e.name = "close-active-tab"
  <2>1. /\ Handle(c, e) = CloseTab(c, c.active) /\ ~Opens(e)
        /\ ~Persists(c, e) => c.active \notin Ids(c.open)
    BY <1>3 DEF Handle, Persists, Opens
  <2> QED BY <2>1, CloseHandled
<1>4. CASE e.name = "reopen-last-closed-tab"
  <2>1. /\ Handle(c, e) = ReopenLastClosed(c) /\ ~Opens(e)
        /\ ~Persists(c, e) => c.closed = <<>>
    BY <1>4 DEF Handle, Persists, Opens
  <2> QED BY <2>1, ReopenHandled
<1>5. CASE e.name = "openWorkspaceTab"
  <2>1. /\ Handle(c, e) = OpenTab(c, e.url, e.id) /\ Opens(e) /\ Persists(c, e)
        /\ e.id \in Id /\ e.url \in Url
    BY <1>5 DEF Handle, Persists, Opens, Proper
  <2> QED BY <2>1, OpenHandled
<1>6. CASE e.name = "close-all-to-right"
  <2>1. /\ Handle(c, e) = CloseAllToRight(c, e.id) /\ ~Opens(e)
        /\ ~Persists(c, e) => e.id \notin Ids(c.open)
    BY <1>6 DEF Handle, Persists, Opens
  <2> QED BY <2>1, CutHandled
<1>7. CASE e.name = "close-all"
  <2>1. /\ Handle(c, e) = [c EXCEPT !.open = <<>>, !.active = None] /\ ~Opens(e)
        /\ Persists(c, e)
    BY <1>7 DEF Handle, Persists, Opens
  <2> QED BY <2>1, CloseAllHandled
<1>8. CASE e.name = "close-others"
  <2>1. Handle(c, e) = c /\ ~Opens(e)
    BY <1>8 DEF Handle, Opens
  <2> QED BY <2>1 DEF Handled
<1> QED BY <1>1, <1>2, <1>3, <1>4, <1>5, <1>6, <1>7, <1>8 DEF Proper, TabEvent, TabCalls
-----------------------------------------------------------------------------
(* The tabs: all windows *)

TabsTyped ==
    /\ tabs \in [Window -> Copy]
    /\ session \in Copy
    /\ events \in [Window -> Seq(TabEvent)]
    /\ adrift \in [Window -> {NoCall} \cup [name : {"adrift"}, call : TabEvent, tabs : Copy]]
    /\ current \subseteq Window
    /\ strayed \in BOOLEAN
    /\ dispatched \in 0..MaxEvents

\* The calls of a window: those that wait, from 1, and the one adrift, 0.
Slots(p) == (DOMAIN events[p]) \cup {i \in {0} : adrift[p] # NoCall}
CallAt(p, i) == IF i = 0 THEN adrift[p].call ELSE events[p][i]

EveryCopy ==
    {tabs[p] : p \in Window} \cup {session}
        \cup {adrift[p].tabs : p \in {q \in Window : adrift[q] # NoCall}}

CallsProper == \A p \in Window : \A i \in Slots(p) : Proper(CallAt(p, i))
CopiesSound == \A c \in EveryCopy : Sound(c)
ActivesOpen == ~strayed => \A c \in EveryCopy : ActiveOpen(c)

\* Ids are given away in order, and the one of a tab that is still to be opened
\* is in no copy and in no other call.
IdsGiven == \A c \in EveryCopy : \A id \in Held(c) : id <= dispatched
IdsFresh ==
    \A p \in Window : \A i \in Slots(p) : Opens(CallAt(p, i)) =>
        /\ CallAt(p, i).id <= dispatched
        /\ \A c \in EveryCopy : CallAt(p, i).id \notin Held(c)
CallsApart ==
    \A p, q \in Window : \A i \in Slots(p), j \in Slots(q) :
        Opens(CallAt(p, i)) /\ Opens(CallAt(q, j)) /\ CallAt(p, i).id = CallAt(q, j).id
            => p = q /\ i = j

TabsInv ==
    TabsTyped /\ CallsProper /\ CopiesSound /\ ActivesOpen /\ IdsGiven /\ IdsFresh /\ CallsApart

\* The calls of p are some of its calls before, those of the others are the same.
Fewer(p, f) ==
    /\ f \in [Slots(p)' -> Slots(p)]
    /\ \A i, j \in Slots(p)' : f[i] = f[j] => i = j
    /\ \A i \in Slots(p)' : CallAt(p, i)' = CallAt(p, f[i])
    /\ \A q \in Window \ {p} : Slots(q)' = Slots(q) /\ \A i \in Slots(q) : CallAt(q, i)' = CallAt(q, i)

LEMMA FewerCalls ==
    ASSUME TabsInv, NEW p \in Window, NEW f, Fewer(p, f)
    PROVE  CallsProper' /\ CallsApart'
<1>1. CallsProper'
  BY DEF TabsInv, CallsProper, Fewer
<1>2. ASSUME NEW u \in Window, NEW v \in Window, NEW i \in Slots(u)', NEW j \in Slots(v)',
             Opens(CallAt(u, i))', Opens(CallAt(v, j))', CallAt(u, i).id' = CallAt(v, j).id'
      PROVE  u = v /\ i = j
  <2>1. PICK k \in Slots(u) : CallAt(u, i)' = CallAt(u, k) /\ k = (IF u = p THEN f[i] ELSE i)
    BY DEF Fewer
  <2>2. PICK l \in Slots(v) : CallAt(v, j)' = CallAt(v, l) /\ l = (IF v = p THEN f[j] ELSE j)
    BY DEF Fewer
  <2>3. u = v /\ k = l
    BY <1>2, <2>1, <2>2 DEF TabsInv, CallsApart, Opens
  <2> QED BY <2>1, <2>2, <2>3 DEF Fewer
<1>3. CallsApart'
  BY <1>2 DEF CallsApart, Opens
<1> QED BY <1>1, <1>3

\* No copy is new.
LEMMA CopiesKept ==
    ASSUME TabsInv, NEW p \in Window, NEW f, Fewer(p, f), TabsTyped', EveryCopy' \subseteq EveryCopy,
           strayed' = strayed, dispatched' = dispatched
    PROVE  TabsInv'
<1>1. CallsProper' /\ CallsApart'
  BY FewerCalls
<1>2. CopiesSound' /\ ActivesOpen' /\ IdsGiven'
  BY DEF TabsInv, CopiesSound, ActivesOpen, IdsGiven
<1>3. IdsFresh'
  <2> SUFFICES ASSUME NEW u \in Window, NEW i \in Slots(u)', Opens(CallAt(u, i))'
               PROVE  /\ CallAt(u, i).id' <= dispatched
                      /\ \A c \in EveryCopy : CallAt(u, i).id' \notin Held(c)
    BY DEF IdsFresh
  <2>1. PICK k \in Slots(u) : CallAt(u, i)' = CallAt(u, k)
    BY DEF Fewer
  <2> QED BY <2>1 DEF TabsInv, IdsFresh, Opens
<1> QED BY <1>1, <1>2, <1>3 DEF TabsInv

\* One copy is what a handler made of another.
LEMMA CopyHandled ==
    ASSUME TabsInv, NEW p \in Window, NEW f, Fewer(p, f), TabsTyped',
           NEW c \in EveryCopy, NEW k \in Slots(p), NEW e, e = CallAt(p, k),
           \A i \in Slots(p)' : f[i] # k,
           EveryCopy' \subseteq EveryCopy \cup {Handle(c, e)},
           strayed' = (strayed \/ Straying(c, e)), dispatched' = dispatched
    PROVE  TabsInv'
<1>1. CallsProper' /\ CallsApart'
  BY FewerCalls
<1>2. Proper(e) /\ Sound(c) /\ (Opens(e) => e.id \notin Held(c) /\ e.id <= dispatched)
  BY DEF TabsInv, CallsProper, CopiesSound, IdsFresh
<1>3. PICK d : d = Handle(c, e)
  OBVIOUS
<1>4. /\ Sound(d) /\ Held(d) \subseteq Held(c) \cup (IF Opens(e) THEN {e.id} ELSE {})
      /\ ActiveOpen(c) /\ ~Straying(c, e) => ActiveOpen(d)
  BY <1>2, <1>3, CallHandled DEF Handled
<1>5. CopiesSound' /\ ActivesOpen'
  BY <1>3, <1>4 DEF TabsInv, CopiesSound, ActivesOpen
<1>6. IdsGiven'
  BY <1>2, <1>3, <1>4 DEF TabsInv, IdsGiven
<1>7. IdsFresh'
  <2> SUFFICES ASSUME NEW u \in Window, NEW i \in Slots(u)', Opens(CallAt(u, i))'
               PROVE  /\ CallAt(u, i).id' <= dispatched
                      /\ \A b \in EveryCopy \cup {d} : CallAt(u, i).id' \notin Held(b)
    BY <1>3 DEF IdsFresh
  <2>1. PICK l \in Slots(u) : CallAt(u, i)' = CallAt(u, l) /\ ~(u = p /\ l = k)
    BY DEF Fewer
  <2>2. Opens(e) => CallAt(u, l).id # e.id
    BY <2>1 DEF TabsInv, CallsApart, Opens
  <2> QED BY <1>4, <2>1, <2>2 DEF TabsInv, IdsFresh, Opens
<1> QED BY <1>1, <1>5, <1>6, <1>7 DEF TabsInv

LEMMA DispatchKept ==
    ASSUME TabsInv, NEW p \in Window, NEW name \in TabCalls, NEW id \in Id \cup {None},
           NEW url \in Url \cup {NoUrl}, Dispatch(p, name, id, url),
           name = "switch-tab" => id \in Id,
           name = "openWorkspaceTab" => url \in Url
    PROVE  TabsInv'
<1>1. PICK n \in Nat : n = dispatched + 1 /\ n \in Id /\ dispatched' = n /\ dispatched \in Nat
  BY TabsAssumption DEF Dispatch, TabsInv, TabsTyped, Id
<1>2. PICK e : e = [name |-> name, id |-> IF name = "openWorkspaceTab" THEN n ELSE id, url |-> url]
  OBVIOUS
<1>3. /\ Proper(e)
      /\ Opens(e) => e.id = n
  BY <1>1, <1>2 DEF Proper, TabEvent, Opens
<1>4. PICK s \in Seq(TabEvent) : s = events[p]
  BY DEF TabsInv, TabsTyped
<1>5. /\ UNCHANGED <<tabs, adrift, session, current, strayed>>
      /\ events' = [events EXCEPT ![p] = Append(s, e)]
  BY <1>1, <1>2, <1>4 DEF Dispatch
<1>6. PICK m \in Nat : m = Len(s) + 1
  OBVIOUS
<1>7. PICK t : t = Append(s, e)
  OBVIOUS
<1>8. /\ t \in Seq(TabEvent) /\ DOMAIN t = (DOMAIN s) \cup {m} /\ t[m] = e /\ m # 0 /\ m \notin DOMAIN s
      /\ \A i \in DOMAIN s : t[i] = s[i] /\ i # 0
  BY <1>3, <1>6, <1>7 DEF Proper
<1>9. events'[p] = t /\ \A q \in Window \ {p} : events'[q] = events[q]
  BY <1>5, <1>7 DEF TabsInv, TabsTyped
<1>10. /\ Slots(p)' = Slots(p) \cup {m} /\ m \notin Slots(p)
       /\ CallAt(p, m)' = e
       /\ \A i \in Slots(p) : CallAt(p, i)' = CallAt(p, i)
       /\ \A q \in Window \ {p} : Slots(q)' = Slots(q) /\ \A i \in Slots(q) : CallAt(q, i)' = CallAt(q, i)
  BY <1>4, <1>5, <1>8, <1>9 DEF Slots, CallAt
<1>11. TabsTyped'
  BY <1>1, <1>5, <1>7, <1>8, TabsAssumption DEF TabsInv, TabsTyped, Id
<1>12. CallsProper'
  BY <1>3, <1>10 DEF TabsInv, CallsProper
<1>13. EveryCopy' = EveryCopy /\ strayed' = strayed
  BY <1>5 DEF EveryCopy
<1>14. CopiesSound' /\ ActivesOpen'
  BY <1>13 DEF TabsInv, CopiesSound, ActivesOpen
<1>15. \A c \in EveryCopy : Held(c) \subseteq Nat /\ n \notin Held(c) /\ \A i \in Held(c) : i <= n
  <2> SUFFICES ASSUME NEW c \in EveryCopy
               PROVE  Held(c) \subseteq Nat /\ n \notin Held(c) /\ \A i \in Held(c) : i <= n
    OBVIOUS
  <2>1. Held(c) \subseteq Id
    BY IdsTyped DEF TabsInv, CopiesSound, Sound, Copy, Held
  <2>2. \A i \in Held(c) : i \in Nat /\ i <= dispatched
    BY <2>1 DEF TabsInv, IdsGiven, Id
  <2> QED BY <1>1, <2>2
<1>16. IdsGiven'
  BY <1>1, <1>13, <1>15 DEF IdsGiven
<1>17. \A u \in Window : \A i \in Slots(u) : Opens(CallAt(u, i)) =>
          CallAt(u, i).id \in Nat /\ CallAt(u, i).id < n
  <2> SUFFICES ASSUME NEW u \in Window, NEW i \in Slots(u), Opens(CallAt(u, i))
               PROVE  CallAt(u, i).id \in Nat /\ CallAt(u, i).id < n
    OBVIOUS
  <2>1. CallAt(u, i).id \in Id /\ CallAt(u, i).id <= dispatched
    BY DEF TabsInv, CallsProper, IdsFresh, Proper
  <2> QED BY <1>1, <2>1 DEF Id
<1>18. IdsFresh'
  <2> SUFFICES ASSUME NEW u \in Window, NEW i \in Slots(u)', Opens(CallAt(u, i))'
               PROVE  /\ CallAt(u, i).id' <= n
                      /\ \A c \in EveryCopy : CallAt(u, i).id' \notin Held(c)
    BY <1>1, <1>13 DEF IdsFresh
  <2>1. CASE u = p /\ i = m
    BY <1>1, <1>3, <1>10, <1>15, <2>1 DEF Opens
  <2>2. CASE ~(u = p /\ i = m)
    <3>1. i \in Slots(u) /\ CallAt(u, i)' = CallAt(u, i)
      BY <1>10, <2>2
    <3> QED BY <1>1, <1>17, <3>1 DEF TabsInv, IdsFresh, Opens
  <2> QED BY <2>1, <2>2
<1>19. CallsApart'
  <2> SUFFICES ASSUME NEW u \in Window, NEW v \in Window, NEW i \in Slots(u)', NEW j \in Slots(v)',
                      Opens(CallAt(u, i))', Opens(CallAt(v, j))', CallAt(u, i).id' = CallAt(v, j).id'
               PROVE  u = v /\ i = j
    BY DEF CallsApart, Opens
  <2>1. \A w \in Window : \A k \in Slots(w)' : ~(w = p /\ k = m) =>
           k \in Slots(w) /\ CallAt(w, k)' = CallAt(w, k)
    BY <1>10
  <2>2. CASE u = p /\ i = m
    BY <1>1, <1>3, <1>10, <1>17, <2>1, <2>2 DEF Opens
  <2>3. CASE v = p /\ j = m
    BY <1>1, <1>3, <1>10, <1>17, <2>1, <2>3 DEF Opens
  <2>4. CASE ~(u = p /\ i = m) /\ ~(v = p /\ j = m)
    BY <2>1, <2>4 DEF TabsInv, CallsApart, Opens
  <2> QED BY <2>2, <2>3, <2>4
<1> QED BY <1>11, <1>12, <1>14, <1>16, <1>18, <1>19 DEF TabsInv

\* A record that stands for a call adrift is not NoCall.
LEMMA AdriftTyped ==
    ASSUME TabsTyped, NEW p \in Window, adrift[p] # NoCall
    PROVE  adrift[p] \in [name : {"adrift"}, call : TabEvent, tabs : Copy]
BY DEF TabsTyped

LEMMA AnswerTabsKept ==
    ASSUME TabsInv, NEW p \in Window, AnswerTabs(p)
    PROVE  TabsInv'
<1>1. PICK s \in Seq(TabEvent) : s = events[p] /\ s # <<>>
  BY DEF AnswerTabs, TabsInv, TabsTyped
<1>2. PICK t : t = Tail(s)
  OBVIOUS
<1>3. /\ t \in Seq(TabEvent) /\ 1 \in DOMAIN s /\ Head(s) = s[1]
      /\ \A i \in DOMAIN t : i # 0 /\ i + 1 \in DOMAIN s /\ i + 1 # 0 /\ t[i] = s[i + 1]
  BY <1>1, <1>2
<1>4. PICK e, c, d : e = Head(s) /\ c = tabs[p] /\ d = Handle(c, e)
  OBVIOUS
<1>5. /\ events' = [events EXCEPT ![p] = t]
      /\ tabs' = [tabs EXCEPT ![p] = d]
      /\ session' = session \/ session' = d
      /\ current' = current \/ current' = {p}
      /\ strayed' = (strayed \/ Straying(c, e))
      /\ UNCHANGED <<adrift, dispatched>>
  BY <1>1, <1>2, <1>4 DEF AnswerTabs
<1>6. events'[p] = t /\ \A q \in Window \ {p} : events'[q] = events[q]
  BY <1>5 DEF TabsInv, TabsTyped
<1>7. /\ 1 \in Slots(p) /\ e = CallAt(p, 1)
      /\ Slots(p)' \subseteq {0} \cup DOMAIN t
      /\ 0 \in Slots(p)' => 0 \in Slots(p) /\ CallAt(p, 0)' = CallAt(p, 0)
      /\ \A i \in DOMAIN t : i + 1 \in Slots(p) /\ CallAt(p, i)' = CallAt(p, i + 1)
      /\ \A q \in Window \ {p} : Slots(q)' = Slots(q) /\ \A i \in Slots(q) : CallAt(q, i)' = CallAt(q, i)
  BY <1>1, <1>3, <1>4, <1>5, <1>6 DEF Slots, CallAt
<1> DEFINE f == [i \in Slots(p)' |-> IF i = 0 THEN 0 ELSE i + 1]
<1>8. Fewer(p, f) /\ \A i \in Slots(p)' : f[i] # 1
  <2>1. f \in [Slots(p)' -> Slots(p)]
    BY <1>3, <1>7
  <2>2. \A i \in Slots(p)' : CallAt(p, i)' = CallAt(p, f[i])
    BY <1>3, <1>7
  <2>3. \A i \in Slots(p)' : i \in Nat
    BY <1>7
  <2>4. /\ \A i, j \in Slots(p)' : f[i] = f[j] => i = j
        /\ \A i \in Slots(p)' : f[i] # 1
    BY <2>3
  <2> QED BY <1>7, <2>1, <2>2, <2>4 DEF Fewer
<1> HIDE DEF f
<1>9. c \in EveryCopy /\ Sound(d)
  <2>1. c \in EveryCopy
    BY <1>4 DEF EveryCopy
  <2> QED BY <1>4, <1>7, <2>1, CallHandled DEF TabsInv, CopiesSound, CallsProper, IdsFresh, Handled
<1>10. TabsTyped'
  BY <1>3, <1>5, <1>9 DEF TabsInv, TabsTyped, Sound
<1>11. EveryCopy' \subseteq EveryCopy \cup {d}
  <2>1. \A q \in Window : tabs'[q] \in {tabs[q], d}
    BY <1>5 DEF TabsInv, TabsTyped
  <2> QED BY <1>5, <2>1 DEF EveryCopy
<1> QED BY <1>4, <1>5, <1>7, <1>8, <1>9, <1>10, <1>11, CopyHandled

LEMMA AnswerAdriftKept ==
    ASSUME TabsInv, NEW p \in Window, AnswerAdrift(p)
    PROVE  TabsInv'
<1>1. PICK e, c, d : e = adrift[p].call /\ c = adrift[p].tabs /\ d = Handle(c, e)
  OBVIOUS
<1>2. /\ adrift[p] # NoCall
      /\ session' = session \/ session' = d
      /\ current' = current \/ current' = {}
      /\ adrift' = [adrift EXCEPT ![p] = NoCall]
      /\ strayed' = (strayed \/ Straying(c, e))
      /\ UNCHANGED <<tabs, events, dispatched>>
  BY <1>1 DEF AnswerAdrift
<1>3. adrift'[p] = NoCall /\ \A q \in Window \ {p} : adrift'[q] = adrift[q]
  BY <1>2 DEF TabsInv, TabsTyped
<1>4. \A i \in DOMAIN events[p] : i # 0
  BY DEF TabsInv, TabsTyped
<1>5. /\ 0 \in Slots(p) /\ e = CallAt(p, 0) /\ c \in EveryCopy
      /\ Slots(p)' = DOMAIN events[p]
      /\ \A i \in DOMAIN events[p] : i # 0 /\ i \in Slots(p) /\ CallAt(p, i)' = CallAt(p, i)
      /\ \A q \in Window \ {p} : Slots(q)' = Slots(q) /\ \A i \in Slots(q) : CallAt(q, i)' = CallAt(q, i)
  BY <1>1, <1>2, <1>3, <1>4 DEF Slots, CallAt, EveryCopy
<1> DEFINE f == [i \in Slots(p)' |-> i]
<1>6. Fewer(p, f) /\ \A i \in Slots(p)' : f[i] # 0
  BY <1>5 DEF Fewer
<1> HIDE DEF f
<1>7. Sound(d)
  BY <1>1, <1>5, CallHandled DEF TabsInv, CopiesSound, CallsProper, IdsFresh, Handled
<1>8. TabsTyped'
  BY <1>2, <1>7 DEF TabsInv, TabsTyped, Sound
<1>9. EveryCopy' \subseteq EveryCopy \cup {d}
  BY <1>2, <1>3 DEF EveryCopy
<1> QED BY <1>1, <1>2, <1>5, <1>6, <1>8, <1>9, CopyHandled

LEMMA LoadPageKept ==
    ASSUME TabsInv, NEW p \in Window, LoadPage(p)
    PROVE  TabsInv'
<1>1. /\ adrift[p] = NoCall
      /\ tabs' = [tabs EXCEPT ![p] = session]
      /\ events' = [events EXCEPT ![p] = <<>>]
      /\ current' = current \cup {p}
      /\ UNCHANGED <<session, strayed, dispatched>>
  BY DEF LoadPage
<1>2. /\ events'[p] = <<>> /\ DOMAIN <<>> = {}
      /\ \A q \in Window \ {p} : events'[q] = events[q]
      /\ \A q \in Window : tabs'[q] \in {tabs[q], session}
  BY <1>1 DEF TabsInv, TabsTyped
<1> DEFINE f == [i \in Slots(p)' |-> 1]
<1>3. CASE UNCHANGED adrift
  <2>1. /\ Slots(p)' = {}
        /\ \A q \in Window \ {p} : Slots(q)' = Slots(q) /\ \A i \in Slots(q) : CallAt(q, i)' = CallAt(q, i)
    BY <1>1, <1>2, <1>3 DEF Slots, CallAt
  <2>2. Fewer(p, f)
    BY <2>1 DEF Fewer
  <2> HIDE DEF f
  <2>3. TabsTyped'
    BY <1>1, <1>3 DEF TabsInv, TabsTyped
  <2>4. EveryCopy' \subseteq EveryCopy
    BY <1>1, <1>2, <1>3 DEF EveryCopy
  <2> QED BY <1>1, <2>2, <2>3, <2>4, CopiesKept
<1>4. CASE ~UNCHANGED adrift
  <2>1. PICK s \in Seq(TabEvent) : s = events[p]
    BY DEF TabsInv, TabsTyped
  <2>2. PICK a : a = [name |-> "adrift", call |-> Head(s), tabs |-> tabs[p]]
    OBVIOUS
  <2>3. s # <<>> /\ adrift' = [adrift EXCEPT ![p] = a]
    BY <1>4, <2>1, <2>2 DEF LoadPage
  <2>4. 1 \in DOMAIN s /\ Head(s) = s[1] /\ Head(s) \in TabEvent
    BY <2>3
  <2>5. a.call = s[1] /\ a.tabs = tabs[p] /\ a \in [name : {"adrift"}, call : TabEvent, tabs : Copy]
    BY <2>2, <2>4 DEF TabsInv, TabsTyped
  <2>6. adrift'[p] = a /\ \A q \in Window \ {p} : adrift'[q] = adrift[q]
    BY <2>3 DEF TabsInv, TabsTyped
  <2>7. /\ Slots(p)' \subseteq {0} /\ 1 \in Slots(p) /\ CallAt(p, 0)' = CallAt(p, 1)
        /\ \A q \in Window \ {p} : Slots(q)' = Slots(q) /\ \A i \in Slots(q) : CallAt(q, i)' = CallAt(q, i)
    BY <1>2, <2>1, <2>4, <2>5, <2>6 DEF Slots, CallAt
  <2>8. Fewer(p, f)
    BY <2>7 DEF Fewer
  <2> HIDE DEF f
  <2>9. TabsTyped'
    BY <1>1, <2>3, <2>5 DEF TabsInv, TabsTyped
  <2>10. EveryCopy' \subseteq EveryCopy
    BY <1>1, <1>2, <2>5, <2>6 DEF EveryCopy
  <2> QED BY <1>1, <2>8, <2>9, <2>10, CopiesKept
<1> QED BY <1>3, <1>4

LEMMA StepTabs ==
    ASSUME TabsInv, [TabsNext]_tabVars
    PROVE  TabsInv'
<1>1. ASSUME NEW p \in Window, ClickTab(p) PROVE TabsInv'
  <2>1. PICK id \in Ids(tabs[p].open),
             name \in {"switch-tab", "close-tab", "close-others", "close-all-to-right", "close-all"} :
           Dispatch(p, name, id, NoUrl)
    BY <1>1 DEF ClickTab
  <2>2. id \in Id
    BY IdsTyped DEF TabsInv, TabsTyped, Copy
  <2> QED BY <2>1, <2>2, DispatchKept DEF TabCalls
<1>2. ASSUME NEW p \in Window, PressTabKey(p) PROVE TabsInv'
  BY <1>2, DispatchKept DEF PressTabKey, TabCalls
<1>3. ASSUME NEW p \in Window, NEW url \in Url, OpenWorkspaceTab(p, url) PROVE TabsInv'
  BY <1>3, DispatchKept DEF OpenWorkspaceTab, TabCalls
<1>4. CASE UNCHANGED tabVars
  <2>1. UNCHANGED <<tabs, events, adrift, session, current, strayed, dispatched>>
    BY <1>4 DEF tabVars
  <2>2. EveryCopy' = EveryCopy /\ \A p \in Window : Slots(p)' = Slots(p)
    BY <2>1 DEF EveryCopy, Slots
  <2>3. \A p, i : CallAt(p, i)' = CallAt(p, i)
    BY <2>1 DEF CallAt
  <2>4. TabsTyped' /\ CallsProper' /\ CopiesSound'
    BY <2>1, <2>2, <2>3 DEF TabsInv, TabsTyped, CallsProper, CopiesSound
  <2>5. ActivesOpen' /\ IdsGiven'
    BY <2>1, <2>2 DEF TabsInv, ActivesOpen, IdsGiven
  <2>6. IdsFresh' /\ CallsApart'
    BY <2>1, <2>2, <2>3 DEF TabsInv, IdsFresh, CallsApart, Opens
  <2> QED BY <2>4, <2>5, <2>6 DEF TabsInv
<1> QED BY <1>1, <1>2, <1>3, <1>4, AnswerTabsKept, AnswerAdriftKept, LoadPageKept
    DEF TabsNext, TabStep

LEMMA InitTabs == TabsInit => TabsInv /\ RefreshKeepsTabs
<1> SUFFICES ASSUME TabsInit PROVE TabsInv /\ RefreshKeepsTabs
  OBVIOUS
<1>1. <<>> \in Seq(Tab) /\ <<>> \in Seq(TabEvent) /\ DOMAIN <<>> = {} /\ Len(<<>>) = 0
  OBVIOUS
<1>2. /\ NoTabs \in Copy /\ NoTabs.open = <<>> /\ NoTabs.closed = <<>> /\ NoTabs.active = None
  BY <1>1 DEF NoTabs, Copy
<1>3. Held(NoTabs) = {} /\ Sound(NoTabs) /\ ActiveOpen(NoTabs)
  BY <1>1, <1>2, TabsAssumption
     DEF Held, Ids, Sound, Within, Apart, Distinct, DistinctUrls, ActiveOpen
<1>4. EveryCopy \subseteq {NoTabs} /\ \A p \in Window : Slots(p) = {}
  BY <1>1 DEF TabsInit, EveryCopy, Slots
<1>5. TabsTyped
  BY <1>1, <1>2 DEF TabsInit, TabsTyped
<1>6. TabsInv
  BY <1>3, <1>4, <1>5 DEF TabsInv, CallsProper, CopiesSound, ActivesOpen, IdsGiven, IdsFresh, CallsApart
<1> QED BY <1>6 DEF TabsInit, RefreshKeepsTabs

LEMMA StepRefresh ==
    ASSUME TabsInv, RefreshKeepsTabs, [TabsNext]_tabVars
    PROVE  RefreshKeepsTabs'
<1>1. CASE UNCHANGED <<tabs, session, current>>
  BY <1>1 DEF RefreshKeepsTabs
<1>2. ASSUME NEW p \in Window, AnswerTabs(p) PROVE RefreshKeepsTabs'
  <2>1. PICK e, c, d : e = Head(events[p]) /\ c = tabs[p] /\ d = Handle(c, e)
    OBVIOUS
  <2>2. tabs' = [tabs EXCEPT ![p] = d]
    BY <1>2, <2>1 DEF AnswerTabs
  <2>3. tabs'[p] = d /\ \A q \in Window \ {p} : tabs'[q] = tabs[q]
    BY <2>2 DEF TabsInv, TabsTyped
  <2>4. CASE Persists(c, e)
    <3>1. session' = d /\ current' = {p}
      BY <1>2, <2>1, <2>4 DEF AnswerTabs
    <3> QED BY <2>3, <3>1 DEF RefreshKeepsTabs
  <2>5. CASE ~Persists(c, e)
    <3>1. UNCHANGED <<session, current>>
      BY <1>2, <2>1, <2>5 DEF AnswerTabs
    <3>2. 1 \in Slots(p) /\ e = CallAt(p, 1) /\ c \in EveryCopy
      <4>1. events[p] \in Seq(TabEvent) /\ events[p] # <<>>
        BY <1>2 DEF AnswerTabs, TabsInv, TabsTyped
      <4>2. 1 \in DOMAIN events[p] /\ Head(events[p]) = events[p][1]
        BY <4>1
      <4> QED BY <2>1, <4>2 DEF Slots, CallAt, EveryCopy
    <3>3. d = c
      BY <2>1, <2>5, <3>2, CallHandled DEF TabsInv, CallsProper, CopiesSound, IdsFresh
    <3> QED BY <2>1, <2>3, <3>1, <3>3 DEF RefreshKeepsTabs, TabsInv, TabsTyped
  <2> QED BY <2>4, <2>5
<1>3. ASSUME NEW p \in Window, AnswerAdrift(p) PROVE RefreshKeepsTabs'
  <2>1. tabs' = tabs /\ (UNCHANGED <<session, current>> \/ current' = {})
    BY <1>3 DEF AnswerAdrift
  <2> QED BY <2>1 DEF RefreshKeepsTabs
<1>4. ASSUME NEW p \in Window, LoadPage(p) PROVE RefreshKeepsTabs'
  <2>1. /\ tabs' = [tabs EXCEPT ![p] = session] /\ session' = session
        /\ current' = current \cup {p}
    BY <1>4 DEF LoadPage
  <2> QED BY <2>1 DEF RefreshKeepsTabs, TabsInv, TabsTyped
<1>5. CASE UNCHANGED tabVars
  BY <1>1, <1>5 DEF tabVars
<1> QED BY <1>1, <1>2, <1>3, <1>4, <1>5
    DEF TabsNext, TabStep, ClickTab, PressTabKey, OpenWorkspaceTab, Dispatch

\* The ids of the open and the closed tabs are apart wherever they are listed.
LEMMA ApartListed ==
    ASSUME NEW a \in Seq(Tab), NEW b \in Seq(Tab), Distinct(a), Distinct(b),
           Ids(a) \cap Ids(b) = {}
    PROVE  \A i, j \in DOMAIN (a \o b) : (a \o b)[i].id = (a \o b)[j].id => i = j
<1>1. PICK t : t = a \o b
  OBVIOUS
<1>2. /\ t \in Seq(Tab) /\ Len(t) = Len(a) + Len(b)
      /\ \A i \in 1..(Len(a) + Len(b)) : t[i] = IF i <= Len(a) THEN a[i] ELSE b[i - Len(a)]
  BY <1>1, ConcatProperties
<1>3. \A i \in DOMAIN t :
         \/ i \in DOMAIN a /\ t[i] = a[i]
         \/ ~(i <= Len(a)) /\ i - Len(a) \in DOMAIN b /\ t[i] = b[i - Len(a)]
  <2> SUFFICES ASSUME NEW i \in DOMAIN t
               PROVE  \/ i \in DOMAIN a /\ t[i] = a[i]
                      \/ ~(i <= Len(a)) /\ i - Len(a) \in DOMAIN b /\ t[i] = b[i - Len(a)]
    OBVIOUS
  <2>1. i \in 1..(Len(a) + Len(b))
    BY <1>2
  <2> QED BY <1>2, <2>1
<1>4. ASSUME NEW i \in DOMAIN t, NEW j \in DOMAIN t, t[i].id = t[j].id PROVE i = j
  <2>1. \A k \in DOMAIN a : a[k].id \in Ids(a)
    BY IdsInside
  <2>2. \A k \in DOMAIN b : b[k].id \in Ids(b)
    BY IdsInside
  <2>3. CASE i \in DOMAIN a /\ t[i] = a[i] /\ j \in DOMAIN a /\ t[j] = a[j]
    BY <1>4, <2>3 DEF Distinct
  <2>4. CASE /\ ~(i <= Len(a)) /\ i - Len(a) \in DOMAIN b /\ t[i] = b[i - Len(a)]
             /\ ~(j <= Len(a)) /\ j - Len(a) \in DOMAIN b /\ t[j] = b[j - Len(a)]
    <3>1. i - Len(a) = j - Len(a)
      BY <1>4, <2>4 DEF Distinct
    <3> QED BY <1>2, <3>1
  <2> QED BY <1>3, <1>4, <2>1, <2>2, <2>3, <2>4
<1> QED BY <1>1, <1>4

(***************************************************************************)
(* For any windows and limits: no copy of the tabs has one twice or too    *)
(* many, however the calls of the windows and of left pages interleave.    *)
(***************************************************************************)
THEOREM TabsAreWellFormed == TabsSpec => []TabsWellFormed
<1>1. TabsInv => TabsWellFormed
  <2> SUFFICES ASSUME TabsInv, NEW c \in Copies
               PROVE  /\ Len(c.open) <= MaxTabs
                      /\ Len(c.closed) <= MaxClosed
                      /\ \A i, j \in DOMAIN c.open : c.open[i].url = c.open[j].url => i = j
                      /\ \A i, j \in DOMAIN (c.open \o c.closed) :
                            (c.open \o c.closed)[i].id = (c.open \o c.closed)[j].id => i = j
    BY DEF TabsWellFormed
  <2>1. Sound(c)
    BY DEF Copies, EveryCopy, TabsInv, CopiesSound
  <2>2. c.open \in Seq(Tab) /\ c.closed \in Seq(Tab)
    BY <2>1 DEF Sound, Copy
  <2>3. \A i, j \in DOMAIN (c.open \o c.closed) :
           (c.open \o c.closed)[i].id = (c.open \o c.closed)[j].id => i = j
    BY <2>1, <2>2, ApartListed DEF Sound, Apart
  <2> QED BY <2>1, <2>3 DEF Sound, Within, DistinctUrls
<1> QED BY <1>1, InitTabs, StepTabs, PTL DEF TabsSpec

(***************************************************************************)
(* One of the open tabs is active whatever is closed, evicted or reopened, *)
(* unless a click reached a tab that was closed by then.                   *)
(***************************************************************************)
THEOREM ActiveTabIsOpen == TabsSpec => []ActiveIsOpen
<1>1. TabsInv => ActiveIsOpen
  BY DEF TabsInv, ActivesOpen, EveryCopy, ActiveIsOpen, Copies, ActiveOpen
<1> QED BY <1>1, InitTabs, StepTabs, PTL DEF TabsSpec

(***************************************************************************)
(* The window that wrote last shows what a reload would: a handler returns *)
(* without writing the session only when it has changed nothing.           *)
(***************************************************************************)
THEOREM ReloadKeepsTabs == TabsSpec => []RefreshKeepsTabs
<1>1. TabsInv /\ RefreshKeepsTabs /\ [TabsNext]_tabVars => TabsInv' /\ RefreshKeepsTabs'
  BY StepTabs, StepRefresh
<1> QED BY <1>1, InitTabs, PTL DEF TabsSpec
-----------------------------------------------------------------------------
(* The command palette *)

PaletteCalls == {"open", "close", "toggleFavorite", "executeActionById", "selectResult",
                 "updateQuery"}
Panel == [isOpen : BOOLEAN, query : Query, actions : Rankings]
IsSequence(s) == s \in Seq({s[i] : i \in DOMAIN s})

\* A click made while no call is under way is never kept waiting,
CallsKnown ==
    /\ flight # Quiet => /\ flight.name = flight.call.name
                         /\ flight.name \in PaletteCalls
                         /\ flight.query \in Query
    /\ flight = Quiet => waiting = <<>>
    /\ IsSequence(waiting)
    /\ \A i \in DOMAIN waiting : waiting[i].name \in PaletteCalls /\ ~waiting[i].settled

\* and the component is as it was when the click was sent.
ClickSettled ==
    flight # Quiet /\ flight.call.settled =>
        /\ flight.query = panel.query
        /\ flight.call.index \in DOMAIN Shown
        /\ flight.call.meant = Shown[flight.call.index]

\* The last call brings the query that is bound,
LastCallBrings == flight # Quiet /\ waiting = <<>> => flight.query = bound

\* and what is typed is bound after the pause; closing empties the field first.
CloseComing ==
    \/ \E i \in DOMAIN waiting : waiting[i].name = "close"
    \/ flight.name = "close" /\ flight.query = bound
InputFollows == input # bound => debounce \/ (input = NoQuery /\ CloseComing)

AtRest ==
    flight = Quiet => /\ visible = panel.isOpen
                      /\ panel.query = bound
                      /\ ~debounce => hidden = {}

PaletteInv ==
    /\ panel \in Panel /\ bound \in Query /\ input \in Query
    /\ CallsKnown /\ ClickSettled /\ LastCallBrings /\ InputFollows /\ AtRest
    /\ ChosenIsExecuted

LEMMA SequenceOfItself ==
    ASSUME NEW S, NEW s \in Seq(S)
    PROVE  IsSequence(s)
BY DEF IsSequence

LEMMA SequenceAppended ==
    ASSUME NEW s, IsSequence(s), NEW x
    PROVE  /\ IsSequence(Append(s, x)) /\ Append(s, x) # <<>>
           /\ \E n \in DOMAIN Append(s, x) : Append(s, x)[n] = x
           /\ \A i \in DOMAIN s : i \in DOMAIN Append(s, x) /\ Append(s, x)[i] = s[i]
           /\ \A i \in DOMAIN Append(s, x) :
                 Append(s, x)[i] = x \/ (i \in DOMAIN s /\ Append(s, x)[i] = s[i])
<1>1. PICK S, t : S = {s[i] : i \in DOMAIN s} \cup {x} /\ t = Append(s, x)
  OBVIOUS
<1>2. s \in Seq(S) /\ x \in S /\ t = Append(s, x)
  BY <1>1 DEF IsSequence
<1>3. t \in Seq(S) /\ t # <<>> /\ Len(s) + 1 \in DOMAIN t /\ t[Len(s) + 1] = x
  BY <1>2
<1>4. \A i \in DOMAIN s : i \in DOMAIN t /\ t[i] = s[i]
  BY <1>2
<1>5. \A i \in DOMAIN t : i = Len(s) + 1 \/ i \in DOMAIN s
  BY <1>2
<1> QED BY <1>1, <1>3, <1>4, <1>5, SequenceOfItself

LEMMA SequenceBeheaded ==
    ASSUME NEW s, IsSequence(s), s # <<>>
    PROVE  /\ IsSequence(Tail(s))
           /\ 1 \in DOMAIN s /\ Head(s) = s[1]
           /\ \A i \in DOMAIN Tail(s) : i + 1 \in DOMAIN s /\ Tail(s)[i] = s[i + 1]
           /\ \A i \in DOMAIN s : i = 1 \/ (i - 1 \in DOMAIN Tail(s) /\ Tail(s)[i - 1] = s[i])
<1>1. PICK S, t : S = {s[i] : i \in DOMAIN s} /\ t = Tail(s)
  OBVIOUS
<1>2. s \in Seq(S)
  BY <1>1 DEF IsSequence
<1>3. t \in Seq(S) /\ Len(t) = Len(s) - 1 /\ \A i \in DOMAIN t : t[i] = s[i + 1]
  BY <1>1, <1>2
<1>4. 1 \in DOMAIN s /\ Head(s) = s[1]
  BY <1>2
<1>5. \A i \in DOMAIN s : i = 1 \/ (i - 1 \in DOMAIN t /\ t[i - 1] = s[i])
  <2> SUFFICES ASSUME NEW i \in DOMAIN s, i # 1 PROVE i - 1 \in DOMAIN t /\ t[i - 1] = s[i]
    OBVIOUS
  <2>1. i - 1 \in DOMAIN t /\ (i - 1) + 1 = i
    BY <1>2, <1>3
  <2> QED BY <1>3, <2>1
<1>6. \A i \in DOMAIN t : i + 1 \in DOMAIN s
  BY <1>2, <1>3
<1> QED BY <1>1, <1>3, <1>4, <1>5, <1>6, SequenceOfItself

LEMMA SendKept ==
    ASSUME CallsKnown, ClickSettled, AtRest, NEW query \in Query, NEW call, Send(call, query),
           call.name \in PaletteCalls,
           call.settled => /\ Settled /\ query = bound
                           /\ call.index \in DOMAIN Shown
                           /\ call.meant = Shown[call.index],
           panel' = panel, bound' = query
    PROVE  /\ CallsKnown' /\ ClickSettled' /\ flight' # Quiet
           /\ waiting' = <<>> => flight'.query = query
           /\ (CloseComing /\ query = bound) \/ call.name = "close" => CloseComing'
<1>1. Shown' = Shown
  BY DEF Shown
<1>2. CASE flight = Quiet
  <2>1. PICK f : f = [call |-> call, query |-> query, name |-> call.name]
    OBVIOUS
  <2>2. f.call = call /\ f.query = query /\ f.name = call.name /\ f # Quiet
    BY <2>1 DEF Quiet, PaletteCalls
  <2>3. flight' = f /\ waiting' = waiting /\ waiting = <<>>
    BY <1>2, <2>1 DEF Send, CallsKnown
  <2>4. CallsKnown'
    BY <2>2, <2>3 DEF CallsKnown
  <2>5. ClickSettled'
    BY <1>1, <1>2, <2>2, <2>3 DEF ClickSettled, AtRest
  <2>6. flight.name # "close" /\ DOMAIN waiting = {}
    BY <1>2, <2>3 DEF Quiet
  <2> QED BY <2>2, <2>3, <2>4, <2>5, <2>6 DEF CloseComing
<1>3. CASE flight # Quiet
  <2>1. PICK t : t = Append(waiting, call)
    OBVIOUS
  <2>2. waiting' = t /\ flight' = flight
    BY <1>3, <2>1 DEF Send
  <2>3. ~call.settled
    BY <1>3 DEF Settled
  <2>4. /\ IsSequence(t) /\ t # <<>>
        /\ \E n \in DOMAIN t : t[n] = call
        /\ \A i \in DOMAIN waiting : i \in DOMAIN t /\ t[i] = waiting[i]
        /\ \A i \in DOMAIN t : t[i] = call \/ (i \in DOMAIN waiting /\ t[i] = waiting[i])
    <3>1. IsSequence(waiting)
      BY DEF CallsKnown
    <3> QED BY <2>1, <3>1, SequenceAppended
  <2>5. CallsKnown'
    BY <1>3, <2>2, <2>3, <2>4 DEF CallsKnown
  <2>6. ClickSettled'
    BY <1>1, <2>2 DEF ClickSettled
  <2> QED BY <1>3, <2>2, <2>4, <2>5, <2>6 DEF CloseComing
<1> QED BY <1>2, <1>3

LEMMA AfterCall ==
    ASSUME NEW s \in Panel, NEW call, call.name \in PaletteCalls, NEW order \in Rankings
    PROVE  /\ After(s, call, order) \in Panel
           /\ After(s, call, order).query \in {NoQuery, s.query}
           /\ call.name = "close" => After(s, call, order).query = NoQuery
<1>1. Closed(s) \in Panel /\ Closed(s).query = NoQuery
  BY PaletteAssumption DEF Closed, Panel
<1>2. CASE call.name = "open"
  BY <1>2, PaletteAssumption DEF After, Panel
<1>3. CASE call.name = "toggleFavorite"
  <2>1. After(s, call, order) = [s EXCEPT !.actions = order]
    BY <1>3 DEF After
  <2> QED BY <1>3, <2>1 DEF Panel
<1>4. CASE call.name = "close"
  <2>1. After(s, call, order) = Closed(s)
    BY <1>4 DEF After
  <2> QED BY <1>1, <2>1
<1>5. CASE call.name \in {"executeActionById", "selectResult"}
  <2>1. After(s, call, order) \in {s, Closed(s)}
    BY <1>5 DEF After
  <2> QED BY <1>1, <1>5, <2>1
<1>6. CASE call.name = "updateQuery"
  <2>1. After(s, call, order) = s
    BY <1>6 DEF After
  <2> QED BY <1>6, <2>1
<1> QED BY <1>2, <1>3, <1>4, <1>5, <1>6 DEF PaletteCalls

LEMMA AnswerKept ==
    ASSUME PaletteInv, AnswerPanel
    PROVE  PaletteInv'
<1>1. flight # Quiet /\ flight.name = flight.call.name /\ flight.name \in PaletteCalls
      /\ flight.query \in Query
  BY DEF AnswerPanel, PaletteInv, CallsKnown
<1>2. PICK order, s, t, query :
         /\ order \in Rankings
         /\ s = [panel EXCEPT !.query = flight.query]
         /\ t = After(s, flight.call, order)
         /\ query = (IF t.query # flight.query THEN t.query ELSE bound)
         /\ panel' = t /\ bound' = query /\ visible' = t.isOpen
         /\ input' = (IF query # bound THEN query ELSE input)
         /\ chosen' = (IF flight.call.settled
                       THEN chosen \cup {<<flight.call.meant, Executed(s, flight.call)>>}
                       ELSE chosen)
         /\ IF waiting = <<>>
            THEN flight' = Quiet /\ UNCHANGED waiting
            ELSE /\ flight' = [call |-> Head(waiting), query |-> query, name |-> Head(waiting).name]
                 /\ waiting' = Tail(waiting)
  BY DEF AnswerPanel
<1>3. hidden' = {} /\ debounce' = debounce
  BY DEF AnswerPanel
<1>4. s \in Panel /\ s.query = flight.query
  BY <1>1, <1>2 DEF PaletteInv, Panel
<1>5. /\ t \in Panel /\ t.query \in Query
      /\ flight.name = "close" => t.query = NoQuery
  <2>1. t \in Panel /\ (flight.name = "close" => t.query = NoQuery)
    BY <1>1, <1>2, <1>4, AfterCall
  <2> QED BY <2>1 DEF Panel
<1>6. bound' \in Query /\ input' \in Query
  BY <1>2, <1>5 DEF PaletteInv
<1>7. input' # bound' =>
         \/ debounce
         \/ /\ input' = NoQuery /\ bound' = bound
            /\ \E i \in DOMAIN waiting : waiting[i].name = "close"
  BY <1>2, <1>4, <1>5 DEF PaletteInv, InputFollows, CloseComing
<1>8. ChosenIsExecuted'
  <2>1. CASE flight.call.settled
    <3>1. /\ flight.query = panel.query
          /\ flight.call.index \in DOMAIN Shown
          /\ flight.call.meant = Shown[flight.call.index]
      BY <1>1, <2>1 DEF PaletteInv, ClickSettled
    <3>2. s = panel
      BY <1>2, <3>1 DEF PaletteInv, Panel
    <3>3. Executed(s, flight.call) = flight.call.meant
      BY <3>1, <3>2 DEF Executed, Shown
    <3>4. chosen' = chosen \cup {<<flight.call.meant, flight.call.meant>>}
      BY <1>2, <2>1, <3>3
    <3> QED BY <3>4 DEF PaletteInv, ChosenIsExecuted
  <2>2. CASE ~flight.call.settled
    BY <1>2, <2>2 DEF PaletteInv, ChosenIsExecuted
  <2> QED BY <2>1, <2>2
<1>9. CASE waiting = <<>>
  <2>1. flight' = Quiet /\ waiting' = <<>>
    BY <1>2, <1>9
  <2>2. IsSequence(waiting') /\ DOMAIN waiting' = {} /\ DOMAIN waiting = {}
    BY <1>9, <2>1 DEF PaletteInv, CallsKnown
  <2>3. CallsKnown' /\ ClickSettled' /\ LastCallBrings'
    BY <2>1, <2>2 DEF CallsKnown, ClickSettled, LastCallBrings
  <2>4. InputFollows'
    BY <1>3, <1>7, <2>2 DEF InputFollows
  <2>5. flight.query = bound
    BY <1>1, <1>9 DEF PaletteInv, LastCallBrings
  <2>6. AtRest'
    BY <1>2, <1>3, <1>4, <2>5 DEF AtRest
  <2> QED BY <1>2, <1>5, <1>6, <1>8, <2>3, <2>4, <2>6 DEF PaletteInv
<1>10. CASE waiting # <<>>
  <2>1. PICK h, r, f : h = Head(waiting) /\ r = Tail(waiting)
                       /\ f = [call |-> h, query |-> query, name |-> h.name]
    OBVIOUS
  <2>2. flight' = f /\ waiting' = r
    BY <1>2, <1>10, <2>1
  <2>3. /\ IsSequence(r)
        /\ 1 \in DOMAIN waiting /\ h = waiting[1]
        /\ \A i \in DOMAIN r : i + 1 \in DOMAIN waiting /\ r[i] = waiting[i + 1]
        /\ \A i \in DOMAIN waiting : i = 1 \/ (i - 1 \in DOMAIN r /\ r[i - 1] = waiting[i])
    BY <1>10, <2>1, SequenceBeheaded DEF PaletteInv, CallsKnown
  <2>4. h.name \in PaletteCalls /\ ~h.settled
    BY <2>3 DEF PaletteInv, CallsKnown
  <2>5. f.call = h /\ f.query = query /\ f.name = h.name /\ f # Quiet
    BY <2>1, <2>4 DEF Quiet, PaletteCalls
  <2>6. CallsKnown'
    BY <1>2, <1>6, <2>2, <2>3, <2>4, <2>5 DEF PaletteInv, CallsKnown
  <2>7. ClickSettled' /\ LastCallBrings' /\ AtRest'
    BY <1>2, <2>2, <2>4, <2>5 DEF ClickSettled, LastCallBrings, AtRest
  <2>8. InputFollows'
    BY <1>2, <1>3, <1>7, <2>2, <2>3, <2>5 DEF InputFollows, CloseComing
  <2> QED BY <1>2, <1>5, <1>6, <1>8, <2>6, <2>7, <2>8 DEF PaletteInv
<1> QED BY <1>9, <1>10

\* What the browser does sends at most one call, and leaves the component alone;
\* what is bound is what it was, or what has been typed.
LEMMA SendingKept ==
    ASSUME PaletteInv, NEW query, NEW call, Send(call, query), call.name \in PaletteCalls,
           call.settled => /\ Settled /\ query = bound
                           /\ call.index \in DOMAIN Shown
                           /\ call.meant = Shown[call.index],
           UNCHANGED <<panel, chosen>>, bound' = query,
           \/ query = bound /\ UNCHANGED <<input, debounce>>
           \/ query = bound /\ input' = NoQuery /\ call.name = "close"
           \/ query = input /\ UNCHANGED input
    PROVE  PaletteInv'
<1>1. query \in Query
  BY DEF PaletteInv
<1>2. /\ CallsKnown' /\ ClickSettled' /\ flight' # Quiet
      /\ waiting' = <<>> => flight'.query = query
      /\ (CloseComing /\ query = bound) \/ call.name = "close" => CloseComing'
  BY <1>1, SendKept DEF PaletteInv
<1>3. LastCallBrings' /\ AtRest'
  BY <1>2 DEF LastCallBrings, AtRest
<1>4. InputFollows' /\ input' \in Query
  BY <1>2, PaletteAssumption DEF PaletteInv, InputFollows
<1> QED BY <1>1, <1>2, <1>3, <1>4 DEF PaletteInv, ChosenIsExecuted

LEMMA CallSent ==
    \A name : /\ Call(name).name = name /\ Call(name).settled = FALSE
              /\ \A n : /\ [Call(name) EXCEPT !.index = n].name = name
                        /\ [Call(name) EXCEPT !.index = n].settled = FALSE
BY DEF Call

LEMMA StepPalette ==
    ASSUME PaletteInv, [PaletteNext]_paletteVars
    PROVE  PaletteInv'
<1>1. CASE OpenPanel
  BY <1>1, CallSent, SendingKept DEF OpenPanel, PaletteCalls
<1>2. CASE ClosePanel
  BY <1>2, CallSent, SendingKept DEF ClosePanel, PaletteCalls
<1>3. CASE UpdateQuery
  BY <1>3, CallSent, SendingKept DEF UpdateQuery, PaletteCalls
<1>4. CASE PressShortcut
  <2>1. PICK call : /\ call.name \in PaletteCalls /\ call.settled = FALSE
                    /\ Send(call, bound)
    BY <1>4, CallSent DEF PressShortcut, PaletteCalls
  <2> QED BY <1>4, <2>1, SendingKept DEF PressShortcut
<1>5. ASSUME NEW i, ClickAction(i) PROVE PaletteInv'
  <2>1. PICK call : call = [name |-> "selectResult", index |-> i, meant |-> Shown[i],
                            settled |-> Settled]
    OBVIOUS
  <2>2. /\ call.name = "selectResult" /\ call.index = i /\ call.meant = Shown[i]
        /\ call.settled <=> Settled
    BY <2>1
  <2> QED BY <1>5, <2>1, <2>2, SendingKept DEF ClickAction, PaletteCalls
<1>6. CASE SelectAction
  BY <1>5, <1>6 DEF SelectAction
<1>7. CASE UNCHANGED <<panel, bound, input, visible, hidden, debounce, flight, waiting, chosen>>
  BY <1>7 DEF PaletteInv, CallsKnown, ClickSettled, LastCallBrings, InputFollows, CloseComing,
     AtRest, ChosenIsExecuted, Shown
<1>8. CASE MoveSelection \/ UNCHANGED paletteVars
  BY <1>7, <1>8 DEF MoveSelection, paletteVars
<1>9. CASE TypeQuery
  <2>1. /\ input' \in Query /\ debounce' = TRUE
        /\ UNCHANGED <<panel, bound, visible, flight, waiting, chosen>>
    BY <1>9 DEF TypeQuery
  <2>2. CallsKnown' /\ ClickSettled'
    BY <2>1 DEF PaletteInv, CallsKnown, ClickSettled, Shown
  <2> QED BY <2>1, <2>2 DEF PaletteInv, LastCallBrings, InputFollows, AtRest, ChosenIsExecuted
<1>10. CASE PaletteReplaced
  <2>1. PICK order \in Rankings : panel' = Fresh(order)
    BY <1>10 DEF PaletteReplaced
  <2>2. panel' \in Panel /\ panel'.query = NoQuery /\ panel'.isOpen = FALSE
    BY <2>1, PaletteAssumption DEF Fresh, Panel
  <2>3. IsSequence(<<>>) /\ DOMAIN <<>> = {}
    BY DEF IsSequence
  <2> QED BY <1>10, <2>2, <2>3, PaletteAssumption
      DEF PaletteReplaced, PaletteInv, CallsKnown, ClickSettled, LastCallBrings, InputFollows,
          AtRest, ChosenIsExecuted
<1> QED BY <1>1, <1>2, <1>3, <1>4, <1>6, <1>8, <1>9, <1>10, AnswerKept
    DEF PaletteNext, PaletteStep

LEMMA InitPalette == PaletteInit => PaletteInv
<1> SUFFICES ASSUME PaletteInit PROVE PaletteInv
  OBVIOUS
<1>1. PICK order \in Rankings : panel = Fresh(order)
  BY DEF PaletteInit
<1>2. panel \in Panel /\ panel.query = NoQuery /\ panel.isOpen = FALSE
  BY <1>1, PaletteAssumption DEF Fresh, Panel
<1>3. IsSequence(<<>>) /\ DOMAIN <<>> = {}
  BY DEF IsSequence
<1> QED BY <1>2, <1>3, PaletteAssumption
    DEF PaletteInit, PaletteInv, CallsKnown, ClickSettled, LastCallBrings, InputFollows,
        AtRest, ChosenIsExecuted

(***************************************************************************)
(* For any actions, queries and rankings: the action clicked on a settled  *)
(* page is the one executed, though the click is sent as an index.         *)
(***************************************************************************)
THEOREM ChosenActionRuns == PaletteSpec => []ChosenIsExecuted
<1>1. PaletteInv => ChosenIsExecuted
  BY DEF PaletteInv
<1> QED BY <1>1, InitPalette, StepPalette, PTL DEF PaletteSpec

(***************************************************************************)
(* Once nothing is under way the overlay, the field and what is bound to   *)
(* it agree with the component, for any number of calls kept waiting.      *)
(***************************************************************************)
THEOREM PaletteSettles == PaletteSpec => []PaletteAgrees
<1>1. PaletteInv => PaletteAgrees
  <2> SUFFICES ASSUME PaletteInv, flight = Quiet, ~debounce PROVE PaletteAgrees
    BY DEF PaletteAgrees
  <2>1. waiting = <<>> /\ DOMAIN <<>> = {} /\ flight.name # "close"
    BY DEF PaletteInv, CallsKnown, Quiet
  <2> QED BY <2>1 DEF PaletteInv, InputFollows, CloseComing, AtRest, PaletteAgrees
<1> QED BY <1>1, InitPalette, StepPalette, PTL DEF PaletteSpec
-----------------------------------------------------------------------------
(* The workspace *)


(***************************************************************************)
(* Every part of a page runs as it does alone: the sidebar opens tabs and  *)
(* a new page replaces it, but neither sees more of the other than that.   *)
(***************************************************************************)
THEOREM EachPartIsImplemented == Spec => SidebarSpec /\ TabsSpec /\ PaletteSpec
<1>1. Init => SidebarInit /\ TabsInit /\ PaletteInit
  BY DEF Init
<1>2. [Next]_vars => [SidebarNext]_sidebarVars
  <2> SUFFICES ASSUME Next PROVE SidebarNext \/ UNCHANGED sidebarVars
    BY DEF vars
  <2>1. ASSUME NEW i \in Item, OpenFromSidebar(i) PROVE SidebarNext
    BY <2>1 DEF OpenFromSidebar, SidebarNext
  <2>2. ASSUME NEW p \in Window, LeavePage(p) PROVE SidebarNext \/ UNCHANGED sidebarVars
    BY <2>2 DEF LeavePage, SidebarNext
  <2> QED BY <2>1, <2>2 DEF Next, SidebarNext
<1>3. [Next]_vars => [TabsNext]_tabVars
  <2> SUFFICES ASSUME Next PROVE TabsNext \/ UNCHANGED tabVars
    BY DEF vars
  <2>1. ASSUME NEW i \in Item, OpenFromSidebar(i) PROVE TabsNext
    BY <2>1, WorkspaceAssumption DEF OpenFromSidebar, TabsNext
  <2>2. ASSUME NEW p \in Window, LeavePage(p) PROVE TabsNext
    BY <2>2 DEF LeavePage, TabsNext
  <2> QED BY <2>1, <2>2 DEF Next, TabsNext
<1>4. [Next]_vars => [PaletteNext]_paletteVars
  BY DEF Next, vars
<1> QED BY <1>1, <1>2, <1>3, <1>4, PTL DEF Spec, SidebarSpec, TabsSpec, PaletteSpec

(***************************************************************************)
(* So what is proved of a part holds of the workspace.                     *)
(***************************************************************************)
THEOREM WorkspaceKeepsPromises ==
    Spec => /\ []SidebarAgrees /\ []TabsWellFormed /\ []ActiveIsOpen /\ []RefreshKeepsTabs
            /\ []ChosenIsExecuted /\ []PaletteAgrees
BY EachPartIsImplemented, FilterAgrees, TabsAreWellFormed, ActiveTabIsOpen, ReloadKeepsTabs,
   ChosenActionRuns, PaletteSettles, PTL
=============================================================================
