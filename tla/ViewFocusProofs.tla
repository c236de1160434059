-------------------------- MODULE ViewFocusProofs --------------------------
(***************************************************************************)
(* The keyboard of ViewFocus, for any number of views and addresses.       *)
(***************************************************************************)
EXTENDS ViewFocus, SequenceTheorems, WellFoundedInduction, TLAPS

(* Views that live have addresses, each its own. *)
AddressInv ==
  /\ \A v \in Live : address[v] # NULL
  /\ \A v, w \in Live : address[v] = address[w] => v = w
  /\ ~running => NoViews /\ ~settled

(* last_front_view is the address of the front view of the last tick, even *)
(* when that view is gone.  A view shown at that address was given the     *)
(* keyboard, or was mapped where the front view had been: this holds       *)
(* between the ticks too, whatever labwc does.                             *)
FrontInv ==
  /\ before = None <=> last_front_view = NULL
  /\ before # None => address[before] = last_front_view
  /\ keyboard => \A v \in shown : address[v] = last_front_view => v \in entered \cup stale
  /\ settled /\ FrontView # None => address[FrontView] = last_front_view

IInv == TypeOK /\ AddressInv /\ FrontInv

-----------------------------------------------------------------------------
(* The operators on sets of positions and on the list of views. *)

LEMMA Least ==
  ASSUME NEW P \in SUBSET Nat, P # {}
  PROVE  Min(P) \in P /\ \A j \in P : Min(P) <= j
<1>1. PICK x \in P : \A y \in P : ~(<<y, x>> \in OpToRel(<, Nat))
  BY NatLessThanWellFounded, WFMin
<1>2. ASSUME NEW y \in P, y < x PROVE FALSE
  <2>1. <<y, x>> \in Nat \X Nat
    OBVIOUS
  <2>2. <<y, x>>[1] < <<y, x>>[2]
    BY <1>2
  <2>3. <<y, x>> \in OpToRel(<, Nat)
    BY <2>1, <2>2, Zenon DEF OpToRel
  <2> QED BY <1>1, <2>3, Zenon
<1>3. \A y \in P : x <= y
  BY <1>2
<1> QED BY <1>3 DEF Min

(* One element is gone, every other is still there. *)
LEMMA RemovedAt ==
  ASSUME NEW S, NEW s \in Seq(S), NEW i \in DOMAIN s
  PROVE  /\ RemoveAt(s, i) \in Seq(S)
         /\ Range(RemoveAt(s, i)) \subseteq Range(s)
         /\ Range(s) \ {s[i]} \subseteq Range(RemoveAt(s, i))
<1> DEFINE a == SubSeq(s, 1, i - 1)
           b == SubSeq(s, i + 1, Len(s))
           r == RemoveAt(s, i)
<1>1. /\ i \in 1 .. Len(s) /\ Len(s) \in Nat /\ DOMAIN s = 1 .. Len(s)
      /\ \A k \in 1 .. Len(s) : s[k] \in S
  OBVIOUS
<1>2. /\ a \in Seq(S) /\ Len(a) = i - 1 /\ \A k \in 1 .. i - 1 : a[k] = s[k]
  BY <1>1, SubSeqProperties
<1>3. /\ b \in Seq(S) /\ Len(b) = Len(s) - i
      /\ \A k \in 1 .. Len(s) - i : b[k] = s[i + k]
  BY <1>1, SubSeqProperties
<1> HIDE DEF a, b
<1>4. r = a \o b
  BY DEF RemoveAt, a, b
<1>5. /\ r \in Seq(S) /\ DOMAIN r = 1 .. Len(s) - 1
      /\ \A k \in 1 .. i - 1 : r[k] = a[k]
      /\ \A k \in i .. Len(s) - 1 : r[k] = b[k - (i - 1)]
  <2>1. /\ a \o b \in Seq(S) /\ Len(a \o b) = Len(a) + Len(b)
        /\ \A k \in 1 .. Len(a) + Len(b) :
             (a \o b)[k] = IF k <= Len(a) THEN a[k] ELSE b[k - Len(a)]
    BY <1>2, <1>3, ConcatProperties
  <2>2. i \in Nat \ {0} /\ Len(a) + Len(b) = Len(s) - 1 /\ Len(s) - 1 \in Nat
    BY <1>1, <1>2, <1>3
  <2>3. r \in Seq(S) /\ DOMAIN r = 1 .. Len(s) - 1
    BY <1>4, <2>1, <2>2
  <2>4. \A k \in 1 .. i - 1 : r[k] = a[k]
    BY <1>1, <1>2, <1>4, <2>1, <2>2
  <2>5. \A k \in i .. Len(s) - 1 : r[k] = b[k - (i - 1)]
    BY <1>1, <1>2, <1>4, <2>1, <2>2
  <2> QED BY <2>3, <2>4, <2>5
<1> HIDE DEF r
<1>6. /\ \A k \in 1 .. i - 1 : r[k] = s[k]
      /\ \A k \in i .. Len(s) - 1 : r[k] = s[k + 1]
  <2>1. \A k \in i .. Len(s) - 1 : k - (i - 1) \in 1 .. Len(s) - i /\ i + (k - (i - 1)) = k + 1
    BY <1>1
  <2> QED BY <1>1, <1>2, <1>3, <1>5, <2>1
<1>7. ASSUME NEW k \in 1 .. Len(s), k # i
      PROVE  \E m \in DOMAIN r : r[m] = s[k]
  <2>1. CASE k < i
    BY <1>1, <1>5, <1>6, <2>1
  <2>2. CASE k > i
    <3>1. k - 1 \in i .. Len(s) - 1 /\ (k - 1) + 1 = k
      BY <1>1, <2>2
    <3>2. k - 1 \in DOMAIN r /\ r[k - 1] = s[k]
      BY <1>1, <1>5, <1>6, <3>1
    <3> QED BY <3>2
  <2> QED BY <1>1, <1>7, <2>1, <2>2
<1>8. ASSUME NEW m \in DOMAIN r
      PROVE  \E k \in DOMAIN s : s[k] = r[m]
  <2>1. m \in 1 .. i - 1 \/ m \in i .. Len(s) - 1
    BY <1>1, <1>5
  <2> QED BY <1>1, <1>6, <2>1
<1>9. Range(s) = {s[k] : k \in DOMAIN s} /\ Range(r) = {r[m] : m \in DOMAIN r}
  BY DEF Range
<1>10. Range(r) \subseteq Range(s)
  BY <1>8, <1>9
<1>11. Range(s) \ {s[i]} \subseteq Range(r)
  BY <1>1, <1>7, <1>9
<1> QED BY <1>5, <1>10, <1>11 DEF r

(* Taking a view out of the list, and putting it in front. *)
LEMMA WithoutOne ==
  ASSUME views \in Seq(Views), NEW v \in Live
  PROVE  /\ Without(v) \in Seq(Views)
         /\ Range(Without(v)) \subseteq Live
         /\ Live \ {v} \subseteq Range(Without(v))
<1> DEFINE i == CHOOSE i \in DOMAIN views : views[i] = v
<1>1. i \in DOMAIN views /\ views[i] = v
  BY DEF Live, Range
<1>2. Without(v) = RemoveAt(views, i)
  BY DEF Without
<1> HIDE DEF i
<1> QED BY <1>1, <1>2, RemovedAt DEF Live

LEMMA InFront ==
  ASSUME NEW S, NEW s \in Seq(S), NEW v \in S
  PROVE  /\ <<v>> \o s \in Seq(S)
         /\ 1 \in DOMAIN (<<v>> \o s) /\ DOMAIN (<<v>> \o s) \subseteq Nat \ {0}
         /\ (<<v>> \o s)[1] = v
         /\ Range(<<v>> \o s) = {v} \cup Range(s)
<1> DEFINE r == <<v>> \o s
<1>1. /\ r \in Seq(S) /\ DOMAIN r = 1 .. Len(s) + 1 /\ DOMAIN s = 1 .. Len(s)
      /\ Len(s) \in Nat /\ r[1] = v
      /\ \A i \in 1 .. Len(s) : r[i + 1] = s[i]
  OBVIOUS
<1> HIDE DEF r
<1>2. ASSUME NEW i \in DOMAIN s PROVE i + 1 \in DOMAIN r /\ r[i + 1] = s[i]
  BY <1>1
<1>3. ASSUME NEW i \in DOMAIN r, i # 1 PROVE i - 1 \in DOMAIN s /\ r[i] = s[i - 1]
  <2>1. i - 1 \in 1 .. Len(s) /\ (i - 1) + 1 = i
    BY <1>1, <1>3
  <2>2. r[(i - 1) + 1] = s[i - 1]
    BY <1>1, <2>1
  <2> QED BY <1>1, <2>1, <2>2
<1>4. Range(r) = {v} \cup Range(s)
  <2>1. \A x \in Range(r) : x \in {v} \cup Range(s)
    BY <1>1, <1>3 DEF Range
  <2>2. \A x \in Range(s) : x \in Range(r)
    BY <1>2 DEF Range
  <2>3. v \in Range(r)
    BY <1>1 DEF Range
  <2> QED BY <2>1, <2>2, <2>3
<1>5. 1 \in DOMAIN r /\ DOMAIN r \subseteq Nat \ {0}
  BY <1>1
<1> QED BY <1>1, <1>4, <1>5 DEF r

LEMMA RaisedOne ==
  ASSUME views \in Seq(Views), NEW v \in Live
  PROVE  /\ ToFront(v) \in Seq(Views)
         /\ 1 \in DOMAIN ToFront(v) /\ DOMAIN ToFront(v) \subseteq Nat \ {0}
         /\ ToFront(v)[1] = v
         /\ Range(ToFront(v)) = Live
<1>1. v \in Views
  BY DEF Live, Range
<1>2. /\ ToFront(v) \in Seq(Views)
      /\ 1 \in DOMAIN ToFront(v) /\ DOMAIN ToFront(v) \subseteq Nat \ {0}
      /\ ToFront(v)[1] = v
      /\ Range(ToFront(v)) = {v} \cup Range(Without(v))
  BY <1>1, WithoutOne, InFront DEF ToFront
<1>3. {v} \cup Range(Without(v)) = Live
  BY WithoutOne
<1> QED BY <1>2, <1>3

(* The front view is one that is shown; there is none only if no view is.  *)
LEMMA FrontIsShown ==
  ASSUME TypeOK
  PROVE  /\ FrontView # None => FrontView \in shown /\ FrontView \in Live
         /\ FrontView = None => shown = {}
         /\ Live \subseteq Views /\ None \notin Views
<1>1. ShownAt \in SUBSET Nat /\ \A i \in ShownAt : views[i] \in shown /\ views[i] \in Live
  BY DEF TypeOK, ShownAt, Live, Range
<1>2. Live \subseteq Views /\ None \notin Views
  <2>1. views \in Seq(Views)
    BY DEF TypeOK
  <2>2. \A i \in DOMAIN views : views[i] \in Views
    BY <2>1
  <2> QED BY <2>2 DEF Live, Range, Views, None
<1>3. CASE ShownAt = {}
  BY <1>2, <1>3 DEF FrontView, TypeOK, ShownAt, Range
<1>4. CASE ShownAt # {}
  <2>1. Min(ShownAt) \in ShownAt
    BY <1>1, <1>4, Least
  <2> QED BY <1>1, <1>2, <1>4, <2>1 DEF FrontView
<1> QED BY <1>3, <1>4

-----------------------------------------------------------------------------
LEMMA InitEstablishes == Init => IInv
<1> SUFFICES ASSUME Init PROVE IInv
  OBVIOUS
<1> USE DEF Init, NoViews
<1>1. Live = {}
  BY DEF Live, Range
<1>2. TypeOK
  <2>1. views \in Seq(Views)
    OBVIOUS
  <2>2. address \in [Views -> Addresses \cup {NULL}]
    OBVIOUS
  <2> QED BY <2>1, <2>2 DEF TypeOK
<1>3. AddressInv /\ FrontInv
  BY <1>1 DEF AddressInv, FrontInv
<1> QED BY <1>2, <1>3 DEF IInv

LEMMA StartKeeps == IInv /\ Start => IInv'
<1> SUFFICES ASSUME IInv, Start PROVE IInv'
  OBVIOUS
<1> USE DEF IInv, Start, viewVars
<1>1. TypeOK'
  BY DEF TypeOK
<1>2. AddressInv'
  BY DEF AddressInv, NoViews, Live
<1>3. FrontInv'
  BY DEF FrontInv, AddressInv, NoViews
<1> QED BY <1>1, <1>2, <1>3

LEMMA FinishKeeps == IInv /\ Finish => IInv'
<1> SUFFICES ASSUME IInv, Finish PROVE IInv'
  OBVIOUS
<1> USE DEF IInv, Finish
<1>1. Live' = {}
  BY DEF Live, Range
<1>2. TypeOK'
  <2>1. views' \in Seq(Views)
    OBVIOUS
  <2> QED BY <2>1 DEF TypeOK
<1>3. AddressInv'
  BY <1>1 DEF AddressInv, NoViews
<1>4. FrontInv'
  BY DEF FrontInv
<1> QED BY <1>2, <1>3, <1>4

(* A tick: the front view gets the keyboard if it is another than at the   *)
(* last tick, and is in front afterwards in either case.                   *)
LEMMA TickKeeps == IInv /\ Tick => IInv'
<1> SUFFICES ASSUME IInv, Tick PROVE IInv'
  OBVIOUS
<1> DEFINE f == FrontView
<1>t. TypeOK /\ AddressInv /\ FrontInv
  BY DEF IInv
<1>1. /\ f # None => f \in shown /\ f \in Live
      /\ f = None => shown = {}
      /\ Live \subseteq Views /\ None \notin Views
  BY <1>t, FrontIsShown
<1>2. /\ running /\ settled' = TRUE /\ UNCHANGED <<running, keyboard, address, shown>>
      /\ minimized' = minimized \ shown /\ maximized' = maximized \cup shown
      /\ before' = IF f = None THEN before ELSE f
      /\ stale' = {v \in stale : SameAddress(v, before')}
  BY DEF Tick, Restore
<1> HIDE DEF f
<1>3. CASE f # None /\ address[f] # last_front_view
  <2>1. /\ views' = ToFront(f)
        /\ focus' = IF keyboard THEN f ELSE focus
        /\ entered' = IF keyboard THEN entered \cup {f} ELSE entered
        /\ last_front_view' = address[f]
        /\ before' = f
    BY <1>2, <1>3 DEF Tick, Give, f
  <2>2. /\ views' \in Seq(Views) /\ Range(views') = Range(views)
        /\ 1 \in DOMAIN views' /\ DOMAIN views' \subseteq Nat \ {0} /\ views'[1] = f
    BY <1>t, <1>1, <1>3, <2>1, RaisedOne DEF TypeOK, Live
  <2>3. f \in shown /\ f \in Live /\ f \in Views /\ address[f] # NULL
    BY <1>1, <1>3, <1>t DEF AddressInv
  <2>4. TypeOK'
    <3>1. address[f] \in Addresses \cup {NULL}
      BY <1>t, <2>3 DEF TypeOK
    <3>2. focus' \in shown' \cup {None} /\ entered' \subseteq shown' /\ stale' \subseteq shown'
      BY <1>t, <1>2, <2>1, <2>3 DEF TypeOK
    <3> QED BY <1>t, <1>2, <2>1, <2>2, <2>3, <3>1, <3>2 DEF TypeOK
  <2>5. AddressInv'
    BY <1>t, <1>2, <2>2 DEF AddressInv, Live
  <2>6. FrontView' = f
    <3>1. 1 \in ShownAt' /\ ShownAt' \in SUBSET Nat /\ 0 \notin ShownAt'
      BY <1>2, <2>2, <2>3 DEF ShownAt
    <3>2. Min(ShownAt') \in ShownAt' /\ Min(ShownAt') <= 1
      BY <3>1, Least
    <3>3. Min(ShownAt') = 1
      <4> DEFINE m == Min(ShownAt')
      <4>1. m \in Nat /\ m # 0 /\ m <= 1
        BY <3>1, <3>2
      <4> HIDE DEF m
      <4>2. m = 1
        BY <4>1
      <4> QED BY <4>2 DEF m
    <3> QED BY <2>2, <3>1, <3>3 DEF FrontView
  <2>7. keyboard' => \A v \in shown' :
                       address'[v] = last_front_view' => v \in entered' \cup stale'
    <3> SUFFICES ASSUME keyboard, NEW v \in shown, address[v] = address[f]
                 PROVE  v \in entered'
      BY <1>2, <2>1
    <3>1. v \in Live
      BY <1>t DEF TypeOK, Live
    <3>2. v = f
      BY <1>t, <2>3, <3>1 DEF AddressInv
    <3> QED BY <2>1, <3>2
  <2> QED BY <1>1, <1>2, <2>1, <2>3, <2>4, <2>5, <2>6, <2>7 DEF IInv, FrontInv
<1>4. CASE ~(f # None /\ address[f] # last_front_view)
  <2>1. UNCHANGED <<views, focus, entered, last_front_view>>
    BY <1>4 DEF Tick, Give, f
  <2>2. TypeOK'
    BY <1>t, <1>1, <1>2, <2>1 DEF TypeOK
  <2>3. AddressInv'
    BY <1>t, <1>2, <2>1 DEF AddressInv, Live
  <2>4. FrontView' = f
    BY <1>2, <2>1 DEF FrontView, ShownAt, f
  <2>5. /\ before' = None <=> last_front_view' = NULL
        /\ before' # None => address'[before'] = last_front_view'
    BY <1>t, <1>1, <1>2, <1>4, <2>1 DEF FrontInv, AddressInv
  <2>6. keyboard' => \A v \in shown' :
                       address'[v] = last_front_view' => v \in entered' \cup stale'
    <3> SUFFICES ASSUME keyboard, NEW v \in shown, address[v] = last_front_view
                 PROVE  v \in entered \cup stale'
      BY <1>2, <2>1
    <3>1. v \in entered \cup stale
      BY <1>t DEF FrontInv
    <3>2. f # None /\ f \in Live
      BY <1>1
    <3>3. SameAddress(v, before')
      BY <1>2, <1>4, <3>2 DEF SameAddress
    <3> QED BY <1>2, <3>1, <3>3
  <2> QED BY <1>2, <1>4, <2>1, <2>2, <2>3, <2>4, <2>5, <2>6 DEF IInv, FrontInv
<1> QED BY <1>3, <1>4

(* What labwc and its clients do between two ticks. *)
LEMMA CreateKeeps ==
  ASSUME IInv, NEW v \in Views, NEW a \in Addresses, Create(v, a)
  PROVE  IInv'
<1>t. TypeOK /\ AddressInv /\ FrontInv
  BY DEF IInv
<1>1. /\ running /\ settled' = FALSE
      /\ UNCHANGED <<running, keyboard, last_front_view, before, shown, minimized,
                     maximized, focus, entered, stale>>
      /\ address[v] = NULL /\ a \notin Taken
      /\ address' = [address EXCEPT ![v] = a]
      /\ views' = <<v>> \o views
  BY DEF Create, Between
<1>2. a # NULL
  BY ViewFocusAssumption
<1>3. v \notin Live /\ \A w \in Live : w \in Views /\ w # v
  <2>1. views \in Seq(Views)
    BY <1>t DEF TypeOK
  <2>2. \A w \in Live : w \in Views
    BY <2>1 DEF Live, Range
  <2> QED BY <1>t, <1>1, <2>2 DEF AddressInv
<1>4. views' \in Seq(Views) /\ Live' = {v} \cup Live
  BY <1>t, <1>1, InFront DEF TypeOK, Live
<1>5. /\ address' \in [Views -> Addresses \cup {NULL}]
      /\ address'[v] = a /\ \A w \in Views : w # v => address'[w] = address[w]
  BY <1>t, <1>1 DEF TypeOK
<1>6. TypeOK'
  <2>1. Range(views) \subseteq Range(views')
    BY <1>4 DEF Live
  <2> QED BY <1>t, <1>1, <1>4, <1>5, <2>1 DEF TypeOK
<1>7. AddressInv'
  <2>1. \A w \in Live : address[w] # a
    BY <1>1 DEF Taken
  <2>2. \A w \in Live' : address'[w] # NULL
    BY <1>t, <1>2, <1>3, <1>4, <1>5 DEF AddressInv
  <2>3. \A w, x \in Live' : address'[w] = address'[x] => w = x
    BY <1>t, <1>3, <1>4, <1>5, <2>1 DEF AddressInv
  <2> QED BY <1>1, <2>2, <2>3 DEF AddressInv
<1>8. FrontInv'
  <2>1. before # None => address'[before] = last_front_view
    <3>1. before # None => before \in Views /\ address[before] # NULL
      BY <1>t DEF TypeOK, FrontInv
    <3> QED BY <1>t, <1>1, <1>5, <3>1 DEF FrontInv
  <2>2. \A w \in shown : address'[w] = address[w]
    BY <1>t, <1>3, <1>5 DEF TypeOK, Live
  <2> QED BY <1>t, <1>1, <2>1, <2>2 DEF FrontInv
<1> QED BY <1>6, <1>7, <1>8 DEF IInv

LEMMA MapKeeps ==
  ASSUME IInv, NEW v \in Views, Map(v)
  PROVE  IInv'
<1>t. TypeOK /\ AddressInv /\ FrontInv
  BY DEF IInv
<1>1. /\ running /\ settled' = FALSE
      /\ UNCHANGED <<running, keyboard, last_front_view, before, views, address, minimized,
                     maximized, focus, entered>>
      /\ v \in Live /\ shown' = shown \cup {v}
      /\ stale' = IF SameAddress(v, before) THEN stale \cup {v} ELSE stale
  BY DEF Map, Between
<1>2. TypeOK'
  BY <1>t, <1>1 DEF TypeOK, Live
<1>3. AddressInv'
  BY <1>t, <1>1 DEF AddressInv, Live
<1>4. keyboard => \A w \in shown' :
                    address[w] = last_front_view => w \in entered \cup stale'
  <2> SUFFICES ASSUME keyboard, NEW w \in shown', address[w] = last_front_view
               PROVE  w \in entered \cup stale'
    OBVIOUS
  <2>1. CASE w \in shown
    BY <1>t, <1>1, <2>1 DEF FrontInv
  <2>2. CASE w = v
    <3>1. SameAddress(v, before)
      BY <1>t, <1>1, <2>2 DEF SameAddress, FrontInv, AddressInv
    <3> QED BY <1>1, <2>2, <3>1
  <2> QED BY <1>1, <2>1, <2>2
<1>5. FrontInv'
  BY <1>t, <1>1, <1>4 DEF FrontInv
<1> QED BY <1>2, <1>3, <1>5 DEF IInv

LEMMA HideKeeps ==
  ASSUME IInv, NEW v \in Views, Unmap(v) \/ Destroy(v)
  PROVE  IInv'
<1>t. TypeOK /\ AddressInv /\ FrontInv
  BY DEF IInv
<1>1. /\ running /\ settled' = FALSE
      /\ UNCHANGED <<running, keyboard, last_front_view, before, address>>
      /\ shown' = shown \ {v}
      /\ focus' = IF focus = v THEN None ELSE focus
      /\ entered' = entered \ {v} /\ stale' = stale \ {v}
  BY DEF Unmap, Destroy, Between, Hidden
<1>2. /\ views' \in Seq(Views) /\ Range(views') \subseteq Range(views)
      /\ shown' \subseteq Range(views')
      /\ minimized' \subseteq Range(views') /\ maximized' \subseteq Range(views')
  <2>1. CASE Unmap(v)
    BY <1>t, <1>1, <2>1 DEF Unmap, TypeOK
  <2>2. CASE Destroy(v)
    <3>1. /\ v \in Live /\ views' = Without(v)
          /\ minimized' = minimized \ {v} /\ maximized' = maximized \ {v}
      BY <2>2 DEF Destroy
    <3>2. /\ views' \in Seq(Views) /\ Range(views') \subseteq Range(views)
          /\ Range(views) \ {v} \subseteq Range(views')
      BY <1>t, <3>1, WithoutOne DEF TypeOK, Live
    <3> QED BY <1>t, <1>1, <3>1, <3>2 DEF TypeOK
  <2> QED BY <2>1, <2>2
<1>3. TypeOK'
  <2>1. focus' \in shown' \cup {None}
    BY <1>t, <1>1 DEF TypeOK
  <2> QED BY <1>t, <1>1, <1>2, <2>1 DEF TypeOK
<1>4. AddressInv'
  BY <1>t, <1>1, <1>2 DEF AddressInv, Live
<1>5. FrontInv'
  BY <1>t, <1>1 DEF FrontInv
<1> QED BY <1>3, <1>4, <1>5 DEF IInv

LEMMA OthersKeep ==
  ASSUME IInv, NEW v \in Views \cup {None},
         \/ v \in Views /\ (Raise(v) \/ Minimize(v) \/ Unmaximize(v))
         \/ MoveFocus(v)
  PROVE  IInv'
<1>t. TypeOK /\ AddressInv /\ FrontInv
  BY DEF IInv
<1>1. /\ running /\ settled' = FALSE
      /\ UNCHANGED <<running, keyboard, last_front_view, before, address, shown, entered,
                     stale>>
  BY DEF Raise, Minimize, Unmaximize, MoveFocus, Between, viewVars
<1>2. views' \in Seq(Views) /\ Range(views') = Range(views)
  <2>1. CASE v \in Views /\ Raise(v)
    <3>1. v \in Live /\ views' = ToFront(v)
      BY <2>1 DEF Raise
    <3> QED BY <1>t, <3>1, RaisedOne DEF TypeOK, Live
  <2>2. CASE Minimize(v) \/ Unmaximize(v) \/ MoveFocus(v)
    BY <1>t, <2>2 DEF Minimize, Unmaximize, MoveFocus, viewVars, TypeOK
  <2> QED BY <2>1, <2>2
<1>3. /\ minimized' \subseteq Range(views) /\ maximized' \subseteq Range(views)
      /\ focus' \in shown \cup {None}
  BY <1>t DEF Raise, Minimize, Unmaximize, MoveFocus, viewVars, TypeOK
<1>4. TypeOK'
  BY <1>t, <1>1, <1>2, <1>3 DEF TypeOK
<1>5. AddressInv'
  BY <1>t, <1>1, <1>2 DEF AddressInv, Live
<1>6. FrontInv'
  BY <1>t, <1>1 DEF FrontInv
<1> QED BY <1>4, <1>5, <1>6 DEF IInv

LEMMA NextKeeps == IInv /\ [Next]_vars => IInv'
<1> SUFFICES ASSUME IInv, [Next]_vars PROVE IInv'
  OBVIOUS
<1>1. CASE Labwc
  <2>1. ASSUME NEW v \in Views, NEW a \in Addresses, Create(v, a) PROVE IInv'
    BY <2>1, CreateKeeps
  <2>2. ASSUME NEW v \in Views, Map(v) PROVE IInv'
    BY <2>2, MapKeeps
  <2>3. ASSUME NEW v \in Views, Unmap(v) \/ Destroy(v) PROVE IInv'
    BY <2>3, HideKeeps
  <2>4. ASSUME NEW v \in Views, Raise(v) \/ Minimize(v) \/ Unmaximize(v) PROVE IInv'
    BY <2>4, OthersKeep
  <2>5. ASSUME NEW v \in Views \cup {None}, MoveFocus(v) PROVE IInv'
    BY <2>5, OthersKeep
  <2> QED BY <1>1, <2>1, <2>2, <2>3, <2>4, <2>5 DEF Labwc
<1>2. CASE UNCHANGED vars
  BY <1>2 DEF vars, viewVars, history, IInv, TypeOK, AddressInv, FrontInv, NoViews, Live,
              FrontView, ShownAt
<1> QED BY <1>1, <1>2, StartKeeps, FinishKeeps, TickKeeps DEF Next

THEOREM Inductive == Spec => []IInv
BY InitEstablishes, NextKeeps, PTL DEF Spec

(* TypeOK: what is shown is on the list of views, the keyboard is with a   *)
(* view that is shown, whatever labwc does between two ticks.              *)
THEOREM ViewsTyped == Spec => []TypeOK
<1>1. IInv => TypeOK
  BY DEF IInv
<1> QED BY <1>1, Inductive, PTL

(* After a tick, the front view was given the keyboard since it appeared,  *)
(* or was mapped at the address the tick before remembers, for any number  *)
(* of views and addresses, and across restarts of the compositor.          *)
THEOREM FrontWasEntered == Spec => []FrontIsEntered
<1>1. IInv => FrontIsEntered
  <2> SUFFICES ASSUME IInv, settled, keyboard, FrontView # None
               PROVE  FrontView \in entered \cup stale
    BY DEF FrontIsEntered
  <2> QED BY FrontIsShown DEF IInv, FrontInv
<1> QED BY <1>1, Inductive, PTL

(* frame_timer_cb() moves the keyboard only when another view is in front  *)
(* than at the tick before.                                                *)
THEOREM FocusKept == Spec => KeepsFocus
<1>1. IInv /\ [Next]_vars => [Tick /\ focus' # focus => FrontView # before]_vars
  <2> SUFFICES ASSUME IInv, Tick, focus' # focus
               PROVE  FrontView # before
    OBVIOUS
  <2>1. FrontView # None /\ address[FrontView] # last_front_view
    BY DEF Tick, Give
  <2> QED BY <2>1 DEF IInv, FrontInv
<1> QED BY <1>1, Inductive, PTL DEF Spec, KeepsFocus
=============================================================================
