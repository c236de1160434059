--------------------------- MODULE GpuPathProofs ---------------------------
(***************************************************************************)
(* The allocator's list, the handles and the fallback of GpuPath, for any  *)
(* number of buffers and any formats.                                      *)
(***************************************************************************)
EXTENDS GpuPath, TLAPS

(* L is a circle of nodes through the head, linked both ways by nx and pv. *)
Circle(nx, pv, L) ==
  /\ ListHead \in L
  /\ \A n \in L : /\ nx[n] \in L /\ pv[n] \in L
                  /\ pv[nx[n]] = n /\ nx[pv[n]] = n
  /\ \A S \in SUBSET L : ListHead \in S /\ (\A n \in S : nx[n] \in S) => S = L

Links == [Nodes -> Nodes \cup {NULL}]

-----------------------------------------------------------------------------
(* No smaller set is closed. *)
LEMMA Whole ==
  ASSUME NEW nx, NEW pv, NEW L, Circle(nx, pv, L),
         NEW T \in SUBSET L, ListHead \in T, \A n \in T : nx[n] \in T
  PROVE  T = L
BY DEF Circle

(* wl_list_insert() after the head takes a node into the circle. *)
LEMMA InsertKeeps ==
  ASSUME NEW nx \in Links, NEW pv \in Links, NEW L \in SUBSET Nodes,
         Circle(nx, pv, L), NEW e \in Nodes \ L
  PROVE  Circle([nx EXCEPT ![ListHead] = e, ![e] = nx[ListHead]],
                [pv EXCEPT ![e] = ListHead, ![nx[ListHead]] = e],
                L \cup {e})
<1> DEFINE first == nx[ListHead]
           nx1 == [nx EXCEPT ![ListHead] = e, ![e] = nx[ListHead]]
           pv1 == [pv EXCEPT ![e] = ListHead, ![nx[ListHead]] = e]
           K == L \cup {e}
<1>1. ListHead \in L /\ first \in L /\ e # ListHead /\ e # first
  BY DEF Circle
<1>2. /\ nx1[ListHead] = e /\ nx1[e] = first
      /\ \A n \in L \ {ListHead} : nx1[n] = nx[n]
  BY <1>1 DEF Links
<1>3. /\ pv1[e] = ListHead /\ pv1[first] = e
      /\ \A n \in L \ {first} : pv1[n] = pv[n]
  BY <1>1 DEF Links
<1> HIDE DEF nx1, pv1
<1>4. ASSUME NEW n \in K
      PROVE  nx1[n] \in K /\ pv1[n] \in K /\ pv1[nx1[n]] = n /\ nx1[pv1[n]] = n
  <2>1. CASE n = e
    BY <1>1, <1>2, <1>3, <2>1
  <2>2. CASE n \in L
    <3>1. nx1[n] \in K /\ pv1[nx1[n]] = n
      <4>1. CASE n = ListHead
        BY <1>1, <1>2, <1>3, <4>1
      <4>2. CASE n # ListHead
        <5>1. nx1[n] = nx[n] /\ nx[n] \in L /\ pv[nx[n]] = n
          BY <1>2, <2>2, <4>2 DEF Circle
        <5>2. nx[n] # first
          BY <1>1, <2>2, <4>2, <5>1 DEF Circle
        <5> QED BY <1>3, <5>1, <5>2
      <4> QED BY <4>1, <4>2
    <3>2. pv1[n] \in K /\ nx1[pv1[n]] = n
      <4>1. CASE n = first
        BY <1>1, <1>2, <1>3, <4>1
      <4>2. CASE n # first
        <5>1. pv1[n] = pv[n] /\ pv[n] \in L /\ nx[pv[n]] = n
          BY <1>3, <2>2, <4>2 DEF Circle
        <5>2. pv[n] # ListHead
          BY <4>2, <5>1
        <5> QED BY <1>2, <5>1, <5>2
      <4> QED BY <4>1, <4>2
    <3> QED BY <3>1, <3>2
  <2> QED BY <2>1, <2>2
<1>5. ASSUME NEW S \in SUBSET K, ListHead \in S, \A n \in S : nx1[n] \in S
      PROVE  S = K
  <2>1. e \in S /\ first \in S
    BY <1>2, <1>5
  <2>2. \A n \in S \ {e} : nx[n] \in S \ {e}
    <3> SUFFICES ASSUME NEW n \in S \ {e}
                 PROVE  nx[n] \in S \ {e}
      OBVIOUS
    <3>1. n \in L /\ nx[n] \in L
      BY DEF Circle
    <3>2. CASE n = ListHead
      BY <1>1, <2>1, <3>2
    <3>3. CASE n # ListHead
      BY <1>2, <1>5, <3>1, <3>3
    <3> QED BY <3>2, <3>3
  <2>3. S \ {e} = L
    <3>1. S \ {e} \in SUBSET L /\ ListHead \in S \ {e}
      BY <1>1, <1>5
    <3> QED BY <2>2, <3>1, Whole
  <2> QED BY <2>1, <2>3
<1>6. ListHead \in K
  BY <1>1
<1> QED BY <1>4, <1>5, <1>6 DEF Circle, nx1, pv1

(* wl_list_remove() takes a buffer out of the circle. *)
LEMMA RemoveKeeps ==
  ASSUME NEW nx \in Links, NEW pv \in Links, NEW L \in SUBSET Nodes,
         Circle(nx, pv, L), NEW e \in L, e # ListHead
  PROVE  Circle([[nx EXCEPT ![pv[e]] = nx[e]] EXCEPT ![e] = NULL],
                [[pv EXCEPT ![nx[e]] = pv[e]] EXCEPT ![e] = NULL],
                L \ {e})
<1> DEFINE nx1 == [[nx EXCEPT ![pv[e]] = nx[e]] EXCEPT ![e] = NULL]
           pv1 == [[pv EXCEPT ![nx[e]] = pv[e]] EXCEPT ![e] = NULL]
           K == L \ {e}
<1>1. /\ ListHead \in L /\ nx[e] \in L /\ pv[e] \in L
      /\ pv[nx[e]] = e /\ nx[pv[e]] = e
  BY DEF Circle
<1>2. nx[e] # e /\ pv[e] # e
  <2>1. ASSUME nx[e] = e \/ pv[e] = e
        PROVE  FALSE
    <3>1. nx[e] = e /\ pv[e] = e
      BY <1>1, <2>1
    <3>2. \A n \in L \ {e} : nx[n] \in L \ {e}
      BY <3>1 DEF Circle
    <3>3. L \ {e} \in SUBSET L /\ ListHead \in L \ {e}
      BY <1>1
    <3>4. L \ {e} = L
      BY <3>2, <3>3, Whole
    <3> QED BY <3>4
  <2> QED BY <2>1
<1>3. nx1[pv[e]] = nx[e] /\ \A n \in K \ {pv[e]} : nx1[n] = nx[n]
  BY <1>1, <1>2 DEF Links
<1>4. pv1[nx[e]] = pv[e] /\ \A n \in K \ {nx[e]} : pv1[n] = pv[n]
  BY <1>1, <1>2 DEF Links
<1> HIDE DEF nx1, pv1
<1>5. ASSUME NEW n \in K
      PROVE  nx1[n] \in K /\ pv1[n] \in K /\ pv1[nx1[n]] = n /\ nx1[pv1[n]] = n
  <2>1. nx1[n] \in K /\ pv1[nx1[n]] = n
    <3>1. CASE n = pv[e]
      BY <1>1, <1>2, <1>3, <1>4, <3>1
    <3>2. CASE n # pv[e]
      <4>1. nx1[n] = nx[n] /\ nx[n] \in L /\ pv[nx[n]] = n
        BY <1>3, <3>2 DEF Circle
      <4>2. nx[n] # e /\ nx[n] # nx[e]
        BY <1>1, <3>2, <4>1
      <4> QED BY <1>4, <4>1, <4>2
    <3> QED BY <3>1, <3>2
  <2>2. pv1[n] \in K /\ nx1[pv1[n]] = n
    <3>1. CASE n = nx[e]
      BY <1>1, <1>2, <1>3, <1>4, <3>1
    <3>2. CASE n # nx[e]
      <4>1. pv1[n] = pv[n] /\ pv[n] \in L /\ nx[pv[n]] = n
        BY <1>4, <3>2 DEF Circle
      <4>2. pv[n] # e /\ pv[n] # pv[e]
        BY <1>1, <3>2, <4>1
      <4> QED BY <1>3, <4>1, <4>2
    <3> QED BY <3>1, <3>2
  <2> QED BY <2>1, <2>2
<1>6. ASSUME NEW S \in SUBSET K, ListHead \in S, \A n \in S : nx1[n] \in S
      PROVE  S = K
  <2>1. CASE pv[e] \in S
    <3>1. nx[e] \in S
      BY <1>3, <1>6, <2>1
    <3>2. \A n \in S \cup {e} : nx[n] \in S \cup {e}
      BY <1>1, <1>3, <1>6, <3>1
    <3>3. S \cup {e} \in SUBSET L /\ ListHead \in S \cup {e}
      BY <1>6
    <3>4. S \cup {e} = L
      BY <3>2, <3>3, Whole
    <3> QED BY <3>4
  <2>2. CASE pv[e] \notin S
    <3>1. \A n \in S : nx[n] \in S
      BY <1>3, <1>6, <2>2
    <3>2. S \in SUBSET L
      OBVIOUS
    <3>3. S = L
      BY <1>6, <3>1, <3>2, Whole
    <3> QED BY <3>3
  <2> QED BY <2>1, <2>2
<1>7. ListHead \in K
  BY <1>1
<1> QED BY <1>5, <1>6, <1>7 DEF Circle, nx1, pv1

(* When the head follows itself, it is alone. *)
LEMMA AloneAtEnd ==
  ASSUME NEW nx, NEW pv, NEW L, Circle(nx, pv, L), nx[ListHead] = ListHead
  PROVE  L = {ListHead}
<1> DEFINE T == {ListHead}
<1>1. T \in SUBSET L /\ ListHead \in T
  BY DEF Circle
<1>2. \A n \in T : nx[n] \in T
  OBVIOUS
<1> HIDE DEF T
<1>3. T = L
  BY <1>1, <1>2, Whole
<1> QED BY <1>3 DEF T

(* An empty list is a circle. *)
LEMMA EmptyCircle ==
  ASSUME NEW nx, NEW pv, nx[ListHead] = ListHead, pv[ListHead] = ListHead
  PROVE  Circle(nx, pv, {ListHead})
<1>1. \A S \in SUBSET {ListHead} : ListHead \in S => S = {ListHead}
  OBVIOUS
<1> QED BY <1>1 DEF Circle

-----------------------------------------------------------------------------
(* What a failing step releases is what the steps before it acquired. *)
LEMMA StepsAddUp ==
  /\ Len(Steps) = 8
  /\ Released[Steps[1]] = {}
  /\ \A n \in 1 .. 7 :
       Released[Steps[n]] \cup Acquired[Steps[n]] = Released[Steps[n + 1]]
  /\ Released[Steps[8]] \cup Acquired[Steps[8]] = Everything
<1>1. /\ Steps[1] = "get_display" /\ Steps[2] = "initialize"
      /\ Steps[3] = "bind_api" /\ Steps[4] = "choose_config"
      /\ Steps[5] = "create_context" /\ Steps[6] = "make_current"
      /\ Steps[7] = "wrap" /\ Steps[8] = "create_renderer" /\ Len(Steps) = 8
  BY DEF Steps
<1>2. /\ Released["get_display"] = {} /\ Released["initialize"] = {}
      /\ Released["bind_api"] = {"display"}
      /\ Released["choose_config"] = {"display"}
      /\ Released["create_context"] = {"display"}
      /\ Released["make_current"] = {"display", "context"}
      /\ Released["wrap"] = {"display", "context"}
      /\ Released["create_renderer"] = {"display", "context", "wlr_egl"}
  BY DEF Released
<1>3. /\ Acquired["get_display"] = {} /\ Acquired["initialize"] = {"display"}
      /\ Acquired["bind_api"] = {} /\ Acquired["choose_config"] = {}
      /\ Acquired["create_context"] = {"context"}
      /\ Acquired["make_current"] = {}
      /\ Acquired["wrap"] = {"wlr_egl"}
      /\ Acquired["create_renderer"] = {"renderer"}
  BY DEF Acquired
<1>4. Everything = {"display", "context", "wlr_egl", "renderer"}
  <2>1. DOMAIN Acquired =
          {"get_display", "initialize", "bind_api", "choose_config",
           "create_context", "make_current", "wrap", "create_renderer"}
    BY DEF Acquired
  <2> QED BY <1>3, <2>1 DEF Everything
<1>5. ASSUME NEW n \in 1 .. 7
      PROVE  Released[Steps[n]] \cup Acquired[Steps[n]] = Released[Steps[n + 1]]
  <2>1. n \in {1, 2, 3, 4, 5, 6, 7}
    OBVIOUS
  <2> QED BY <1>1, <1>2, <1>3, <2>1
<1>6. Released[Steps[8]] \cup Acquired[Steps[8]] = Everything
  BY <1>1, <1>2, <1>3, <1>4
<1> QED BY <1>1, <1>2, <1>5, <1>6

(* The format of a buffer is one that Android has. *)
LEMMA AllocatedType ==
  ASSUME NEW f
  PROVE  AllocatedAs(f) \in AndroidFormats
<1>1. AndroidFormats =
        {"R8G8B8A8_UNORM", "R8G8B8X8_UNORM", "R8G8B8_UNORM", "R5G6B5_UNORM",
         "R16G16B16A16_FLOAT", "R10G10B10A2_UNORM"}
  BY DEF AndroidFormats, DrmOf
<1>2. DrmFormats =
        {"ABGR8888", "XBGR8888", "ARGB8888", "XRGB8888", "BGR888", "RGB565",
         "ABGR16161616F", "ABGR2101010"}
  BY DEF DrmFormats, AndroidOf
<1>3. \A g \in DrmFormats : AndroidOf[g] \in AndroidFormats
  BY <1>1, <1>2 DEF AndroidOf
<1> QED BY <1>1, <1>3 DEF AllocatedAs, drm_to_android_format, Unknown

-----------------------------------------------------------------------------
(* The list is a circle while there is an allocator; a buffer that has     *)
(* lost its AHardwareBuffer is off the list; and the loop that destroys    *)
(* the allocator is always at the first of what is left.                   *)
ListInv ==
  /\ allocator => Circle(next, prev, Listed)
  /\ \A b \in Buffers : ahb[b] => b \in buffers /\ allocator
  /\ \A b \in buffers : ~ahb[b] => next[b] = NULL
  /\ loop = NoLoop => \A b \in buffers : ahb[b] \/ b \in outlived
  /\ loop # NoLoop => /\ allocator /\ phase = "finishing"
                      /\ loop.buf = next[ListHead] /\ loop.tmp = next[loop.buf]

AhbInv == AhbTypeOK /\ HandlesBalanced /\ ListInv

LEMMA NodeFacts ==
  /\ ListHead \notin Buffers /\ NULL \notin Nodes
  /\ Buffers \subseteq Nodes /\ ListHead \in Nodes
  /\ Buffers \subseteq Nat
BY DEF Nodes, Buffers, ListHead, NULL

LEMMA ListedType ==
  ASSUME AhbTypeOK
  PROVE  /\ Listed \in SUBSET Nodes /\ ListHead \in Listed /\ NULL \notin Listed
         /\ \A b \in Buffers : b \in Listed <=> b \in buffers /\ ahb[b]
         /\ next \in Links /\ prev \in Links
BY NodeFacts DEF Listed, AhbTypeOK, Links

(* wlr_ahb_allocator_create() begins with an empty list. *)
LEMMA CreateAllocatorKeeps ==
  ASSUME AhbInv, wlr_ahb_allocator_create
  PROVE  AhbInv'
<1> USE NodeFacts
<1>1. /\ ~allocator /\ allocator' = TRUE /\ loop = NoLoop /\ loop' = loop
      /\ next' = [next EXCEPT ![ListHead] = ListHead]
      /\ prev' = [prev EXCEPT ![ListHead] = ListHead]
      /\ buffers' = buffers /\ ahb' = ahb /\ asked' = asked /\ format' = format
      /\ refs' = refs /\ locks' = locks /\ mapped' = mapped
      /\ outlived' = outlived /\ crash' = crash
  BY DEF wlr_ahb_allocator_create, MayRun, wl_list_init, handles, access
<1>2. AhbTypeOK'
  BY <1>1 DEF AhbInv, AhbTypeOK
<1>3. HandlesBalanced'
  BY <1>1 DEF AhbInv, HandlesBalanced
<1>4. ListInv'
  <2>1. \A b \in Buffers : ~ahb[b]
    BY <1>1 DEF AhbInv, ListInv
  <2>2. Listed' = {ListHead}
    BY <1>1, <2>1 DEF AhbInv, AhbTypeOK, Listed
  <2>3. next'[ListHead] = ListHead /\ prev'[ListHead] = ListHead
    BY <1>1 DEF AhbInv, AhbTypeOK
  <2>4. Circle(next', prev', {ListHead})
    BY <2>3, EmptyCircle
  <2>5. \A b \in buffers : next'[b] = next[b]
    BY <1>1 DEF AhbInv, AhbTypeOK
  <2> QED BY <1>1, <2>1, <2>2, <2>4, <2>5 DEF AhbInv, ListInv, AhbTypeOK
<1> QED BY <1>2, <1>3, <1>4 DEF AhbInv

(* create_buffer() *)
LEMMA CreateBufferKeeps ==
  ASSUME AhbInv, NEW b \in Buffers, NEW f \in Formats, create_buffer(b, f),
         phase' = phase
  PROVE  AhbInv'
<1> USE NodeFacts
<1>1. /\ allocator /\ allocator' = allocator /\ loop = NoLoop /\ loop' = loop
      /\ b \notin buffers /\ buffers' = buffers \cup {b}
      /\ next' = [next EXCEPT ![ListHead] = b, ![b] = next[ListHead]]
      /\ prev' = [prev EXCEPT ![b] = ListHead, ![next[ListHead]] = b]
      /\ ahb' = [ahb EXCEPT ![b] = TRUE] /\ refs' = [refs EXCEPT ![b] = @ + 1]
      /\ asked' = [asked EXCEPT ![b] = f]
      /\ format' = [format EXCEPT ![b] = AllocatedAs(f)]
      /\ locks' = locks /\ mapped' = mapped /\ outlived' = outlived
      /\ crash' = crash
  BY DEF create_buffer, MayRun, wl_list_insert, access
<1>2. refs[b] = 0
  BY <1>1 DEF AhbInv, HandlesBalanced
<1>3. b \in Nodes \ Listed
  BY <1>1, ListedType DEF AhbInv
<1>4. Circle(next, prev, Listed)
  BY <1>1 DEF AhbInv, ListInv
<1>5. next[ListHead] \in Listed
  BY <1>4 DEF Circle
<1>6. AhbTypeOK'
  <2>1. refs' \in [Buffers -> 0 .. 1]
    BY <1>1, <1>2 DEF AhbInv, AhbTypeOK
  <2>2. next' \in Links /\ prev' \in Links
    BY <1>1, <1>5, ListedType DEF AhbInv, Links
  <2>3. format' \in [Buffers -> AndroidFormats \cup {Unknown}]
    BY <1>1, AllocatedType DEF AhbInv, AhbTypeOK
  <2> QED BY <1>1, <2>1, <2>2, <2>3 DEF AhbInv, AhbTypeOK, Links
<1>7. HandlesBalanced'
  BY <1>1, <1>2 DEF AhbInv, HandlesBalanced, AhbTypeOK
<1>8. ListInv'
  <2>1. Listed' = Listed \cup {b}
    BY <1>1 DEF AhbInv, AhbTypeOK, Listed
  <2>2. Circle(next', prev', Listed')
    BY <1>1, <1>3, <1>4, <2>1, ListedType, InsertKeeps DEF AhbInv
  <2>3. \A c \in buffers : next'[c] = next[c] /\ ahb'[c] = ahb[c]
    BY <1>1 DEF AhbInv, AhbTypeOK
  <2>4. ahb'[b]
    BY <1>1 DEF AhbInv, AhbTypeOK
  <2>5. \A c \in Buffers : ahb'[c] => c \in buffers'
    BY <1>1 DEF AhbInv, AhbTypeOK, ListInv
  <2> QED BY <1>1, <2>2, <2>3, <2>4, <2>5 DEF AhbInv, ListInv
<1> QED BY <1>6, <1>7, <1>8 DEF AhbInv

(* wl_list_remove() of a listed buffer, and the release that goes with it. *)
LEMMA RemoveListed ==
  ASSUME AhbTypeOK, HandlesBalanced, Circle(next, prev, Listed),
         NEW b \in Buffers, b \in Listed, Release(b), wl_list_remove(b)
  PROVE  /\ next' = [[next EXCEPT ![prev[b]] = next[b]] EXCEPT ![b] = NULL]
         /\ Circle(next', prev', Listed \ {b})
         /\ next' \in Links /\ prev' \in Links
         /\ next'[b] = NULL
         /\ \A n \in Buffers \ Listed : next'[n] = next[n]
         /\ refs' = [refs EXCEPT ![b] = 0]
         /\ refs' \in [Buffers -> 0 .. 1]
         /\ crash' = crash
<1> USE NodeFacts, ListedType
<1>1. /\ next[b] \in Listed /\ prev[b] \in Listed
      /\ next[b] \in Nodes /\ prev[b] \in Nodes /\ b \in Nodes
  BY DEF Circle
<1>2. /\ next' = [[next EXCEPT ![prev[b]] = next[b]] EXCEPT ![b] = NULL]
      /\ prev' = [[prev EXCEPT ![next[b]] = prev[b]] EXCEPT ![b] = NULL]
      /\ crash' = crash
  BY <1>1 DEF wl_list_remove
<1>3. Circle(next', prev', Listed \ {b})
  BY <1>2, RemoveKeeps
<1>4. /\ next' \in Links /\ prev' \in Links /\ next'[b] = NULL
      /\ \A n \in Buffers \ Listed : next'[n] = next[n]
  BY <1>1, <1>2 DEF Links
<1>5. refs[b] = 1 /\ refs' = [refs EXCEPT ![b] = @ - 1]
  BY DEF HandlesBalanced, Release
<1>6. refs' = [refs EXCEPT ![b] = 0] /\ refs' \in [Buffers -> 0 .. 1]
  BY <1>5 DEF AhbTypeOK
<1> QED BY <1>2, <1>3, <1>4, <1>6

(* What Release(b) leaves in the buffer. *)
LEMMA ForgetType ==
  ASSUME AhbTypeOK, NEW b \in Buffers, Forget(b)
  PROVE  /\ ahb' = [ahb EXCEPT ![b] = FALSE] /\ ahb' \in [Buffers -> BOOLEAN]
         /\ asked' \in [Buffers -> Formats \cup {Unknown}]
         /\ format' \in [Buffers -> AndroidFormats \cup {Unknown}]
BY DEF Forget, AhbTypeOK

(* buffer_destroy() of a listed buffer, and of one off the list. *)
LEMMA DestroyBufferKeeps ==
  ASSUME AhbInv, NEW b \in Buffers, buffer_destroy(b), phase' = phase
  PROVE  AhbInv' /\ (crash' # crash => b \in outlived)
<1> USE NodeFacts
<1>1. /\ loop = NoLoop /\ loop' = loop /\ mapped = ListHead /\ mapped' = mapped
      /\ locks' = locks /\ allocator' = allocator
      /\ b \in buffers /\ buffers' = buffers \ {b}
      /\ outlived' = outlived \ {b}
      /\ Release(b) /\ wl_list_remove(b)
      /\ AhbTypeOK /\ HandlesBalanced /\ ListInv
  BY DEF buffer_destroy, MayRun, AhbInv, access
<1>2. /\ ahb' = [ahb EXCEPT ![b] = FALSE] /\ ahb' \in [Buffers -> BOOLEAN]
      /\ asked' \in [Buffers -> Formats \cup {Unknown}]
      /\ format' \in [Buffers -> AndroidFormats \cup {Unknown}]
  BY <1>1, ForgetType DEF Release
<1>3. Listed' = Listed \ {b}
  BY <1>1, <1>2 DEF Listed, AhbTypeOK
<1>4. CASE ahb[b]
  <2>1. b \in Listed /\ allocator /\ Circle(next, prev, Listed)
    BY <1>1, <1>4, ListedType DEF ListInv
  <2>2. /\ Circle(next', prev', Listed \ {b})
        /\ next' \in Links /\ prev' \in Links
        /\ \A n \in Buffers \ Listed : next'[n] = next[n]
        /\ refs' = [refs EXCEPT ![b] = 0] /\ refs' \in [Buffers -> 0 .. 1]
        /\ crash' = crash
    BY <1>1, <2>1, RemoveListed
  <2>3. AhbTypeOK'
    BY <1>1, <1>2, <2>2 DEF AhbTypeOK, Links
  <2>4. HandlesBalanced'
    BY <1>1, <1>2, <2>2 DEF HandlesBalanced, AhbTypeOK
  <2>5. \A c \in buffers' : ~ahb'[c] => ~ahb[c] /\ next'[c] = next[c]
    <3> SUFFICES ASSUME NEW c \in buffers', ~ahb'[c]
                 PROVE  ~ahb[c] /\ next'[c] = next[c]
      OBVIOUS
    <3>1. c \in buffers /\ c \in Buffers /\ c # b /\ ~ahb[c]
      BY <1>1, <1>2 DEF AhbTypeOK
    <3>2. c \in Buffers \ Listed
      BY <1>1, <3>1, ListedType
    <3> QED BY <2>2, <3>1, <3>2
  <2>6. ListInv'
    <3>1. \A c \in Buffers : ahb'[c] => c # b /\ ahb[c]
      BY <1>2 DEF AhbTypeOK
    <3>2. \A c \in buffers' : c # b /\ c \in Buffers /\ ahb'[c] = ahb[c]
      BY <1>1, <1>2 DEF AhbTypeOK
    <3> QED BY <1>1, <1>3, <2>2, <2>5, <3>1, <3>2 DEF ListInv
  <2> QED BY <2>2, <2>3, <2>4, <2>6 DEF AhbInv
<1>5. CASE ~ahb[b]
  <2>1. next[b] = NULL /\ b \in outlived
    BY <1>1, <1>5 DEF ListInv
  <2>2. crash' = "list" /\ next' = next /\ prev' = prev
    BY <1>1, <2>1 DEF wl_list_remove, links
  <2>3. refs' = refs
    BY <1>1, <1>5 DEF Release, AhbTypeOK
  <2>4. ahb' = ahb /\ Listed' = Listed
    BY <1>1, <1>2, <1>3, <1>5, ListedType DEF AhbTypeOK
  <2>5. AhbTypeOK'
    BY <1>1, <1>2, <2>2, <2>3 DEF AhbTypeOK
  <2>6. HandlesBalanced'
    BY <1>1, <1>5, <2>3, <2>4 DEF HandlesBalanced, AhbTypeOK
  <2>7. ListInv'
    BY <1>1, <1>5, <2>2, <2>4 DEF ListInv, AhbTypeOK
  <2> QED BY <2>1, <2>5, <2>6, <2>7 DEF AhbInv
<1> QED BY <1>4, <1>5

(* CPU access locks and unlocks, and leaves the list alone. *)
LEMMA AccessKeeps ==
  ASSUME AhbInv, phase' = phase,
         \/ \E b \in Buffers : buffer_begin_data_ptr_access(b)
         \/ buffer_end_data_ptr_access
  PROVE  AhbInv'
<1> USE NodeFacts
<1>1. /\ allocator' = allocator /\ next' = next /\ prev' = prev
      /\ buffers' = buffers /\ ahb' = ahb /\ asked' = asked /\ format' = format
      /\ refs' = refs /\ loop' = loop /\ outlived' = outlived /\ crash' = crash
  BY DEF buffer_begin_data_ptr_access, buffer_end_data_ptr_access, links, handles
<1>2. mapped' \in Nodes /\ locks' \in [Buffers -> 0 .. 1]
      /\ \A b \in Buffers : locks'[b] = IF b = mapped' THEN 1 ELSE 0
  <2>1. ASSUME NEW b \in Buffers, buffer_begin_data_ptr_access(b), ~UNCHANGED access
        PROVE  /\ mapped' \in Nodes /\ locks' \in [Buffers -> 0 .. 1]
               /\ \A c \in Buffers : locks'[c] = IF c = mapped' THEN 1 ELSE 0
    <3>1. /\ mapped = ListHead /\ mapped' = b
          /\ locks' = [locks EXCEPT ![b] = @ + 1]
      BY <2>1 DEF buffer_begin_data_ptr_access, MayRun
    <3>2. \A c \in Buffers : locks[c] = 0
      BY <3>1 DEF AhbInv, HandlesBalanced
    <3> QED BY <3>1, <3>2 DEF AhbInv, AhbTypeOK
  <2>2. CASE buffer_end_data_ptr_access
    <3>1. /\ mapped \in Buffers /\ mapped' = ListHead
          /\ locks' = [locks EXCEPT ![mapped] = @ - 1]
      BY <2>2 DEF buffer_end_data_ptr_access, AhbInv, AhbTypeOK, Nodes
    <3>2. \A c \in Buffers : locks[c] = IF c = mapped THEN 1 ELSE 0
      BY DEF AhbInv, HandlesBalanced
    <3> QED BY <3>1, <3>2 DEF AhbInv, AhbTypeOK
  <2>3. CASE UNCHANGED access
    BY <2>3 DEF AhbInv, AhbTypeOK, HandlesBalanced, access
  <2> QED BY <2>1, <2>2, <2>3
<1>3. AhbTypeOK'
  BY <1>1, <1>2 DEF AhbInv, AhbTypeOK
<1>4. HandlesBalanced'
  BY <1>1, <1>2 DEF AhbInv, HandlesBalanced
<1>5. Listed' = Listed
  BY <1>1 DEF Listed
<1>6. ListInv'
  BY <1>1, <1>5 DEF AhbInv, ListInv
<1> QED BY <1>3, <1>4, <1>6 DEF AhbInv

(* allocator_destroy(), iteration by iteration, never meets a NULL link. *)
LEMMA DestroyAllocatorKeeps ==
  ASSUME AhbInv, allocator_destroy, phase = "finishing", phase' = phase
  PROVE  AhbInv' /\ crash' = crash
<1> USE NodeFacts
<1>0. AhbTypeOK /\ HandlesBalanced /\ ListInv
  BY DEF AhbInv
<1>1. CASE DestroyBegin
  <2>1. /\ allocator /\ allocator' = allocator /\ next' = next /\ prev' = prev
        /\ buffers' = buffers /\ ahb' = ahb /\ asked' = asked
        /\ format' = format /\ refs' = refs /\ locks' = locks
        /\ mapped' = mapped /\ outlived' = outlived /\ crash' = crash
        /\ loop' = [buf |-> next[ListHead], tmp |-> next[next[ListHead]]]
    BY <1>1 DEF DestroyBegin, Following, links, handles, access
  <2>2. Circle(next, prev, Listed)
    BY <1>0, <2>1 DEF ListInv
  <2>3. next[ListHead] \in Listed /\ next[next[ListHead]] \in Listed
    BY <2>2 DEF Circle
  <2>4. loop' # NoLoop
    BY <1>0, <2>1, <2>3, ListedType DEF NoLoop
  <2>5. AhbTypeOK'
    BY <1>0, <2>1, <2>3, ListedType DEF AhbTypeOK
  <2>6. HandlesBalanced'
    BY <1>0, <2>1 DEF HandlesBalanced
  <2>7. Listed' = Listed
    BY <2>1 DEF Listed
  <2>8. ListInv'
    BY <1>0, <2>1, <2>2, <2>4, <2>7 DEF ListInv
  <2> QED BY <2>1, <2>5, <2>6, <2>8 DEF AhbInv
<1>2. CASE DestroyNext
  <2> DEFINE b == loop.buf
  <2>1. /\ b \in Buffers /\ Release(b) /\ wl_list_remove(b)
        /\ loop' = IF crash' = "no" THEN Following(loop.tmp) ELSE loop
        /\ crash = "no" /\ allocator' = allocator /\ buffers' = buffers
        /\ locks' = locks /\ mapped' = mapped /\ outlived' = outlived
    BY <1>2 DEF DestroyNext, access
  <2>2. loop # NoLoop
    <3>1. NoLoop.buf = NULL
      BY DEF NoLoop
    <3>2. loop.buf # NULL
      BY <2>1
    <3> QED BY <3>1, <3>2
  <2>3. /\ allocator /\ b = next[ListHead] /\ loop.tmp = next[b]
        /\ Circle(next, prev, Listed)
    BY <1>0, <2>2 DEF ListInv
  <2>4. b \in Listed /\ prev[b] = ListHead /\ next[b] \in Listed
    BY <2>3 DEF Circle
  <2>5. /\ next' = [[next EXCEPT ![prev[b]] = next[b]] EXCEPT ![b] = NULL]
        /\ Circle(next', prev', Listed \ {b})
        /\ next' \in Links /\ prev' \in Links /\ next'[b] = NULL
        /\ \A n \in Buffers \ Listed : next'[n] = next[n]
        /\ refs' = [refs EXCEPT ![b] = 0] /\ refs' \in [Buffers -> 0 .. 1]
        /\ crash' = crash
    BY <1>0, <2>1, <2>3, <2>4, RemoveListed
  <2>6. /\ ahb' = [ahb EXCEPT ![b] = FALSE] /\ ahb' \in [Buffers -> BOOLEAN]
        /\ asked' \in [Buffers -> Formats \cup {Unknown}]
        /\ format' \in [Buffers -> AndroidFormats \cup {Unknown}]
    BY <1>0, <2>1, ForgetType DEF Release
  <2>7. Listed' = Listed \ {b}
    BY <1>0, <2>1, <2>6 DEF Listed, AhbTypeOK
  <2>8. loop' = [buf |-> next[b], tmp |-> next'[next[b]]]
    BY <2>1, <2>3, <2>5 DEF Following
  <2>9. next'[ListHead] = next[b]
    BY <1>0, <2>1, <2>4, <2>5, ListedType DEF Links
  <2>10. next[b] \in Listed \ {b} /\ next'[next[b]] \in Listed \ {b}
    BY <2>5, <2>9 DEF Circle
  <2>11. loop' # NoLoop
    BY <1>0, <2>8, <2>10, ListedType DEF NoLoop
  <2>12. AhbTypeOK'
    BY <1>0, <2>1, <2>5, <2>6, <2>8, <2>10, ListedType DEF AhbTypeOK, Links
  <2>13. HandlesBalanced'
    BY <1>0, <2>1, <2>5, <2>6 DEF HandlesBalanced, AhbTypeOK
  <2>14. \A c \in buffers' : ~ahb'[c] => next'[c] = NULL
    <3> SUFFICES ASSUME NEW c \in buffers, ~ahb'[c], c # b
                 PROVE  next'[c] = NULL
      BY <2>1, <2>5
    <3>1. c \in Buffers /\ ~ahb[c]
      BY <1>0, <2>6 DEF AhbTypeOK
    <3>2. c \in Buffers \ Listed /\ next[c] = NULL
      BY <1>0, <3>1, ListedType DEF ListInv
    <3> QED BY <2>5, <3>2
  <2>15. \A c \in Buffers : ahb'[c] => ahb[c]
    BY <1>0, <2>6 DEF AhbTypeOK
  <2>16. ListInv'
    <3>1. loop'.buf = next'[ListHead] /\ loop'.tmp = next'[loop'.buf]
      BY <2>8, <2>9
    <3> QED BY <1>0, <2>1, <2>3, <2>5, <2>7, <2>11, <2>14, <2>15, <3>1 DEF ListInv
  <2> QED BY <2>5, <2>12, <2>13, <2>16 DEF AhbInv
<1>3. CASE DestroyEnd
  <2>1. /\ loop.buf = ListHead /\ loop' = NoLoop /\ allocator' = FALSE
        /\ next' = [next EXCEPT ![ListHead] = NULL]
        /\ prev' = [prev EXCEPT ![ListHead] = NULL]
        /\ outlived' = buffers /\ buffers' = buffers /\ ahb' = ahb
        /\ asked' = asked /\ format' = format /\ refs' = refs
        /\ locks' = locks /\ mapped' = mapped /\ crash' = crash
    BY <1>3 DEF DestroyEnd, handles, access
  <2>2. loop # NoLoop
    BY <2>1 DEF NoLoop, ListHead, NULL
  <2>3. Listed = {ListHead}
    <3>1. Circle(next, prev, Listed) /\ next[ListHead] = ListHead
      BY <1>0, <2>1, <2>2 DEF ListInv
    <3> QED BY <3>1, AloneAtEnd
  <2>4. \A b \in Buffers : ~ahb[b]
    BY <1>0, <2>3, ListedType DEF ListInv
  <2>5. AhbTypeOK'
    BY <1>0, <2>1 DEF AhbTypeOK, NoLoop
  <2>6. HandlesBalanced'
    BY <1>0, <2>1 DEF HandlesBalanced
  <2>7. \A b \in buffers : next'[b] = next[b]
    BY <1>0, <2>1 DEF AhbTypeOK
  <2>8. ListInv'
    BY <1>0, <2>1, <2>4, <2>7 DEF ListInv, AhbTypeOK
  <2> QED BY <2>1, <2>5, <2>6, <2>8 DEF AhbInv
<1> QED BY <1>1, <1>2, <1>3 DEF allocator_destroy

-----------------------------------------------------------------------------
(* At step n of the renderer what is held is what a failure would release; *)
(* there is no allocator before one is created and none between two runs;  *)
(* and without an output the link has never been set.                      *)
RunInv ==
  /\ phase = "egl" => egl = Released[Steps[step]]
  /\ phase # "egl" => step = 1
  /\ phase \in {"stopped", "egl", "gpu", "fallback"} => ~allocator
  /\ phase = "gpu" => egl = Everything /\ android_renderer = "gles2"
  /\ phase \in {"stopped", "fallback"} => egl = {}
  /\ phase = "fallback" => android_renderer = "NULL"
  /\ commit_link = "zero" => ~hadOutput
  /\ FallbackIsClean

RunTypeOK ==
  /\ step \in 1 .. Len(Steps)
  /\ egl \subseteq {"display", "context", "wlr_egl", "renderer"}
  /\ phase \in {"stopped", "egl", "gpu", "fallback", "ready", "serving",
                "finishing"}
  /\ android_renderer \in {"NULL", "gles2"}
  /\ android_allocator \in {"NULL", "ahb", "shm"}
  /\ commit_link \in {"zero", "added", "self"}
  /\ hadOutput \in BOOLEAN

IInv == AhbInv /\ RunTypeOK /\ RunInv

LEMMA InitEstablishes == Init => IInv
<1> SUFFICES ASSUME Init PROVE IInv
  OBVIOUS
<1> USE NodeFacts
<1>1. AhbTypeOK
  <2>1. NoLoop \in [buf : Nodes \cup {NULL}, tmp : Nodes \cup {NULL}]
    BY DEF NoLoop
  <2>2. loop \in [buf : Nodes \cup {NULL}, tmp : Nodes \cup {NULL}]
    BY <2>1 DEF Init, AhbInit
  <2>3. next \in [Nodes -> Nodes \cup {NULL}] /\ prev \in [Nodes -> Nodes \cup {NULL}]
    BY DEF Init, AhbInit
  <2>4. /\ ahb \in [Buffers -> BOOLEAN]
        /\ asked \in [Buffers -> Formats \cup {Unknown}]
        /\ format \in [Buffers -> AndroidFormats \cup {Unknown}]
        /\ refs \in [Buffers -> 0 .. 1] /\ locks \in [Buffers -> 0 .. 1]
    BY DEF Init, AhbInit
  <2> QED BY <2>2, <2>3, <2>4 DEF Init, AhbInit, AhbTypeOK
<1>2. HandlesBalanced
  BY DEF Init, AhbInit, HandlesBalanced
<1>3. ListInv
  BY DEF Init, AhbInit, ListInv
<1>4. RunTypeOK
  <2>1. 1 \in 1 .. Len(Steps)
    BY StepsAddUp
  <2> QED BY <2>1 DEF Init, RunInit, RunTypeOK
<1>5. RunInv
  BY DEF Init, AhbInit, RunInit, RunInv, FallbackIsClean
<1> QED BY <1>1, <1>2, <1>3, <1>4, <1>5 DEF IInv, AhbInv

(* A step that leaves the allocator alone, and is not in its loop. *)
LEMMA AhbUnchanged ==
  ASSUME AhbInv, UNCHANGED ahbVars, loop = NoLoop \/ phase' = phase
  PROVE  AhbInv'
<1>1. /\ allocator' = allocator /\ next' = next /\ prev' = prev
      /\ buffers' = buffers /\ ahb' = ahb /\ asked' = asked /\ format' = format
      /\ refs' = refs /\ locks' = locks /\ mapped' = mapped /\ loop' = loop
      /\ outlived' = outlived /\ crash' = crash
  BY DEF ahbVars, links, handles, access
<1>2. AhbTypeOK' /\ HandlesBalanced'
  BY <1>1 DEF AhbInv, AhbTypeOK, HandlesBalanced
<1>3. Listed' = Listed
  BY <1>1 DEF Listed
<1>4. ListInv'
  BY <1>1, <1>3 DEF AhbInv, ListInv
<1> QED BY <1>2, <1>4 DEF AhbInv

(* Outside of the end of a run no allocator is being destroyed. *)
LEMMA NoLoopBefore ==
  ASSUME AhbInv, phase # "finishing"
  PROVE  loop = NoLoop
BY DEF AhbInv, ListInv

(* The renderer: each step that succeeds adds to what is held, one that    *)
(* fails releases all of it.                                               *)
LEMMA RendererKeeps ==
  ASSUME IInv, Start \/ Succeeds \/ Fails
  PROVE  IInv'
<1>1. AhbInv'
  <2>1. phase # "finishing" /\ UNCHANGED ahbVars
    BY DEF Start, Succeeds, Fails
  <2> QED BY <2>1, NoLoopBefore, AhbUnchanged DEF IInv
<1>2. RunTypeOK /\ RunInv /\ allocator' = allocator
  BY DEF IInv, Start, Succeeds, Fails, ahbVars
<1>3. CASE Start
  <2>1. RunTypeOK'
    BY <1>2, <1>3 DEF Start, RunTypeOK
  <2>2. RunInv'
    BY <1>2, <1>3, StepsAddUp DEF Start, RunInv, FallbackIsClean
  <2> QED BY <1>1, <2>1, <2>2 DEF IInv
<1>4. CASE Succeeds /\ step < Len(Steps)
  <2>1. /\ phase = "egl" /\ phase' = phase /\ step' = step + 1
        /\ egl' = egl \cup Acquired[Steps[step]]
        /\ android_renderer' = android_renderer
        /\ android_allocator' = android_allocator
        /\ commit_link' = commit_link /\ hadOutput' = hadOutput
    BY <1>4 DEF Succeeds
  <2>2. step \in 1 .. 7 /\ step' \in 1 .. Len(Steps)
    BY <1>2, <1>4, <2>1, StepsAddUp DEF RunTypeOK
  <2>3. egl' = Released[Steps[step']]
    BY <1>2, <2>1, <2>2, StepsAddUp DEF RunInv
  <2>4. egl' \subseteq {"display", "context", "wlr_egl", "renderer"}
    <3>1. \A n \in 1 .. 8 : n \in {1, 2, 3, 4, 5, 6, 7, 8}
      OBVIOUS
    <3>2. Acquired[Steps[step]] \subseteq {"display", "context", "wlr_egl", "renderer"}
      BY <2>2, <3>1 DEF Acquired, Steps
    <3> QED BY <1>2, <2>1, <3>2 DEF RunTypeOK
  <2>5. RunTypeOK'
    BY <1>2, <2>1, <2>2, <2>4 DEF RunTypeOK
  <2>6. RunInv'
    BY <1>2, <2>1, <2>3 DEF RunInv, FallbackIsClean
  <2> QED BY <1>1, <2>5, <2>6 DEF IInv
<1>5. CASE Succeeds /\ ~(step < Len(Steps))
  <2>1. /\ phase = "egl" /\ phase' = "gpu" /\ step' = 1
        /\ egl' = egl \cup Acquired[Steps[step]]
        /\ android_renderer' = "gles2"
        /\ android_allocator' = android_allocator
        /\ commit_link' = commit_link /\ hadOutput' = hadOutput
    BY <1>5 DEF Succeeds
  <2>2. step = 8
    BY <1>2, <1>5, StepsAddUp DEF RunTypeOK
  <2>3. egl' = Everything
    BY <1>2, <2>1, <2>2, StepsAddUp DEF RunInv
  <2>4. RunTypeOK'
    <3>1. Acquired[Steps[8]] \subseteq {"display", "context", "wlr_egl", "renderer"}
      BY DEF Acquired, Steps
    <3>2. step' \in 1 .. Len(Steps)
      BY <2>1, StepsAddUp
    <3> QED BY <1>2, <2>1, <2>2, <3>1, <3>2 DEF RunTypeOK
  <2>5. RunInv'
    BY <1>2, <2>1, <2>3 DEF RunInv, FallbackIsClean
  <2> QED BY <1>1, <2>4, <2>5 DEF IInv
<1>6. CASE Fails
  <2>1. /\ phase = "egl" /\ phase' = "fallback" /\ step' = 1
        /\ egl' = egl \ Released[Steps[step]] /\ android_renderer' = "NULL"
        /\ android_allocator' = android_allocator
        /\ commit_link' = commit_link /\ hadOutput' = hadOutput
    BY <1>6 DEF Fails
  <2>2. egl' = {}
    BY <1>2, <2>1 DEF RunInv
  <2>3. step' \in 1 .. Len(Steps)
    BY <2>1, StepsAddUp
  <2>4. RunTypeOK'
    BY <1>2, <2>1, <2>2, <2>3 DEF RunTypeOK
  <2>5. RunInv'
    BY <1>2, <2>1, <2>2 DEF RunInv, FallbackIsClean
  <2> QED BY <1>1, <2>4, <2>5 DEF IInv
<1> QED BY <1>3, <1>4, <1>5, <1>6

(* The choice of the pair. *)
LEMMA PairKeeps ==
  ASSUME IInv, AllocatorCreated \/ AllocatorFails \/ Fallback
  PROVE  IInv'
<1>1. RunTypeOK /\ RunInv /\ AhbInv
  BY DEF IInv
<1>2. CASE AllocatorCreated
  <2>1. AhbInv'
    <3>1. wlr_ahb_allocator_create /\ phase # "finishing" /\ phase' # "finishing"
      BY <1>2 DEF AllocatorCreated
    <3>2. loop = NoLoop /\ loop' = loop
      BY <3>1 DEF wlr_ahb_allocator_create, MayRun
    <3> QED BY <1>1, <3>1, <3>2, CreateAllocatorKeeps
  <2>2. RunTypeOK'
    BY <1>1, <1>2 DEF AllocatorCreated, RunTypeOK
  <2>3. RunInv'
    BY <1>1, <1>2 DEF AllocatorCreated, wlr_ahb_allocator_create, RunInv,
      FallbackIsClean
  <2> QED BY <2>1, <2>2, <2>3 DEF IInv
<1>3. CASE AllocatorFails \/ Fallback
  <2>1. phase # "finishing" /\ UNCHANGED ahbVars /\ allocator' = allocator
    BY <1>3 DEF AllocatorFails, Fallback, ahbVars
  <2>2. AhbInv'
    BY <1>1, <2>1, NoLoopBefore, AhbUnchanged
  <2>3. RunTypeOK'
    BY <1>1, <1>3 DEF AllocatorFails, Fallback, RunTypeOK
  <2>4. RunInv'
    BY <1>1, <1>3, <2>1 DEF AllocatorFails, Fallback, RunInv, FallbackIsClean
  <2> QED BY <2>2, <2>3, <2>4 DEF IInv
<1> QED BY <1>2, <1>3

(* The event loop, and what happens to buffers then and later. *)
LEMMA ServingKeeps ==
  ASSUME IInv, Serve \/ UseBuffers \/ DropBuffer
  PROVE  IInv' /\ (DropBuffer /\ crash' # crash
                     => \E b \in outlived : buffer_destroy(b))
               /\ (~DropBuffer => crash' = crash)
<1>1. RunTypeOK /\ RunInv /\ AhbInv
  BY DEF IInv
<1>2. CASE Serve
  <2>1. phase = "ready" /\ phase' = "serving" /\ UNCHANGED ahbVars
        /\ step' = step /\ egl' = egl /\ android_renderer' = android_renderer
        /\ android_allocator' = android_allocator
    BY <1>2 DEF Serve
  <2>2. /\ commit_link' \in {"zero", "added", "self"} /\ hadOutput' \in BOOLEAN
        /\ commit_link' = "zero" => ~hadOutput'
    BY <1>1, <1>2 DEF Serve, RunTypeOK, RunInv
  <2>3. AhbInv'
    BY <1>1, <2>1, NoLoopBefore, AhbUnchanged
  <2>4. RunTypeOK'
    BY <1>1, <2>1, <2>2 DEF RunTypeOK
  <2>5. RunInv'
    BY <1>1, <2>1, <2>2 DEF RunInv, FallbackIsClean
  <2>6. crash' = crash
    BY <2>1 DEF ahbVars
  <2> QED BY <2>3, <2>4, <2>5, <2>6 DEF IInv
<1>3. ASSUME phase \in {"serving", "finishing"}, UNCHANGED runVars
      PROVE  RunTypeOK' /\ RunInv'
  BY <1>1, <1>3 DEF RunTypeOK, RunInv, FallbackIsClean, runVars
<1>4. CASE UseBuffers
  <2>1. phase = "serving" /\ UNCHANGED runVars /\ phase' = phase
    BY <1>4 DEF UseBuffers, runVars
  <2>2. AhbInv'
    BY <1>1, <1>4, <2>1, CreateBufferKeeps, AccessKeeps DEF UseBuffers
  <2>3. crash' = crash
    BY <1>4 DEF UseBuffers, create_buffer, buffer_begin_data_ptr_access,
      buffer_end_data_ptr_access
  <2> QED BY <1>3, <2>1, <2>2, <2>3 DEF IInv
<1>5. CASE DropBuffer
  <2>1. phase \in {"serving", "finishing"} /\ UNCHANGED runVars /\ phase' = phase
    BY <1>5 DEF DropBuffer, runVars
  <2>2. PICK b \in Buffers : buffer_destroy(b)
    BY <1>5 DEF DropBuffer
  <2>3. AhbInv' /\ (crash' # crash => b \in outlived)
    BY <1>1, <2>1, <2>2, DestroyBufferKeeps
  <2> QED BY <1>3, <1>5, <2>1, <2>2, <2>3 DEF IInv
<1> QED BY <1>2, <1>4, <1>5

(* The end of a run. *)
LEMMA EndKeeps ==
  ASSUME IInv, RemoveListener \/ FinishAllocator \/ Finish
  PROVE  IInv' /\ (RemoveListener /\ crash' # crash => ~hadOutput)
               /\ (~RemoveListener => crash' = crash)
<1>1. RunTypeOK /\ RunInv /\ AhbInv
  BY DEF IInv
<1>2. CASE RemoveListener
  <2>1. /\ phase = "serving" /\ phase' \in {"serving", "finishing"}
        /\ loop = NoLoop
        /\ step' = step /\ egl' = egl /\ android_renderer' = android_renderer
        /\ android_allocator' = android_allocator /\ hadOutput' = hadOutput
        /\ commit_link' \in {commit_link, "self"}
        /\ crash' \in {"no", "list", "listener"}
        /\ commit_link # "zero" => crash' = crash
        /\ allocator' = allocator /\ next' = next /\ prev' = prev
        /\ buffers' = buffers /\ ahb' = ahb /\ asked' = asked
        /\ format' = format /\ refs' = refs /\ locks' = locks
        /\ mapped' = mapped /\ loop' = loop /\ outlived' = outlived
    BY <1>1, <1>2 DEF RemoveListener, MayRun, links, handles, access
  <2>2. AhbTypeOK' /\ HandlesBalanced'
    BY <1>1, <2>1 DEF AhbInv, AhbTypeOK, HandlesBalanced
  <2>3. Listed' = Listed
    BY <2>1 DEF Listed
  <2>4. ListInv'
    BY <1>1, <2>1, <2>3 DEF AhbInv, ListInv
  <2>5. RunTypeOK'
    BY <1>1, <2>1 DEF RunTypeOK
  <2>6. RunInv'
    BY <1>1, <2>1 DEF RunInv, FallbackIsClean
  <2>7. crash' # crash => ~hadOutput
    BY <1>1, <2>1 DEF RunInv
  <2> QED BY <1>2, <2>2, <2>4, <2>5, <2>6, <2>7 DEF IInv, AhbInv
<1>3. CASE FinishAllocator
  <2>1. phase = "finishing" /\ allocator_destroy /\ UNCHANGED runVars
    BY <1>3 DEF FinishAllocator
  <2>2. phase' = phase /\ RunTypeOK' /\ RunInv'
    BY <1>1, <2>1 DEF RunTypeOK, RunInv, FallbackIsClean, runVars
  <2>3. AhbInv' /\ crash' = crash
    BY <1>1, <2>1, <2>2, DestroyAllocatorKeeps
  <2>4. ~RemoveListener
    BY <2>1, <2>2 DEF RemoveListener
  <2> QED BY <2>2, <2>3, <2>4 DEF IInv
<1>4. CASE Finish
  <2>1. phase = "finishing" /\ loop = NoLoop /\ UNCHANGED ahbVars
    BY <1>4 DEF Finish, MayRun
  <2>2. AhbInv'
    BY <1>1, <2>1, AhbUnchanged
  <2>3. RunTypeOK' /\ RunInv'
    BY <1>1, <1>4, <2>1 DEF Finish, RunTypeOK, RunInv, FallbackIsClean, ahbVars
  <2>4. crash' = crash /\ ~RemoveListener
    BY <2>1 DEF ahbVars, RemoveListener
  <2> QED BY <2>2, <2>3, <2>4 DEF IInv
<1> QED BY <1>2, <1>3, <1>4

LEMMA NextKeeps == IInv /\ [Next]_vars => IInv'
<1> SUFFICES ASSUME IInv, [Next]_vars PROVE IInv'
  OBVIOUS
<1>1. CASE Next
  BY <1>1, RendererKeeps, PairKeeps, ServingKeeps, EndKeeps DEF Next
<1>2. CASE UNCHANGED vars
  <2>1. UNCHANGED ahbVars /\ UNCHANGED runVars
    BY <1>2 DEF vars
  <2>2. AhbInv'
    BY <2>1, AhbUnchanged DEF IInv, runVars
  <2>3. RunTypeOK' /\ RunInv'
    BY <2>1 DEF IInv, RunTypeOK, RunInv, FallbackIsClean, ahbVars, runVars
  <2> QED BY <2>2, <2>3 DEF IInv
<1> QED BY <1>1, <1>2

-----------------------------------------------------------------------------
(* The inductive invariant, which the theorems below rest on. *)
THEOREM Inductive == Spec => []IInv
BY InitEstablishes, NextKeeps, PTL DEF Spec

(* TypeOK: reference counts and locks stay 0 or 1, the loop over the list  *)
(* of allocator_destroy() stays among the nodes, with any number of        *)
(* buffers and of runs.                                                    *)
THEOREM TypeCorrect == Spec => []TypeOK
<1>1. IInv => TypeOK
  BY DEF IInv, AhbInv, RunTypeOK, TypeOK
<1> QED BY <1>1, Inductive, PTL

(* The list of an allocator holds its buffers and nothing else, linked     *)
(* both ways, at every iteration of allocator_destroy() too.               *)
THEOREM ListIsWhole == Spec => []ListHoldsBuffers
<1>1. IInv => ListHoldsBuffers
  BY DEF IInv, AhbInv, ListInv, Circle, ListHoldsBuffers, Closed
<1> QED BY <1>1, Inductive, PTL

(* buffer_destroy() and allocator_destroy() release every AHardwareBuffer  *)
(* once, whichever comes first.                                            *)
THEOREM HandlesAreBalanced == Spec => []HandlesBalanced
<1>1. IInv => HandlesBalanced
  BY DEF IInv, AhbInv
<1> QED BY <1>1, Inductive, PTL

(* Whichever step of the renderer or the allocator fails, the hooks labwc  *)
(* reads hold a pair, or no renderer and nothing is left of the attempt.   *)
THEOREM FallbackClean == Spec => []FallbackIsClean
<1>1. IInv => FallbackIsClean
  BY DEF IInv, RunInv
<1> QED BY <1>1, Inductive, PTL

(* Line 99 of ahb_allocator.c and line 722 of jni_bridge.c are the only     *)
(* ones that can meet a NULL link, in the two cases CrashOnlyWhen names.   *)
THEOREM CrashCases == Spec => CrashOnlyWhen
<1>1. IInv /\ [Next]_vars
        => [crash' # crash => \/ \E b \in outlived : buffer_destroy(b)
                              \/ RemoveListener /\ ~hadOutput]_vars
  <2> SUFFICES ASSUME IInv, Next, crash' # crash
               PROVE  \/ \E b \in outlived : buffer_destroy(b)
                      \/ RemoveListener /\ ~hadOutput
    BY DEF vars
  <2>1. CASE Start \/ Succeeds \/ Fails \/ AllocatorFails \/ Fallback
    BY <2>1 DEF Start, Succeeds, Fails, AllocatorFails, Fallback, ahbVars
  <2>2. CASE AllocatorCreated
    BY <2>2 DEF AllocatorCreated, wlr_ahb_allocator_create
  <2>3. CASE Serve \/ UseBuffers \/ DropBuffer
    BY <2>3, ServingKeeps
  <2>4. CASE RemoveListener \/ FinishAllocator \/ Finish
    BY <2>4, EndKeeps
  <2> QED BY <2>1, <2>2, <2>3, <2>4 DEF Next
<1> QED BY <1>1, Inductive, PTL DEF Spec, CrashOnlyWhen

-----------------------------------------------------------------------------
(* While a buffer has an AHardwareBuffer, it remembers what wlroots asked  *)
(* for, and has the format that was chosen for it.                         *)
FormatInv ==
  \A b \in buffers : ahb[b] =>
    asked[b] \in Formats /\ format[b] = AllocatedAs(asked[b])

LEMMA ForgetKeeps ==
  ASSUME AhbTypeOK, FormatInv, NEW b \in Buffers, Forget(b), buffers' \subseteq buffers
  PROVE  FormatInv'
BY DEF AhbTypeOK, FormatInv, Forget

LEMMA FormatKeeps == AhbTypeOK /\ FormatInv /\ [Next]_vars => FormatInv'
<1> SUFFICES ASSUME AhbTypeOK, FormatInv, [Next]_vars PROVE FormatInv'
  OBVIOUS
<1>1. CASE UNCHANGED <<buffers, handles>>
  BY <1>1 DEF handles, FormatInv
<1>2. ASSUME NEW b \in Buffers, NEW f \in Formats, create_buffer(b, f)
      PROVE  FormatInv'
  BY <1>2 DEF create_buffer, AhbTypeOK, FormatInv
<1>3. ASSUME NEW b \in Buffers, buffer_destroy(b) PROVE FormatInv'
  BY <1>3, ForgetKeeps DEF buffer_destroy, Release
<1>4. CASE DestroyNext
  BY <1>4, ForgetKeeps DEF DestroyNext, Release
<1>5. CASE UseBuffers \/ DropBuffer \/ FinishAllocator
  BY <1>1, <1>2, <1>3, <1>4, <1>5
  DEF UseBuffers, DropBuffer, FinishAllocator, allocator_destroy, DestroyBegin, DestroyEnd,
      buffer_begin_data_ptr_access, buffer_end_data_ptr_access
<1> QED BY <1>1, <1>5
        DEF Next, vars, ahbVars, Start, Succeeds, Fails, AllocatorCreated,
            wlr_ahb_allocator_create, AllocatorFails, Fallback, Serve, RemoveListener,
            Finish

(* The tables of buffer_format_utils.c: the way back from the format that  *)
(* is allocated leads to the same one, and to alpha if it was asked for.   *)
LEMMA ReportedAlike ==
  ASSUME NEW f
  PROVE  /\ drm_to_android_format(android_to_drm_format(AllocatedAs(f))) = AllocatedAs(f)
         /\ HasAlpha(android_to_drm_format(AllocatedAs(f)))
              <=> f \in DrmFormats /\ HasAlpha(f)
<1> USE DEF drm_to_android_format, android_to_drm_format, AllocatedAs, HasAlpha,
            AndroidFormats, DrmFormats, Unknown
<1>1. /\ DOMAIN AndroidOf = {"ABGR8888", "XBGR8888", "ARGB8888", "XRGB8888", "BGR888",
                             "RGB565", "ABGR16161616F", "ABGR2101010"}
      /\ DOMAIN DrmOf = {"R8G8B8A8_UNORM", "R8G8B8X8_UNORM", "R8G8B8_UNORM",
                         "R5G6B5_UNORM", "R16G16B16A16_FLOAT", "R10G10B10A2_UNORM"}
  BY DEF AndroidOf, DrmOf
<1>2. CASE f \in {"ABGR8888", "ARGB8888"}
  BY <1>1, <1>2 DEF AndroidOf, DrmOf
<1>3. CASE f \in {"XBGR8888", "XRGB8888"}
  BY <1>1, <1>3 DEF AndroidOf, DrmOf
<1>4. CASE f \in {"BGR888", "RGB565"}
  BY <1>1, <1>4 DEF AndroidOf, DrmOf
<1>5. CASE f \in {"ABGR16161616F", "ABGR2101010"}
  BY <1>1, <1>5 DEF AndroidOf, DrmOf
<1>6. CASE f \notin DOMAIN AndroidOf
  BY <1>1, <1>6 DEF AndroidOf, DrmOf
<1> QED BY <1>1, <1>2, <1>3, <1>4, <1>5, <1>6

(* What a buffer reports of its format agrees with what was allocated and  *)
(* asked for, whichever formats wlroots asks for, those without a          *)
(* counterpart among them.                                                 *)
THEOREM FormatsAgree == Spec => []FormatAgrees
<1>1. Init => FormatInv
  BY DEF Init, AhbInit, FormatInv
<1>2. FormatInv => FormatAgrees
  BY ReportedAlike DEF FormatInv, FormatAgrees
<1>3. IInv => AhbTypeOK
  BY DEF IInv, AhbInv
<1> QED BY <1>1, <1>2, <1>3, FormatKeeps, Inductive, PTL DEF Spec
=============================================================================
