------------------------- MODULE TouchInputProofs -------------------------
(***************************************************************************)
(* Presses and releases of TouchInput when calls and ticks take turns, for *)
(* any capacity of the queue and any number of gestures; the types hold    *)
(* whether they take turns or not.                                         *)
(***************************************************************************)
EXTENDS TouchInput, SequenceTheorems, TLAPS

(* The run's configuration: no call begins within a tick, and no tick      *)
(* within a call.                                                          *)
TakeTurns == ~Overlap

Turns ==
  /\ jpc # "idle" => tpc \in {"stopped", "idle"}
  /\ tpc \in {"load", "store"} => g_deferred_button_countdown > 0
  /\ tpc = "store" => load = g_deferred_button_countdown
  /\ g_deferred_button_countdown >= 0

-----------------------------------------------------------------------------
(* What is known of events that wait in s, the last one to be sent last.   *)

(* Once the events before position i are dispatched, is the button down,   *)
(* if it is b now?                                                         *)
HeldAt(s, b, i) ==
  \/ b = "down" /\ \A m \in 1 .. i - 1 : s[m].type # "release"
  \/ \E k \in 1 .. i - 1 : /\ s[k].type = "press"
                          /\ \A m \in k + 1 .. i - 1 : s[m].type # "release"

Held(s, b) == HeldAt(s, b, Len(s) + 1)

(* Presses find the button up, and releases of gestures since n find it    *)
(* down.                                                                   *)
Alternate(s, b, n) ==
  \A i \in DOMAIN s :
    /\ s[i].type = "press" => ~HeldAt(s, b, i)
    /\ s[i].type = "release" /\ s[i].g >= n => HeldAt(s, b, i)

(* Motion m is where press p belongs. *)
Leads(m, p) == m.type = "motion" /\ m.g = p.g /\ (p.by = "timer" => m.at = 0)

(* Every press comes right behind its motion. *)
Led(s, m) ==
  \A i \in DOMAIN s : s[i].type = "press" =>
    IF i = 1 THEN Leads(m, s[i]) ELSE Leads(s[i - 1], s[i])

(* A deferred press of a gesture since n belongs to gesture h. *)
Hovers(s, h, n) ==
  \A i \in DOMAIN s :
    s[i].type = "press" /\ s[i].by = "timer" /\ s[i].g >= n => s[i].g = h

-----------------------------------------------------------------------------
(* A press is due. *)
Owed ==
  \/ g_deferred_button_countdown > 0
  \/ tpc = "retest"
  \/ tpc = "inject" /\ ttodo[Len(ttodo)].type = "press"

Beginning == jpc \in {"down", "defer", "arm"}
Current == gesture >= since

(* The events of a finger that is lifted, without and with the press.      *)
Lift ==
  /\ Len(jtodo) \in 1 .. 2
  /\ jtodo[Len(jtodo)].type = "release" /\ jtodo[Len(jtodo)].g = gesture
  /\ Len(jtodo) = 2 => jtodo[1].type = "motion" /\ jtodo[1].g = gesture

Flush ==
  /\ Len(jtodo) \in 3 .. 4
  /\ jtodo[Len(jtodo)].type = "release" /\ jtodo[Len(jtodo)].g = gesture
  /\ jtodo[Len(jtodo) - 1].type = "motion" /\ jtodo[Len(jtodo) - 1].g = gesture
  /\ LET p == jtodo[Len(jtodo) - 2]
     IN  /\ p.type = "press" /\ p.g = gesture /\ p.by = "jni"
         /\ Len(jtodo) = 4 => Leads(jtodo[1], p)
         /\ Len(jtodo) = 3 => queue # <<>> /\ Leads(queue[Len(queue)], p)

Single == Len(jtodo) = 1 /\ jtodo[1].type \in {"motion", "other"}

(* What a call has still to queue, and where there is room for it.         *)
CallInv ==
  /\ jpc \in {"idle", "defer", "arm"} => jtodo = <<>>
  /\ jpc = "down" => Single
  /\ jpc \in {"test", "clear"} => Lift /\ Len(jtodo) = 2
  /\ jpc = "send" => Single \/ Lift \/ Flush
  /\ jpc = "arm" => deferred = gesture
  /\ jpc = "clear" => g_deferred_button_countdown > 0
  /\ Beginning => finger
  /\ jpc \in {"test", "clear"} => ~finger
  /\ jpc = "send" /\ ~Single => ~finger

RoomInv ==
  /\ Len(queue) <= Capacity
  /\ jpc \in {"down", "test", "clear"} => Len(queue) + 4 <= Capacity
  /\ jpc = "send" /\ Single => Len(queue) + 4 <= Capacity
  /\ jpc = "send" => Len(queue) + Len(jtodo) <= Capacity
  /\ jpc \in {"defer", "arm"} => Len(queue) + 3 <= Capacity
  /\ Owed /\ tpc \notin {"inject", "drain"} => Len(queue) + 3 <= Capacity
  /\ tpc = "inject" => Len(queue) + Len(ttodo) <= Capacity

(* What a tick has still to queue. *)
TickInv ==
  /\ tpc = "inject" =>
       /\ Len(ttodo) \in 1 .. 2
       /\ \A i \in 1 .. Len(ttodo) - 1 : ttodo[i].type = "motion"
       /\ LET p == ttodo[Len(ttodo)]
          IN  /\ p.g = deferred
              /\ p.type \in {"motion", "press"}
              /\ p.type = "press" =>
                   /\ p.by = "timer"
                   /\ g_deferred_button_countdown = 0
                   /\ Len(ttodo) = 2 => Leads(ttodo[1], p)
                   /\ Len(ttodo) = 1 => queue # <<>> /\ Leads(queue[Len(queue)], p)
              /\ p.type = "motion" =>
                   Len(ttodo) = 1 /\ g_deferred_button_countdown > 0
  /\ tpc # "inject" => ttodo = <<>>

(* Whether the button is down once everything is dispatched. *)
ButtonInv ==
  /\ Alternate(queue, button, since)
  /\ Beginning => ~Held(queue, button) /\ ~Owed
  /\ Owed => /\ ~Held(queue, button)
             /\ deferred = gesture
             /\ finger \/ jpc \in {"test", "clear"}
  /\ ~finger /\ (jpc = "idle" \/ (jpc = "send" /\ Single)) => ~Held(queue, button)
  /\ Current /\ (finger \/ jpc = "test") /\ ~Beginning /\ ~Owed => Held(queue, button)
  /\ jpc = "send" /\ Lift /\ Current => Held(queue, button)
  /\ jpc = "send" /\ Flush => ~Held(queue, button)
  /\ deferred <= gesture

(* Where the pointer is when a press is dispatched, and when the client    *)
(* last saw it.                                                            *)
PlaceInv == Led(queue, pointer)

Soon == 
  \/ tpc \in {"stopped", "idle", "test", "load", "store"} /\ g_deferred_button_countdown \in 1 .. 2
  \/ tpc = "retest" /\ g_deferred_button_countdown \in 0 .. 1
  \/ tpc = "inject" /\ ttodo[Len(ttodo)].type = "press"

HoverInv ==
  /\ Hovers(queue, hovered, since)
  /\ Soon /\ deferred >= since => hovered = deferred
  /\ tpc = "drain" /\ g_deferred_button_countdown > 0 =>
       IF queue = <<>> THEN pointer.g = deferred
       ELSE queue[Len(queue)].type = "motion" /\ queue[Len(queue)].g = deferred

IInv == TypeOK /\ Turns /\ CallInv /\ RoomInv /\ TickInv /\ ButtonInv /\ PlaceInv /\ HoverInv

-----------------------------------------------------------------------------
(* Events that are queued behind others, or dispatched before them. *)

LEMMA Appended ==
  ASSUME NEW s \in Seq(EventType), NEW e \in EventType
  PROVE  /\ Append(s, e) \in Seq(EventType)
         /\ Len(Append(s, e)) = Len(s) + 1 /\ Len(s) \in Nat
         /\ DOMAIN s = 1 .. Len(s) /\ DOMAIN Append(s, e) = 1 .. Len(s) + 1
         /\ \A i \in 1 .. Len(s) : Append(s, e)[i] = s[i]
         /\ Append(s, e)[Len(s) + 1] = e
OBVIOUS

LEMMA Taken ==
  ASSUME NEW s \in Seq(EventType), s # <<>>
  PROVE  /\ Tail(s) \in Seq(EventType) /\ Head(s) \in EventType /\ Head(s) = s[1]
         /\ Len(s) \in Nat \ {0} /\ Len(Tail(s)) = Len(s) - 1
         /\ DOMAIN s = 1 .. Len(s) /\ DOMAIN Tail(s) = 1 .. Len(s) - 1
         /\ \A i \in 1 .. Len(s) - 1 : Tail(s)[i] = s[i + 1]
OBVIOUS

LEMMA HeldBehind ==
  ASSUME NEW s \in Seq(EventType), NEW e \in EventType, NEW b
  PROVE  /\ \A i \in 1 .. Len(s) + 1 : HeldAt(Append(s, e), b, i) <=> HeldAt(s, b, i)
         /\ Held(Append(s, e), b) <=>
              \/ e.type = "press"
              \/ e.type # "release" /\ Held(s, b)
<1> DEFINE t == Append(s, e)
           n == Len(s)
<1>1. /\ n \in Nat /\ Len(t) = n + 1
      /\ \A i \in 1 .. n : t[i] = s[i]
      /\ t[n + 1] = e
  BY Appended
<1> HIDE DEF t, n
<1>2. \A i \in 1 .. n + 1 : HeldAt(t, b, i) <=> HeldAt(s, b, i)
  <2> SUFFICES ASSUME NEW i \in 1 .. n + 1
               PROVE  HeldAt(t, b, i) <=> HeldAt(s, b, i)
    OBVIOUS
  <2>1. \A m \in 1 .. i - 1 : t[m] = s[m]
    BY <1>1
  <2>2. \A k \in 1 .. i - 1 : \A m \in k + 1 .. i - 1 : t[m] = s[m]
    BY <1>1
  <2> QED BY <2>1, <2>2 DEF HeldAt
<1>3. Held(t, b) <=> HeldAt(t, b, n + 2)
  BY <1>1 DEF Held
<1>4. Held(s, b) <=> HeldAt(s, b, n + 1)
  BY DEF Held, n
<1>5. 1 .. (n + 2) - 1 = 1 .. n + 1 /\ 1 .. (n + 1) - 1 = 1 .. n
  BY <1>1
<1>6. ASSUME e.type = "press" PROVE Held(t, b)
  <2>1. /\ n + 1 \in 1 .. (n + 2) - 1 /\ t[n + 1].type = "press"
        /\ \A m \in (n + 1) + 1 .. (n + 2) - 1 : FALSE
    BY <1>1, <1>6
  <2>2. HeldAt(t, b, n + 2)
    BY <2>1 DEF HeldAt
  <2> QED BY <1>3, <1>6, <2>2
<1>7. ASSUME e.type = "release" PROVE ~Held(t, b)
  <2>1. ASSUME HeldAt(t, b, n + 2) PROVE FALSE
    <3>1. n + 1 \in 1 .. (n + 2) - 1 /\ t[n + 1].type = "release"
      BY <1>1, <1>7
    <3>2. PICK k \in 1 .. (n + 2) - 1 : /\ t[k].type = "press"
                                        /\ \A m \in k + 1 .. (n + 2) - 1 : t[m].type # "release"
      BY <2>1, <3>1 DEF HeldAt
    <3>3. k # n + 1
      BY <3>1, <3>2
    <3>4. n + 1 \in k + 1 .. (n + 2) - 1
      BY <1>1, <3>2, <3>3
    <3> QED BY <3>1, <3>2, <3>4
  <2> QED BY <1>3, <1>7, <2>1
<1>8. ASSUME e.type \notin {"press", "release"} PROVE Held(t, b) <=> Held(s, b)
  <2>1. ASSUME HeldAt(t, b, n + 2) PROVE HeldAt(t, b, n + 1)
    <3>1. CASE b = "down" /\ \A m \in 1 .. (n + 2) - 1 : t[m].type # "release"
      BY <1>1, <3>1 DEF HeldAt
    <3>2. ASSUME NEW k \in 1 .. (n + 2) - 1, t[k].type = "press",
                 \A m \in k + 1 .. (n + 2) - 1 : t[m].type # "release"
          PROVE  HeldAt(t, b, n + 1)
      <4>1. k # n + 1
        BY <1>1, <1>8, <3>2
      <4>2. k \in 1 .. (n + 1) - 1 /\ \A m \in k + 1 .. (n + 1) - 1 : t[m].type # "release"
        BY <1>1, <3>2, <4>1
      <4> QED BY <3>2, <4>2 DEF HeldAt
    <3> QED BY <2>1, <3>1, <3>2 DEF HeldAt
  <2>2. ASSUME HeldAt(t, b, n + 1) PROVE HeldAt(t, b, n + 2)
    <3>0. \A m \in 1 .. n + 1 : m # n + 1 => m \in 1 .. n
      BY <1>1
    <3>1. CASE b = "down" /\ \A m \in 1 .. (n + 1) - 1 : t[m].type # "release"
      BY <1>1, <1>5, <1>8, <3>0, <3>1 DEF HeldAt
    <3>2. ASSUME NEW k \in 1 .. (n + 1) - 1, t[k].type = "press",
                 \A m \in k + 1 .. (n + 1) - 1 : t[m].type # "release"
          PROVE  HeldAt(t, b, n + 2)
      <4>1. k \in 1 .. (n + 2) - 1
        BY <1>1
      <4>2. ASSUME NEW m \in k + 1 .. (n + 2) - 1 PROVE t[m].type # "release"
        <5>1. m = n + 1 \/ m \in k + 1 .. (n + 1) - 1
          BY <1>1
        <5> QED BY <1>1, <1>8, <3>2, <5>1
      <4> QED BY <3>2, <4>1, <4>2 DEF HeldAt
    <3> QED BY <2>2, <3>1, <3>2 DEF HeldAt
  <2>3. HeldAt(t, b, n + 1) <=> HeldAt(s, b, n + 1)
    BY <1>1, <1>2
  <2> QED BY <1>3, <1>4, <1>8, <2>1, <2>2, <2>3
<1> QED BY <1>2, <1>6, <1>7, <1>8 DEF t, n

LEMMA HeldAfter ==
  ASSUME NEW s \in Seq(EventType), s # <<>>, NEW b, NEW c,
         c = [press |-> "down", release |-> "up", motion |-> b, other |-> b][Head(s).type]
  PROVE  /\ \A i \in 1 .. Len(s) : HeldAt(Tail(s), c, i) <=> HeldAt(s, b, i + 1)
         /\ Held(Tail(s), c) <=> Held(s, b)
<1> DEFINE t == Tail(s)
           n == Len(s)
           e == s[1]
<1>1. /\ n \in Nat \ {0} /\ Len(t) = n - 1
      /\ \A i \in 1 .. n - 1 : t[i] = s[i + 1]
      /\ e \in EventType /\ e = Head(s)
  BY Taken
<1>2. /\ e.type \in {"press", "release", "motion", "other"}
      /\ e.type = "press" => c = "down"
      /\ e.type = "release" => c = "up"
      /\ e.type \in {"motion", "other"} => c = b
  BY <1>1 DEF EventType
<1>3. Held(t, c) <=> HeldAt(t, c, n)
  BY <1>1 DEF Held
<1> HIDE DEF t, n
<1>4. ASSUME NEW i \in 1 .. n
      PROVE  HeldAt(t, c, i) <=> HeldAt(s, b, i + 1)
  <2>0. /\ i \in Nat \ {0} /\ (i + 1) - 1 = i
        /\ \A m \in 1 .. i - 1 : m + 1 \in 2 .. i /\ t[m] = s[m + 1]
        /\ \A m \in 2 .. i : m - 1 \in 1 .. i - 1 /\ t[m - 1] = s[m]
    BY <1>1
  <2>1. ASSUME HeldAt(t, c, i) PROVE HeldAt(s, b, i + 1)
    <3>1. CASE c = "down" /\ \A m \in 1 .. i - 1 : t[m].type # "release"
      <4>1. \A m \in 2 .. i : s[m].type # "release"
        BY <2>0, <3>1
      <4>2. CASE e.type = "press"
        <5>1. 1 \in 1 .. (i + 1) - 1 /\ \A m \in 1 + 1 .. (i + 1) - 1 : s[m].type # "release"
          BY <2>0, <4>1
        <5> QED BY <4>2, <5>1 DEF HeldAt, e
      <4>3. CASE e.type # "press"
        <5>1. b = "down" /\ e.type # "release"
          BY <1>2, <3>1, <4>3
        <5>2. ASSUME NEW m \in 1 .. (i + 1) - 1 PROVE s[m].type # "release"
          <6>1. m = 1 \/ m \in 2 .. i
            BY <2>0
          <6> QED BY <4>1, <5>1, <6>1 DEF e
        <5> QED BY <5>1, <5>2 DEF HeldAt
      <4> QED BY <4>2, <4>3
    <3>2. ASSUME NEW k \in 1 .. i - 1, t[k].type = "press",
                 \A m \in k + 1 .. i - 1 : t[m].type # "release"
          PROVE  HeldAt(s, b, i + 1)
      <4>1. k + 1 \in 1 .. (i + 1) - 1 /\ s[k + 1].type = "press"
        BY <2>0, <3>2
      <4>2. ASSUME NEW m \in (k + 1) + 1 .. (i + 1) - 1 PROVE s[m].type # "release"
        <5>1. m - 1 \in k + 1 .. i - 1 /\ m \in 2 .. i
          BY <2>0
        <5> QED BY <2>0, <3>2, <5>1
      <4> QED BY <4>1, <4>2 DEF HeldAt
    <3> QED BY <2>1, <3>1, <3>2 DEF HeldAt
  <2>2. ASSUME HeldAt(s, b, i + 1) PROVE HeldAt(t, c, i)
    <3>1. CASE b = "down" /\ \A m \in 1 .. (i + 1) - 1 : s[m].type # "release"
      <4>1. e.type # "release"
        BY <2>0, <3>1 DEF e
      <4>2. c = "down"
        BY <1>2, <3>1, <4>1
      <4>3. \A m \in 1 .. i - 1 : t[m].type # "release"
        BY <2>0, <3>1
      <4> QED BY <4>2, <4>3 DEF HeldAt
    <3>2. ASSUME NEW k \in 1 .. (i + 1) - 1, s[k].type = "press",
                 \A m \in k + 1 .. (i + 1) - 1 : s[m].type # "release"
          PROVE  HeldAt(t, c, i)
      <4>1. CASE k = 1
        <5>1. c = "down"
          BY <1>2, <3>2, <4>1 DEF e
        <5>2. ASSUME NEW m \in 1 .. i - 1 PROVE t[m].type # "release"
          <6>1. m + 1 \in k + 1 .. (i + 1) - 1
            BY <2>0, <4>1
          <6> QED BY <2>0, <3>2, <6>1
        <5> QED BY <5>1, <5>2 DEF HeldAt
      <4>2. CASE k # 1
        <5>1. k \in 2 .. i /\ k - 1 \in 1 .. i - 1 /\ t[k - 1].type = "press"
          BY <2>0, <3>2, <4>2
        <5>2. ASSUME NEW m \in (k - 1) + 1 .. i - 1 PROVE t[m].type # "release"
          <6>1. m \in 1 .. i - 1 /\ m + 1 \in k + 1 .. (i + 1) - 1
            BY <2>0, <5>1
          <6> QED BY <2>0, <3>2, <6>1
        <5> QED BY <5>1, <5>2 DEF HeldAt
      <4> QED BY <4>1, <4>2
    <3> QED BY <2>2, <3>1, <3>2 DEF HeldAt
  <2> QED BY <2>1, <2>2
<1>5. Held(s, b) <=> HeldAt(s, b, n + 1)
  BY DEF Held, n
<1>6. n \in 1 .. n
  BY <1>1
<1> QED BY <1>3, <1>4, <1>5, <1>6 DEF t, n

LEMMA AlternateBehind ==
  ASSUME NEW s \in Seq(EventType), NEW e \in EventType, NEW b, NEW n,
         Alternate(s, b, n),
         e.type = "press" => ~Held(s, b),
         e.type = "release" /\ e.g >= n => Held(s, b)
  PROVE  Alternate(Append(s, e), b, n)
<1> DEFINE t == Append(s, e)
<1>1. /\ Len(s) \in Nat /\ DOMAIN t = 1 .. Len(s) + 1 /\ DOMAIN s = 1 .. Len(s)
      /\ \A i \in 1 .. Len(s) : t[i] = s[i]
      /\ t[Len(s) + 1] = e
  BY Appended
<1>2. \A i \in 1 .. Len(s) + 1 : HeldAt(t, b, i) <=> HeldAt(s, b, i)
  BY HeldBehind
<1> HIDE DEF t
<1>3. ASSUME NEW i \in DOMAIN t
      PROVE  /\ t[i].type = "press" => ~HeldAt(t, b, i)
             /\ t[i].type = "release" /\ t[i].g >= n => HeldAt(t, b, i)
  <2>1. CASE i = Len(s) + 1
    <3>1. (HeldAt(t, b, i) <=> Held(s, b)) /\ t[i] = e
      BY <1>1, <1>2, <2>1 DEF Held
    <3> QED BY <3>1
  <2>2. CASE i # Len(s) + 1
    <3>1. i \in DOMAIN s /\ t[i] = s[i] /\ (HeldAt(t, b, i) <=> HeldAt(s, b, i))
      BY <1>1, <1>2, <2>2
    <3> QED BY <3>1 DEF Alternate
  <2> QED BY <2>1, <2>2
<1> QED BY <1>3 DEF Alternate, t

LEMMA AlternateAfter ==
  ASSUME NEW s \in Seq(EventType), s # <<>>, NEW b, NEW c, NEW n,
         Alternate(s, b, n),
         c = [press |-> "down", release |-> "up", motion |-> b, other |-> b][Head(s).type]
  PROVE  Alternate(Tail(s), c, n)
<1> DEFINE t == Tail(s)
<1>1. /\ Len(s) \in Nat \ {0} /\ DOMAIN t = 1 .. Len(s) - 1 /\ DOMAIN s = 1 .. Len(s)
      /\ \A i \in 1 .. Len(s) - 1 : t[i] = s[i + 1]
  BY Taken
<1>2. \A i \in 1 .. Len(s) : HeldAt(t, c, i) <=> HeldAt(s, b, i + 1)
  BY HeldAfter
<1> HIDE DEF t
<1>3. ASSUME NEW i \in DOMAIN t
      PROVE  /\ t[i].type = "press" => ~HeldAt(t, c, i)
             /\ t[i].type = "release" /\ t[i].g >= n => HeldAt(t, c, i)
  <2>1. i + 1 \in DOMAIN s /\ t[i] = s[i + 1] /\ (HeldAt(t, c, i) <=> HeldAt(s, b, i + 1))
    BY <1>1, <1>2
  <2> QED BY <2>1 DEF Alternate
<1> QED BY <1>3 DEF Alternate, t

LEMMA LedBehind ==
  ASSUME NEW s \in Seq(EventType), NEW e \in EventType, NEW m, Led(s, m),
         e.type = "press" => s # <<>> /\ Leads(s[Len(s)], e)
  PROVE  Led(Append(s, e), m)
<1> DEFINE t == Append(s, e)
<1>1. /\ Len(s) \in Nat /\ DOMAIN t = 1 .. Len(s) + 1 /\ DOMAIN s = 1 .. Len(s)
      /\ \A i \in 1 .. Len(s) : t[i] = s[i]
      /\ t[Len(s) + 1] = e
      /\ s # <<>> => Len(s) # 0
  BY Appended
<1> HIDE DEF t
<1>2. ASSUME NEW i \in DOMAIN t, t[i].type = "press"
      PROVE  IF i = 1 THEN Leads(m, t[i]) ELSE Leads(t[i - 1], t[i])
  <2>1. CASE i = Len(s) + 1
    <3>1. i # 1 /\ t[i] = e /\ i - 1 = Len(s) /\ t[i - 1] = s[Len(s)]
      BY <1>1, <1>2, <2>1
    <3> QED BY <1>2, <3>1
  <2>2. CASE i # Len(s) + 1
    <3>1. i \in DOMAIN s /\ t[i] = s[i] /\ (i # 1 => t[i - 1] = s[i - 1])
      BY <1>1, <2>2
    <3> QED BY <1>2, <3>1 DEF Led
  <2> QED BY <2>1, <2>2
<1> QED BY <1>2 DEF Led, t

LEMMA LedAfter ==
  ASSUME NEW s \in Seq(EventType), s # <<>>, NEW m, Led(s, m)
  PROVE  Led(Tail(s), IF Head(s).type = "motion" THEN Head(s) ELSE m)
<1> DEFINE t == Tail(s)
           h == IF Head(s).type = "motion" THEN Head(s) ELSE m
<1>1. /\ Len(s) \in Nat \ {0} /\ DOMAIN t = 1 .. Len(s) - 1 /\ DOMAIN s = 1 .. Len(s)
      /\ \A i \in 1 .. Len(s) - 1 : t[i] = s[i + 1]
      /\ Head(s) = s[1]
  BY Taken
<1> HIDE DEF t
<1>2. ASSUME NEW i \in DOMAIN t, t[i].type = "press"
      PROVE  IF i = 1 THEN Leads(h, t[i]) ELSE Leads(t[i - 1], t[i])
  <2>1. /\ i + 1 \in DOMAIN s /\ i + 1 # 1 /\ t[i] = s[i + 1] /\ (i + 1) - 1 = i
        /\ i # 1 => t[i - 1] = s[i]
    BY <1>1
  <2>2. Leads(s[i], t[i])
    BY <1>2, <2>1 DEF Led
  <2>3. CASE i = 1
    <3>1. s[1].type = "motion"
      BY <2>2, <2>3 DEF Leads
    <3>2. h = s[1]
      BY <1>1, <3>1
    <3> QED BY <2>2, <2>3, <3>2
  <2>4. CASE i # 1
    BY <2>1, <2>2, <2>4
  <2> QED BY <2>3, <2>4
<1> QED BY <1>2 DEF Led, t

LEMMA HoversBehind ==
  ASSUME NEW s \in Seq(EventType), NEW e \in EventType, NEW h, NEW n, Hovers(s, h, n),
         e.type = "press" /\ e.by = "timer" /\ e.g >= n => e.g = h
  PROVE  Hovers(Append(s, e), h, n)
<1> DEFINE t == Append(s, e)
<1>1. /\ Len(s) \in Nat /\ DOMAIN t = 1 .. Len(s) + 1 /\ DOMAIN s = 1 .. Len(s)
      /\ \A i \in 1 .. Len(s) : t[i] = s[i]
      /\ t[Len(s) + 1] = e
  BY Appended
<1> HIDE DEF t
<1>2. \A i \in DOMAIN t : t[i] = e \/ (i \in DOMAIN s /\ t[i] = s[i])
  BY <1>1
<1> QED BY <1>2 DEF Hovers, t

LEMMA HoversAfter ==
  ASSUME NEW s \in Seq(EventType), s # <<>>, NEW h, NEW n, Hovers(s, h, n)
  PROVE  Hovers(Tail(s), h, n)
<1> DEFINE t == Tail(s)
<1>1. \A i \in DOMAIN t : i + 1 \in DOMAIN s /\ t[i] = s[i + 1]
  BY Taken
<1> HIDE DEF t
<1> QED BY <1>1 DEF Hovers, t

-----------------------------------------------------------------------------
(* The events, and the short sequences of them that a call or a tick makes. *)

LEMMA Events ==
  ASSUME NEW g \in Gestures
  PROVE  /\ \A at \in -1 .. 2 : \A by \in {"jni", "timer"} :
              /\ Motion(g, at, by) \in EventType
              /\ Motion(g, at, by).type = "motion" /\ Motion(g, at, by).g = g
              /\ Motion(g, at, by).at = at
         /\ \A by \in {"jni", "timer"} :
              /\ Press(g, by) \in EventType
              /\ Press(g, by).type = "press" /\ Press(g, by).g = g /\ Press(g, by).by = by
         /\ Release(g) \in EventType
         /\ Release(g).type = "release" /\ Release(g).g = g
         /\ Other \in EventType /\ Other.type = "other"
BY TouchInputAssumption
DEF Motion, Press, Release, Other, Event, EventType, Gestures

LEMMA One ==
  ASSUME NEW e \in EventType
  PROVE  /\ <<e>> \in Seq(EventType) /\ Len(<<e>>) = 1 /\ <<e>>[1] = e
         /\ <<e>> # <<>>
OBVIOUS

LEMMA Two ==
  ASSUME NEW e \in EventType, NEW f \in EventType
  PROVE  /\ <<e, f>> \in Seq(EventType) /\ Len(<<e, f>>) = 2
         /\ <<e, f>>[1] = e /\ <<e, f>>[2] = f
OBVIOUS

LEMMA Nothing ==
  /\ <<>> \in Seq(EventType) /\ Len(<<>>) = 0
  /\ \A b, n : Alternate(<<>>, b, n) /\ Led(<<>>, b) /\ Hovers(<<>>, b, n)
  /\ ~Held(<<>>, "up")
<1>1. <<>> \in Seq(EventType) /\ Len(<<>>) = 0 /\ DOMAIN <<>> = {}
  OBVIOUS
<1> QED BY <1>1 DEF Alternate, Led, Hovers, Held, HeldAt

-----------------------------------------------------------------------------
LEMMA InitEstablishes == Init => IInv
<1> SUFFICES ASSUME Init PROVE IInv
  OBVIOUS
<1> USE TouchInputAssumption, Nothing DEF Init
<1>1. NoMotion \in EventType /\ 0 \in Gestures
  BY DEF NoMotion, Motion, Event, EventType, Gestures
<1>2. TypeOK
  <2>1. /\ queue \in Seq(EventType) /\ Len(queue) <= Capacity
        /\ jtodo \in Seq(EventType) /\ ttodo \in Seq(EventType)
    OBVIOUS
  <2>2. /\ pointer \in EventType /\ since \in 1 .. MaxGestures + 1
        /\ clicked \subseteq Gestures
    BY <1>1
  <2>3. /\ g_deferred_button_countdown \in -1 .. 3 /\ load \in -1 .. 3
        /\ deferred \in Gestures /\ gesture \in Gestures /\ hovered \in Gestures
    BY <1>1
  <2>4. /\ finger \in BOOLEAN /\ button \in {"up", "down"}
        /\ jpc \in {"idle", "down", "defer", "arm", "test", "clear", "send"}
        /\ tpc \in {"stopped", "idle", "test", "load", "store", "retest", "inject", "drain"}
    OBVIOUS
  <2> HIDE DEF Init
  <2> QED BY <2>1, <2>2, <2>3, <2>4 DEF TypeOK
<1>3. Turns /\ CallInv /\ RoomInv /\ TickInv
  BY DEF Turns, CallInv, RoomInv, TickInv, Owed, Beginning
<1>4. ButtonInv
  BY DEF ButtonInv, Owed, Beginning, Current
<1>5. PlaceInv /\ HoverInv
  BY DEF PlaceInv, HoverInv, Soon
<1> QED BY <1>2, <1>3, <1>4, <1>5 DEF IInv

(* The beginning of a call. *)
LEMMA TouchDownKeeps == IInv /\ TakeTurns /\ TouchDown => IInv'
<1> SUFFICES ASSUME IInv, TakeTurns, TouchDown PROVE IInv'
  OBVIOUS
<1> DEFINE e == Motion(gesture + 1, 0, "jni")
<1> USE DEF IInv, TakeTurns, TouchDown, MayCall, deferVars, callVars, tickVars, seatVars
<1>1. gesture + 1 \in Gestures
  BY TouchInputAssumption DEF TypeOK, Gestures
<1>2. e \in EventType /\ e.type = "motion"
  BY <1>1, Events
<1> HIDE DEF e
<1>3. /\ jtodo' = <<e>> /\ jtodo' \in Seq(EventType) /\ Len(jtodo') = 1
      /\ jtodo'[1] = e
  BY <1>2, One DEF e
<1>4. TypeOK'
  BY <1>1, <1>3 DEF TypeOK
<1>5. Turns' /\ TickInv'
  BY DEF Turns, TickInv
<1>6. CallInv'
  BY <1>2, <1>3 DEF CallInv, Beginning, Single
<1>7. ~Owed /\ ~Owed' /\ ~Held(queue, button)
  BY DEF ButtonInv, Owed
<1>8. RoomInv'
  BY <1>7 DEF RoomInv
<1>9. ButtonInv'
  <2>1. deferred' <= gesture'
    BY DEF ButtonInv, TypeOK, Gestures
  <2> QED BY <1>7, <2>1 DEF ButtonInv, Beginning, Current
<1>10. PlaceInv' /\ HoverInv'
  BY DEF PlaceInv, HoverInv, Soon
<1> QED BY <1>4, <1>5, <1>6, <1>8, <1>9, <1>10

LEMMA SingleCallKeeps ==
  IInv /\ TakeTurns /\ (TouchMove \/ SendOther) => IInv'
<1> SUFFICES ASSUME IInv, TakeTurns, TouchMove \/ SendOther PROVE IInv'
  OBVIOUS
<1> USE DEF IInv, TakeTurns, MayCall, deferVars, callVars, tickVars, seatVars
<1>1. PICK e \in EventType : e.type \in {"motion", "other"} /\ jtodo' = <<e>>
  <2>1. gesture \in Gestures
    BY DEF TypeOK
  <2> QED BY <2>1, Events DEF TouchMove, SendOther
<1>2. jtodo' \in Seq(EventType) /\ Len(jtodo') = 1 /\ jtodo'[1] = e
  BY <1>1, One
<1>3. /\ jpc = "idle" /\ jpc' = "send" /\ tpc \in {"stopped", "idle"}
      /\ Len(queue) + 4 <= Capacity
      /\ UNCHANGED <<queue, deferVars, finger, gesture, tickVars, seatVars>>
  BY DEF TouchMove, SendOther
<1>4. TypeOK'
  BY <1>2, <1>3 DEF TypeOK
<1>5. Turns' /\ TickInv'
  BY <1>3 DEF Turns, TickInv
<1>6. CallInv' /\ Single' /\ ~Lift' /\ ~Flush'
  BY <1>1, <1>2, <1>3 DEF CallInv, Beginning, Single, Lift, Flush
<1>7. Owed' <=> Owed
  BY <1>3 DEF Owed
<1>8. RoomInv'
  <2>1. Len(queue) \in Nat /\ Capacity \in Nat
    BY TouchInputAssumption DEF TypeOK
  <2>2. Len(queue') <= Capacity /\ Len(queue') + 4 <= Capacity /\ Len(queue') + Len(jtodo') <= Capacity
    BY <1>2, <1>3, <2>1
  <2>3. Len(queue') + 3 <= Capacity
    BY <1>3, <2>1
  <2> QED BY <1>3, <2>2, <2>3 DEF RoomInv
<1>9. ButtonInv'
  BY <1>3, <1>6, <1>7 DEF ButtonInv, Beginning, Current
<1>10. PlaceInv' /\ HoverInv'
  BY <1>3 DEF PlaceInv, HoverInv, Soon
<1> QED BY <1>4, <1>5, <1>6, <1>8, <1>9, <1>10

LEMMA TouchUpKeeps == IInv /\ TakeTurns /\ TouchUp => IInv'
<1> SUFFICES ASSUME IInv, TakeTurns, TouchUp PROVE IInv'
  OBVIOUS
<1> USE DEF IInv, TakeTurns, TouchUp, MayCall, deferVars, callVars, tickVars, seatVars
<1>1. PICK at \in {0, 2} : jtodo' = <<Motion(gesture, at, "jni"), Release(gesture)>>
  OBVIOUS
<1> DEFINE m == Motion(gesture, at, "jni")
           r == Release(gesture)
<1>2. m \in EventType /\ m.type = "motion" /\ m.g = gesture /\ r \in EventType /\ r.type = "release" /\ r.g = gesture
  BY Events DEF TypeOK
<1> HIDE DEF m, r
<1>3. jtodo' \in Seq(EventType) /\ Len(jtodo') = 2 /\ jtodo'[1] = m /\ jtodo'[2] = r
  BY <1>1, <1>2, Two DEF m, r
<1>4. /\ jpc = "idle" /\ jpc' = "test" /\ tpc \in {"stopped", "idle"}
      /\ Len(queue) + 4 <= Capacity /\ finger /\ ~finger'
      /\ UNCHANGED <<queue, deferVars, gesture, tickVars, seatVars>>
  OBVIOUS
<1>5. TypeOK'
  BY <1>3, <1>4 DEF TypeOK
<1>6. Turns' /\ TickInv'
  BY <1>4 DEF Turns, TickInv
<1>7. CallInv'
  BY <1>2, <1>3, <1>4 DEF CallInv, Beginning, Lift
<1>8. Owed' <=> Owed
  BY <1>4 DEF Owed
<1>9. RoomInv'
  BY <1>4, <1>8 DEF RoomInv, TypeOK
<1>10. ButtonInv'
  BY <1>4, <1>8 DEF ButtonInv, Beginning, Current
<1>11. PlaceInv' /\ HoverInv'
  BY <1>4 DEF PlaceInv, HoverInv, Soon
<1> QED BY <1>5, <1>6, <1>7, <1>9, <1>10, <1>11

(* The steps of a call before it queues anything. *)
LEMMA DeferKeeps == IInv /\ Defer => IInv'
<1> SUFFICES ASSUME IInv, Defer PROVE IInv'
  OBVIOUS
<1> USE DEF IInv, Defer, tickVars, seatVars
<1>1. TypeOK'
  BY DEF TypeOK
<1>2. ~Owed /\ g_deferred_button_countdown = 0
  BY DEF ButtonInv, Beginning, Owed, Turns, TypeOK
<1>3. Turns' /\ TickInv'
  BY DEF Turns, TickInv
<1>4. CallInv'
  BY DEF CallInv, Beginning
<1>5. ~Owed'
  BY <1>2 DEF Owed, Turns
<1>6. RoomInv'
  BY <1>5 DEF RoomInv, Single
<1>7. ButtonInv'
  BY <1>5 DEF ButtonInv, Beginning, Current, TypeOK, Gestures
<1>8. PlaceInv' /\ HoverInv'
  BY <1>2 DEF PlaceInv, HoverInv, Soon, Turns
<1> QED BY <1>1, <1>3, <1>4, <1>6, <1>7, <1>8

LEMMA ArmKeeps == IInv /\ Arm => IInv'
<1> SUFFICES ASSUME IInv, Arm PROVE IInv'
  OBVIOUS
<1> USE DEF IInv, Arm, tickVars, seatVars
<1>1. TypeOK'
  BY DEF TypeOK
<1>2. Turns' /\ TickInv'
  BY DEF Turns, TickInv
<1>3. CallInv'
  BY DEF CallInv, Beginning
<1>4. Owed' /\ deferred = gesture /\ finger /\ ~Held(queue, button)
  BY DEF Owed, CallInv, ButtonInv, Beginning
<1>5. RoomInv'
  BY <1>4 DEF RoomInv, Single, Turns
<1>6. ButtonInv'
  BY <1>4 DEF ButtonInv, Beginning, Current
<1>7. PlaceInv' /\ HoverInv'
  BY DEF PlaceInv, HoverInv, Soon, Turns
<1> QED BY <1>1, <1>2, <1>3, <1>5, <1>6, <1>7

LEMMA UpTestKeeps == IInv /\ UpTest => IInv'
<1> SUFFICES ASSUME IInv, UpTest PROVE IInv'
  OBVIOUS
<1> USE DEF IInv, UpTest, deferVars, tickVars, seatVars
<1>1. TypeOK'
  BY DEF TypeOK
<1>2. Turns' /\ TickInv'
  BY DEF Turns, TickInv
<1>3. Lift /\ Len(jtodo) = 2 /\ ~finger /\ ~Single /\ ~Flush
  <2>1. Lift /\ Len(jtodo) = 2 /\ ~finger
    BY DEF CallInv
  <2> QED BY <2>1 DEF Single, Flush
<1>4. Lift' /\ ~Single' /\ ~Flush'
  BY <1>3 DEF Lift, Single, Flush
<1>5. CallInv'
  BY <1>3, <1>4 DEF CallInv, Beginning
<1>6. /\ Owed <=> g_deferred_button_countdown > 0
      /\ Owed' <=> g_deferred_button_countdown > 0
  BY DEF Owed, Turns
<1>7. RoomInv'
  <2>1. Len(queue) \in Nat /\ Capacity \in Nat /\ Len(queue) + 4 <= Capacity
    BY TouchInputAssumption DEF TypeOK, RoomInv
  <2>2. Len(queue) + 3 <= Capacity /\ Len(queue) + 2 <= Capacity /\ Len(queue) <= Capacity
    BY <2>1
  <2> QED BY <1>3, <1>4, <2>1, <2>2 DEF RoomInv, Turns
<1>8. ButtonInv'
  BY <1>3, <1>4, <1>6 DEF ButtonInv, Beginning, Current
<1>9. PlaceInv' /\ HoverInv'
  BY DEF PlaceInv, HoverInv, Soon
<1> QED BY <1>1, <1>2, <1>5, <1>7, <1>8, <1>9

LEMMA UpClearKeeps == IInv /\ UpClear => IInv'
<1> SUFFICES ASSUME IInv, UpClear PROVE IInv'
  OBVIOUS
<1> DEFINE m == jtodo[1]
           p == Press(deferred, "jni")
<1> USE DEF IInv, UpClear, tickVars, seatVars
<1>1. Lift /\ Len(jtodo) = 2 /\ ~finger /\ g_deferred_button_countdown > 0
  BY DEF CallInv
<1>2. Owed /\ deferred = gesture /\ ~Held(queue, button)
  BY <1>1 DEF Owed, ButtonInv
<1>3. /\ m \in EventType /\ jtodo[2] \in EventType /\ Head(jtodo) = m
      /\ m.type = "motion" /\ m.g = gesture
      /\ jtodo[2].type = "release" /\ jtodo[2].g = gesture
  <2>1. jtodo \in Seq(EventType)
    BY DEF TypeOK
  <2>2. m \in EventType /\ jtodo[2] \in EventType /\ Head(jtodo) = m
    BY <1>1, <2>1
  <2> QED BY <1>1, <2>2 DEF Lift
<1>4. p \in EventType /\ p.type = "press" /\ p.g = gesture /\ p.by = "jni"
  BY <1>2, Events DEF TypeOK
<1> HIDE DEF m, p
<1>5. /\ jtodo' \in Seq(EventType) /\ Len(jtodo') = 4
      /\ jtodo'[1] = m /\ jtodo'[2] = p /\ jtodo'[3] = m /\ jtodo'[4] = jtodo[2]
  <2>1. jtodo' = <<m, p>> \o jtodo
    BY <1>3 DEF p
  <2>2. jtodo \in Seq(EventType) /\ jtodo[1] = m
    BY DEF TypeOK, m
  <2>3. <<m, p>> \in Seq(EventType) /\ Len(<<m, p>>) = 2 /\ <<m, p>>[1] = m /\ <<m, p>>[2] = p
    BY <1>3, <1>4, Two
  <2> DEFINE t == <<m, p>>
  <2> HIDE DEF t
  <2>4. /\ t \o jtodo \in Seq(EventType) /\ Len(t \o jtodo) = 4
        /\ (t \o jtodo)[1] = t[1] /\ (t \o jtodo)[2] = t[2]
        /\ (t \o jtodo)[3] = jtodo[1] /\ (t \o jtodo)[4] = jtodo[2]
    <3>1. t \in Seq(EventType) /\ Len(t) = 2
      BY <2>3 DEF t
    <3>2. /\ t \o jtodo \in Seq(EventType) /\ Len(t \o jtodo) = Len(t) + Len(jtodo)
          /\ \A i \in 1 .. Len(t) + Len(jtodo) :
               (t \o jtodo)[i] = IF i <= Len(t) THEN t[i] ELSE jtodo[i - Len(t)]
      BY <2>2, <3>1, ConcatProperties
    <3> QED BY <1>1, <3>1, <3>2
  <2> QED BY <2>1, <2>2, <2>3, <2>4 DEF t
<1>6. /\ jpc = "clear" /\ jpc' = "send" /\ g_deferred_button_countdown' = 0
      /\ UNCHANGED <<queue, deferred, finger, gesture, tickVars, seatVars>>
  OBVIOUS
<1>7. TypeOK'
  BY <1>5, <1>6 DEF TypeOK
<1>8. Turns' /\ TickInv'
  BY <1>6 DEF Turns, TickInv
<1>9. ~Single' /\ ~Lift'
  BY <1>5 DEF Single, Lift
<1>10. Flush'
  <2>1. Leads(m, p)
    BY <1>3, <1>4 DEF Leads
  <2> QED BY <1>3, <1>4, <1>5, <1>6, <2>1 DEF Flush
<1>11. CallInv'
  BY <1>1, <1>6, <1>9, <1>10 DEF CallInv, Beginning
<1>12. ~Owed'
  BY <1>6 DEF Owed, Turns
<1>13. RoomInv'
  BY <1>5, <1>6, <1>9, <1>12 DEF RoomInv, TypeOK, Turns
<1>14. ButtonInv'
  BY <1>1, <1>2, <1>6, <1>9, <1>12 DEF ButtonInv, Beginning, Current
<1>15. PlaceInv' /\ HoverInv'
  BY <1>6 DEF PlaceInv, HoverInv, Soon, Turns
<1> QED BY <1>7, <1>8, <1>11, <1>13, <1>14, <1>15

(* Queueing the next event of a call.  There is room for it. *)
LEMMA JniQueueKeeps == IInv /\ JniQueue => IInv'
<1> SUFFICES ASSUME IInv, JniQueue PROVE IInv'
  OBVIOUS
<1> DEFINE e == jtodo[1]
<1> USE DEF IInv, deferVars, tickVars, seatVars
<1>1. /\ jpc \in {"down", "send"} /\ tpc \in {"stopped", "idle"}
      /\ UNCHANGED <<deferVars, finger, gesture, tickVars, seatVars>>
      /\ jtodo' = Tail(jtodo)
      /\ jpc' = IF Len(jtodo) > 1 THEN jpc ELSE [down |-> "defer", send |-> "idle"][jpc]
  BY DEF JniQueue, Turns
<1>2. /\ Single \/ Lift \/ Flush
      /\ jpc = "down" => Single
      /\ jpc = "send" /\ ~Single => ~finger
  BY <1>1 DEF CallInv
<1>3. jtodo \in Seq(EventType) /\ Len(jtodo) \in 1 .. 4 /\ jtodo # <<>>
  <2>1. jtodo \in Seq(EventType)
    BY DEF TypeOK
  <2>2. Len(jtodo) \in 1 .. 4
    BY <1>2 DEF Single, Lift, Flush
  <2> QED BY <2>1, <2>2
<1>4. /\ jtodo' \in Seq(EventType) /\ e \in EventType /\ Head(jtodo) = e
      /\ Len(jtodo') = Len(jtodo) - 1
      /\ \A i \in 1 .. Len(jtodo) - 1 : jtodo'[i] = jtodo[i + 1]
  BY <1>1, <1>3, Taken
<1>5. Len(queue) \in Nat /\ Capacity \in Nat /\ queue \in Seq(EventType)
  BY TouchInputAssumption DEF TypeOK
<1>6. /\ Single => Len(queue) + 4 <= Capacity
      /\ Len(queue) + Len(jtodo) <= Capacity
  <2>1. CASE jpc = "down"
    <3>1. Single /\ Len(jtodo) = 1 /\ Len(queue) + 4 <= Capacity
      BY <1>2, <2>1 DEF RoomInv, Single
    <3> QED BY <1>5, <3>1
  <2>2. CASE jpc = "send"
    BY <2>2 DEF RoomInv
  <2> QED BY <1>1, <2>1, <2>2
<1>7. queue' = Append(queue, e)
  <2>1. Len(queue) < Capacity
    BY <1>3, <1>5, <1>6
  <2> QED BY <1>4, <2>1 DEF JniQueue, Enqueue
<1> HIDE DEF e
<1>8. /\ queue' \in Seq(EventType) /\ Len(queue') = Len(queue) + 1
      /\ queue'[Len(queue')] = e /\ queue' # <<>>
  BY <1>4, <1>5, <1>7, Appended
<1>9. Held(queue', button) <=> e.type = "press" \/ (e.type # "release" /\ Held(queue, button))
  BY <1>4, <1>5, <1>7, HeldBehind
<1>10. jpc' \in {"down", "defer", "send", "idle"}
  BY <1>1
<1>11. TypeOK'
  <2>1. Len(queue') <= Capacity
    BY <1>3, <1>5, <1>6, <1>8
  <2> QED BY <1>1, <1>4, <1>8, <1>10, <2>1 DEF TypeOK
<1>12. Turns' /\ TickInv'
  BY <1>1 DEF Turns, TickInv
<1>13. /\ Owed <=> g_deferred_button_countdown > 0
       /\ Owed' <=> Owed
  BY <1>1 DEF Owed
<1>14. ASSUME e.type # "press" \/ e.by = "jni" PROVE HoverInv'
  <2>1. Hovers(queue', hovered, since)
    BY <1>4, <1>5, <1>7, <1>14, HoversBehind DEF HoverInv
  <2> QED BY <1>1, <2>1 DEF HoverInv, Soon
<1>15. ASSUME e.type = "press" => ~Held(queue, button) /\ queue # <<>> /\ Leads(queue[Len(queue)], e),
              e.type = "release" /\ e.g >= since => Held(queue, button)
       PROVE  Alternate(queue', button', since') /\ PlaceInv'
  <2>1. Alternate(queue, button, since) /\ Led(queue, pointer)
    BY DEF ButtonInv, PlaceInv
  <2>2. Alternate(queue', button, since)
    BY <1>4, <1>5, <1>7, <1>15, <2>1, AlternateBehind
  <2>3. Led(queue', pointer)
    BY <1>4, <1>5, <1>7, <1>15, <2>1, LedBehind
  <2> QED BY <1>1, <2>2, <2>3 DEF PlaceInv
<1>16. CASE Single
  <2>1. /\ e.type \in {"motion", "other"} /\ Len(jtodo) = 1
        /\ jpc' = [down |-> "defer", send |-> "idle"][jpc]
        /\ jtodo' = <<>>
    BY <1>1, <1>3, <1>16 DEF Single, e
  <2>2. /\ jpc = "down" => jpc' = "defer"
        /\ jpc = "send" => jpc' = "idle"
    BY <2>1
  <2>3. CallInv'
    BY <1>1, <2>1, <2>2 DEF CallInv, Beginning
  <2>4. RoomInv'
    <3>1. Len(queue') <= Capacity /\ Len(queue') + 3 <= Capacity
      BY <1>5, <1>6, <1>8, <1>16
    <3> QED BY <1>1, <2>2, <3>1 DEF RoomInv
  <2>5. Alternate(queue', button', since') /\ PlaceInv' /\ HoverInv'
    BY <1>14, <1>15, <2>1
  <2>6. Held(queue', button') <=> Held(queue, button)
    BY <1>1, <1>9, <2>1
  <2>7. ButtonInv'
    BY <1>1, <1>13, <1>16, <2>2, <2>5, <2>6 DEF ButtonInv, Beginning, Current
  <2> QED BY <1>11, <1>12, <2>3, <2>4, <2>5, <2>7
<1>17. ASSUME jpc = "send", ~Single, Len(jtodo) > 1, ~Single', Lift' \/ Flush'
       PROVE  CallInv' /\ RoomInv'
  <2>1. jpc' = "send" /\ ~finger /\ ~finger'
    BY <1>1, <1>2, <1>17
  <2>2. ~Owed
    BY <1>17, <2>1 DEF ButtonInv
  <2>3. CallInv'
    BY <1>1, <1>17, <2>1 DEF CallInv, Beginning
  <2>4. RoomInv'
    <3>1. Len(queue') <= Capacity /\ Len(queue') + Len(jtodo') <= Capacity
      BY <1>3, <1>4, <1>5, <1>6, <1>8
    <3> QED BY <1>1, <1>13, <1>17, <2>1, <2>2, <3>1 DEF RoomInv
  <2> QED BY <2>3, <2>4
<1>18. CASE jpc = "send" /\ ~Single /\ Lift /\ Len(jtodo) = 2
  <2>1. /\ e.type = "motion" /\ Len(jtodo') = 1
        /\ jtodo'[1].type = "release" /\ jtodo'[1].g = gesture
    BY <1>4, <1>18 DEF Lift, e
  <2>2. ~Single' /\ Lift' /\ ~Flush'
    <3>1. ~Single'
      BY <2>1 DEF Single
    <3>2. Lift'
      <4>1. gesture' = gesture
        BY <1>1
      <4>2. Len(jtodo') \in 1 .. 2 /\ Len(jtodo') # 2
        BY <2>1
      <4> QED BY <2>1, <4>1, <4>2 DEF Lift
    <3>3. ~Flush'
      BY <2>1 DEF Flush
    <3> QED BY <3>1, <3>2, <3>3
  <2>3. CallInv' /\ RoomInv'
    BY <1>17, <1>18, <2>2
  <2>4. Alternate(queue', button', since') /\ PlaceInv' /\ HoverInv'
    BY <1>14, <1>15, <2>1
  <2>5. Held(queue', button') <=> Held(queue, button)
    BY <1>1, <1>9, <2>1
  <2>6. jpc' = "send" /\ ~finger' /\ ~finger
    BY <1>1, <1>2, <1>18
  <2>7. ButtonInv'
    BY <1>1, <1>13, <1>18, <2>2, <2>4, <2>5, <2>6 DEF ButtonInv, Beginning, Current
  <2> QED BY <1>11, <1>12, <2>3, <2>4, <2>7
<1>19. CASE jpc = "send" /\ ~Single /\ Lift /\ Len(jtodo) = 1
  <2>1. e.type = "release" /\ e.g = gesture
    BY <1>19 DEF Lift, e
  <2>2. jpc' = "idle" /\ jtodo' = <<>> /\ ~finger /\ ~finger'
    BY <1>1, <1>2, <1>3, <1>19
  <2>3. ~Owed
    BY <1>19, <2>2 DEF ButtonInv
  <2>4. CallInv'
    BY <1>1, <2>2 DEF CallInv, Beginning
  <2>5. RoomInv'
    <3>1. Len(queue') <= Capacity
      BY <1>5, <1>6, <1>8, <1>19
    <3> QED BY <1>1, <1>13, <2>2, <2>3, <3>1 DEF RoomInv
  <2>6. e.g >= since => Held(queue, button)
    BY <1>19, <2>1 DEF ButtonInv, Current
  <2>7. Alternate(queue', button', since') /\ PlaceInv' /\ HoverInv'
    BY <1>14, <1>15, <2>1, <2>6
  <2>8. ~Held(queue', button')
    BY <1>1, <1>9, <2>1
  <2>9. ButtonInv'
    BY <1>1, <1>13, <2>2, <2>3, <2>7, <2>8 DEF ButtonInv, Beginning, Current
  <2> QED BY <1>11, <1>12, <2>4, <2>5, <2>7, <2>9
<1>20. CASE jpc = "send" /\ ~Single /\ Flush /\ Len(jtodo) = 4
  <2>1. /\ Len(jtodo') = 3 /\ jtodo'[1] = jtodo[2] /\ jtodo'[2] = jtodo[3] /\ jtodo'[3] = jtodo[4]
    BY <1>4, <1>20
  <2>2. /\ jtodo[4].type = "release" /\ jtodo[4].g = gesture
        /\ jtodo[3].type = "motion" /\ jtodo[3].g = gesture
        /\ jtodo[2].type = "press" /\ jtodo[2].g = gesture /\ jtodo[2].by = "jni"
        /\ Leads(e, jtodo[2])
    BY <1>20 DEF Flush, e
  <2>3. e.type = "motion"
    BY <2>2 DEF Leads
  <2>4. Flush'
    <3>1. gesture' = gesture
      BY <1>1
    <3>2. /\ Len(jtodo') \in 3 .. 4
          /\ jtodo'[Len(jtodo')].type = "release" /\ jtodo'[Len(jtodo')].g = gesture
          /\ jtodo'[Len(jtodo') - 1].type = "motion" /\ jtodo'[Len(jtodo') - 1].g = gesture
          /\ jtodo'[Len(jtodo') - 2] = jtodo[2]
      BY <2>1, <2>2
    <3>3. queue' # <<>> /\ Leads(queue'[Len(queue')], jtodo[2])
      BY <1>8, <2>2
    <3>4. Len(jtodo') # 4
      BY <2>1
    <3> QED BY <2>2, <3>1, <3>2, <3>3, <3>4 DEF Flush
  <2>5. ~Single' /\ ~Lift'
    BY <2>1 DEF Single, Lift
  <2>6. CallInv' /\ RoomInv'
    BY <1>17, <1>20, <2>4, <2>5
  <2>7. Alternate(queue', button', since') /\ PlaceInv' /\ HoverInv'
    BY <1>14, <1>15, <2>3
  <2>8. Held(queue', button') <=> Held(queue, button)
    BY <1>1, <1>9, <2>3
  <2>9. jpc' = "send" /\ ~finger' /\ ~finger
    BY <1>1, <1>2, <1>20
  <2>10. ButtonInv'
    BY <1>1, <1>13, <1>20, <2>4, <2>5, <2>7, <2>8, <2>9 DEF ButtonInv, Beginning, Current
  <2> QED BY <1>11, <1>12, <2>6, <2>7, <2>10
<1>21. CASE jpc = "send" /\ ~Single /\ Flush /\ Len(jtodo) = 3
  <2>1. /\ Len(jtodo') = 2 /\ jtodo'[1] = jtodo[2] /\ jtodo'[2] = jtodo[3]
    BY <1>4, <1>21
  <2>2. /\ jtodo[3].type = "release" /\ jtodo[3].g = gesture
        /\ jtodo[2].type = "motion" /\ jtodo[2].g = gesture
        /\ e.type = "press" /\ e.g = gesture /\ e.by = "jni"
        /\ queue # <<>> /\ Leads(queue[Len(queue)], e)
    BY <1>21 DEF Flush, e
  <2>3. Lift' /\ ~Single' /\ ~Flush'
    <3>1. ~Single'
      BY <2>1 DEF Single
    <3>2. Lift'
      BY <1>1, <2>1, <2>2 DEF Lift
    <3>3. ~Flush'
      BY <2>1 DEF Flush
    <3> QED BY <3>1, <3>2, <3>3
  <2>4. CallInv' /\ RoomInv'
    BY <1>17, <1>21, <2>3
  <2>5. ~Held(queue, button)
    BY <1>21 DEF ButtonInv
  <2>6. Alternate(queue', button', since') /\ PlaceInv' /\ HoverInv'
    BY <1>14, <1>15, <2>2, <2>5
  <2>7. Held(queue', button')
    BY <1>1, <1>9, <2>2
  <2>8. jpc' = "send" /\ ~finger' /\ ~finger
    BY <1>1, <1>2, <1>21
  <2>9. ~Owed
    BY <1>21, <2>8 DEF ButtonInv
  <2>10. ButtonInv'
    BY <1>1, <1>13, <2>3, <2>6, <2>7, <2>8, <2>9 DEF ButtonInv, Beginning, Current
  <2> QED BY <1>11, <1>12, <2>4, <2>6, <2>10
<1>22. Single \/ (jpc = "send" /\ ~Single /\ Lift) \/ (jpc = "send" /\ ~Single /\ Flush)
  BY <1>1, <1>2
<1>23. /\ Lift => Len(jtodo) \in 1 .. 2
       /\ Flush => Len(jtodo) \in 3 .. 4
  BY DEF Lift, Flush
<1>24. /\ Lift => Len(jtodo) = 1 \/ Len(jtodo) = 2
       /\ Flush => Len(jtodo) = 3 \/ Len(jtodo) = 4
  BY <1>23
<1> QED BY <1>16, <1>18, <1>19, <1>20, <1>21, <1>22, <1>24

-----------------------------------------------------------------------------
(* The compositor starts, stops and begins a tick. *)
LEMMA StartKeeps == IInv /\ TakeTurns /\ Start => IInv'
<1> SUFFICES ASSUME IInv, TakeTurns, Start PROVE IInv'
  OBVIOUS
<1> USE DEF IInv, TakeTurns, deferVars, callVars
<1>1. /\ tpc = "stopped" /\ tpc' = "idle" /\ jpc = "idle"
      /\ queue' = <<>> /\ pointer' = NoMotion /\ button' = "up" /\ hovered' = 0
      /\ since' = gesture + 1
      /\ UNCHANGED <<deferVars, callVars, load, ttodo, clicked>>
  BY DEF Start
<1>2. NoMotion \in EventType /\ 0 \in Gestures
  <2>1. 0 \in Gestures /\ 0 \in -1 .. 2
    BY TouchInputAssumption DEF Gestures
  <2> QED BY <2>1, Events DEF NoMotion
<1>3. queue' \in Seq(EventType) /\ Len(queue') = 0
  BY <1>1, Nothing
<1>4. since' \in 1 .. MaxGestures + 1 /\ ~(gesture >= since') /\ ~(deferred >= since')
  <2>1. gesture \in Gestures /\ deferred \in Gestures /\ deferred <= gesture
    BY DEF TypeOK, ButtonInv
  <2> QED BY <1>1, <2>1, TouchInputAssumption DEF Gestures
<1>5. TypeOK'
  BY <1>1, <1>2, <1>3, <1>4, TouchInputAssumption DEF TypeOK
<1>6. Turns' /\ TickInv'
  BY <1>1 DEF Turns, TickInv
<1>7. CallInv'
  BY <1>1 DEF CallInv, Beginning
<1>8. RoomInv'
  BY <1>1, <1>3, TouchInputAssumption DEF RoomInv
<1>9. Owed' <=> Owed
  BY <1>1 DEF Owed
<1>10. Alternate(queue', button', since') /\ ~Held(queue', button')
  BY <1>1, Nothing
<1>11. ButtonInv'
  BY <1>1, <1>4, <1>9, <1>10 DEF ButtonInv, Beginning, Current
<1>12. Led(queue', pointer') /\ Hovers(queue', hovered', since')
  BY <1>1, Nothing
<1>13. PlaceInv' /\ HoverInv'
  BY <1>1, <1>4, <1>12 DEF PlaceInv, HoverInv, Soon
<1> QED BY <1>5, <1>6, <1>7, <1>8, <1>11, <1>13

LEMMA StopKeeps == IInv /\ Stop => IInv'
<1> SUFFICES ASSUME IInv, Stop PROVE IInv'
  OBVIOUS
<1> USE DEF IInv, Stop, deferVars, callVars, seatVars
<1>1. TypeOK'
  BY DEF TypeOK
<1>2. Turns' /\ TickInv'
  BY DEF Turns, TickInv
<1>3. CallInv' /\ (Single' <=> Single) /\ (Lift' <=> Lift) /\ (Flush' <=> Flush)
  BY DEF CallInv, Beginning, Single, Lift, Flush
<1>4. Owed' <=> Owed
  BY DEF Owed
<1>5. RoomInv'
  BY <1>3, <1>4 DEF RoomInv
<1>6. ButtonInv'
  BY <1>3, <1>4 DEF ButtonInv, Beginning, Current
<1>7. PlaceInv' /\ HoverInv'
  BY DEF PlaceInv, HoverInv, Soon
<1> QED BY <1>1, <1>2, <1>3, <1>5, <1>6, <1>7

LEMMA TickKeeps == IInv /\ TakeTurns /\ Tick => IInv'
<1> SUFFICES ASSUME IInv, TakeTurns, Tick PROVE IInv'
  OBVIOUS
<1> USE DEF IInv, TakeTurns, Tick, deferVars, callVars, seatVars
<1>1. TypeOK'
  BY DEF TypeOK
<1>2. Turns' /\ TickInv'
  BY DEF Turns, TickInv
<1>3. CallInv'
  BY DEF CallInv, Beginning
<1>4. Owed' <=> Owed
  BY DEF Owed
<1>5. RoomInv'
  BY <1>4 DEF RoomInv
<1>6. ButtonInv'
  BY <1>4 DEF ButtonInv, Beginning, Current
<1>7. PlaceInv' /\ HoverInv'
  BY DEF PlaceInv, HoverInv, Soon
<1> QED BY <1>1, <1>2, <1>3, <1>5, <1>6, <1>7

-----------------------------------------------------------------------------
(* The steps of a tick.  No call is under way. *)
LEMMA TickTestKeeps == IInv /\ TickTest => IInv'
<1> SUFFICES ASSUME IInv, TickTest PROVE IInv'
  OBVIOUS
<1> USE DEF IInv, TickTest, deferVars, callVars, seatVars
<1>1. TypeOK'
  BY DEF TypeOK
<1>2. Turns' /\ TickInv'
  BY DEF Turns, TickInv
<1>3. CallInv' /\ jpc = "idle"
  BY DEF CallInv, Beginning, Turns
<1>4. Owed' <=> Owed
  BY DEF Owed
<1>5. RoomInv'
  BY <1>3, <1>4 DEF RoomInv
<1>6. ButtonInv'
  BY <1>3, <1>4 DEF ButtonInv, Beginning, Current
<1>7. PlaceInv' /\ HoverInv'
  BY DEF PlaceInv, HoverInv, Soon
<1> QED BY <1>1, <1>2, <1>3, <1>5, <1>6, <1>7

LEMMA TickLoadKeeps == IInv /\ TickLoad => IInv'
<1> SUFFICES ASSUME IInv, TickLoad PROVE IInv'
  OBVIOUS
<1> USE DEF IInv, TickLoad, deferVars, callVars, seatVars
<1>1. TypeOK'
  BY DEF TypeOK
<1>2. Turns' /\ TickInv'
  BY DEF Turns, TickInv
<1>3. CallInv' /\ jpc = "idle"
  BY DEF CallInv, Beginning, Turns
<1>4. Owed' <=> Owed
  BY DEF Owed
<1>5. RoomInv'
  BY <1>3, <1>4 DEF RoomInv
<1>6. ButtonInv'
  BY <1>3, <1>4 DEF ButtonInv, Beginning, Current
<1>7. PlaceInv' /\ HoverInv'
  BY DEF PlaceInv, HoverInv, Soon
<1> QED BY <1>1, <1>2, <1>3, <1>5, <1>6, <1>7

LEMMA TickStoreKeeps == IInv /\ TickStore => IInv'
<1> SUFFICES ASSUME IInv, TickStore PROVE IInv'
  OBVIOUS
<1> USE DEF IInv, TickStore, callVars, seatVars
<1>1. /\ g_deferred_button_countdown > 0 /\ g_deferred_button_countdown \in -1 .. 3
      /\ g_deferred_button_countdown' = g_deferred_button_countdown - 1
      /\ jpc = "idle"
  BY DEF Turns, TypeOK
<1>2. TypeOK'
  BY <1>1 DEF TypeOK
<1>3. Turns' /\ TickInv'
  BY <1>1 DEF Turns, TickInv
<1>4. CallInv'
  BY <1>1 DEF CallInv, Beginning
<1>5. Owed /\ Owed'
  BY <1>1 DEF Owed
<1>6. RoomInv'
  BY <1>1, <1>5 DEF RoomInv
<1>7. ButtonInv'
  BY <1>1, <1>5 DEF ButtonInv, Beginning, Current
<1>8. Soon' => Soon
  BY <1>1 DEF Soon
<1>9. PlaceInv' /\ HoverInv'
  BY <1>8 DEF PlaceInv, HoverInv
<1> QED BY <1>2, <1>3, <1>4, <1>6, <1>7, <1>9

LEMMA TickInjectKeeps == IInv /\ TickInject => IInv'
<1> SUFFICES ASSUME IInv, TickInject PROVE IInv'
  OBVIOUS
<1> USE DEF IInv, deferVars, callVars, seatVars
<1> DEFINE jitter == IF g_deferred_button_countdown % 2 = 1 THEN 1 ELSE -1
           n == Motion(deferred, jitter, "timer")
           m == Motion(deferred, 0, "timer")
           p == Press(deferred, "timer")
<1>1. /\ tpc = "retest" /\ tpc' = "inject" /\ jpc = "idle"
      /\ UNCHANGED <<queue, deferVars, callVars, load, seatVars>>
      /\ g_deferred_button_countdown >= 0 /\ g_deferred_button_countdown \in -1 .. 3
  BY DEF TickInject, Turns, TypeOK
<1>2. ttodo' = IF g_deferred_button_countdown > 0 THEN <<n>> ELSE <<m, p>>
  BY DEF TickInject
<1>3. jitter \in -1 .. 2 /\ 0 \in -1 .. 2
  OBVIOUS
<1> HIDE DEF jitter
<1>4. /\ n \in EventType /\ n.type = "motion" /\ n.g = deferred
      /\ m \in EventType /\ m.type = "motion" /\ m.g = deferred /\ m.at = 0
      /\ p \in EventType /\ p.type = "press" /\ p.g = deferred /\ p.by = "timer"
  BY <1>3, Events DEF TypeOK
<1> HIDE DEF n, m, p
<1>5. /\ ttodo' \in Seq(EventType) /\ Len(ttodo') \in 1 .. 2
      /\ TickInv' /\ Owed' /\ (Soon' => Soon)
  <2>1. CASE g_deferred_button_countdown > 0
    <3>1. ttodo' \in Seq(EventType) /\ Len(ttodo') = 1 /\ ttodo'[1] = n
      BY <1>2, <1>4, <2>1, One
    <3>2. TickInv'
      BY <1>1, <1>4, <2>1, <3>1 DEF TickInv
    <3>3. Owed' /\ (Soon' => Soon)
      BY <1>1, <1>4, <2>1, <3>1 DEF Owed, Soon
    <3> QED BY <3>1, <3>2, <3>3
  <2>2. CASE ~(g_deferred_button_countdown > 0)
    <3>1. /\ ttodo' \in Seq(EventType) /\ Len(ttodo') = 2
          /\ ttodo'[1] = m /\ ttodo'[2] = p
      BY <1>2, <1>4, <2>2, Two
    <3>2. g_deferred_button_countdown = 0 /\ Leads(m, p)
      BY <1>1, <1>4, <2>2 DEF Leads
    <3>3. TickInv'
      BY <1>1, <1>4, <3>1, <3>2 DEF TickInv
    <3>4. Owed' /\ (Soon' => Soon)
      BY <1>1, <1>4, <3>1, <3>2 DEF Owed, Soon
    <3> QED BY <3>1, <3>3, <3>4
  <2> QED BY <2>1, <2>2
<1>6. TypeOK'
  BY <1>1, <1>5 DEF TypeOK
<1>7. Turns'
  BY <1>1 DEF Turns
<1>8. CallInv'
  BY <1>1 DEF CallInv, Beginning
<1>9. Owed
  BY <1>1 DEF Owed
<1>10. RoomInv'
  <2>1. Len(queue) \in Nat /\ Capacity \in Nat /\ Len(queue) + 3 <= Capacity
    BY <1>1, <1>9, TouchInputAssumption DEF TypeOK, RoomInv
  <2>2. Len(queue') <= Capacity /\ Len(queue') + Len(ttodo') <= Capacity
    <3>1. queue' = queue
      BY <1>1
    <3>2. Len(ttodo') = 1 \/ Len(ttodo') = 2
      BY <1>5
    <3>3. Len(queue') = Len(queue)
      BY <3>1
    <3> HIDE DEF IInv
    <3>4. Len(queue) <= Capacity /\ Len(queue) + 1 <= Capacity /\ Len(queue) + 2 <= Capacity
      BY <2>1
    <3> QED BY <3>2, <3>3, <3>4
  <2> QED BY <1>1, <2>2 DEF RoomInv
<1>11. ButtonInv'
  BY <1>1, <1>5, <1>9 DEF ButtonInv, Beginning, Current
<1>12. PlaceInv' /\ HoverInv'
  BY <1>1, <1>5 DEF PlaceInv, HoverInv
<1> QED BY <1>5, <1>6, <1>7, <1>8, <1>10, <1>11, <1>12

(* Queueing the next event of a tick.  There is room for it. *)
LEMMA TickQueueKeeps == IInv /\ TickQueue => IInv'
<1> SUFFICES ASSUME IInv, TickQueue PROVE IInv'
  OBVIOUS
<1> USE DEF IInv, deferVars, callVars, seatVars
<1> DEFINE e == ttodo[1]
<1>1. /\ tpc = "inject" /\ jpc = "idle"
      /\ UNCHANGED <<deferVars, callVars, load, seatVars>>
      /\ ttodo' = Tail(ttodo)
      /\ tpc' = IF Len(ttodo) > 1 THEN "inject" ELSE "drain"
  BY DEF TickQueue, Turns
<1>2. /\ Len(ttodo) \in 1 .. 2 /\ ttodo \in Seq(EventType) /\ ttodo # <<>>
      /\ ttodo[Len(ttodo)].g = deferred
      /\ ttodo[Len(ttodo)].type \in {"motion", "press"}
  <2>1. Len(ttodo) \in 1 .. 2 /\ ttodo \in Seq(EventType)
    BY <1>1 DEF TickInv, TypeOK
  <2>2. ttodo # <<>>
    <3>1. Len(ttodo) = 1 \/ Len(ttodo) = 2
      BY <2>1
    <3> QED BY <3>1, Nothing
  <2> QED BY <1>1, <2>1, <2>2 DEF TickInv
<1>3. /\ ttodo' \in Seq(EventType) /\ e \in EventType /\ Head(ttodo) = e
      /\ Len(ttodo') = Len(ttodo) - 1
      /\ \A i \in 1 .. Len(ttodo) - 1 : ttodo'[i] = ttodo[i + 1]
  BY <1>1, <1>2, Taken
<1>4. /\ Len(queue) \in Nat /\ Capacity \in Nat /\ queue \in Seq(EventType)
      /\ Len(queue) + Len(ttodo) <= Capacity
  BY <1>1, TouchInputAssumption DEF TypeOK, RoomInv
<1>5. queue' = Append(queue, e)
  <2>1. Len(queue) < Capacity
    BY <1>2, <1>4
  <2> QED BY <1>3, <2>1 DEF TickQueue, Enqueue
<1> HIDE DEF e
<1>6. /\ queue' \in Seq(EventType) /\ Len(queue') = Len(queue) + 1
      /\ queue'[Len(queue')] = e /\ queue' # <<>>
  BY <1>3, <1>4, <1>5, Appended
<1>7. Held(queue', button) <=> e.type = "press" \/ (e.type # "release" /\ Held(queue, button))
  BY <1>3, <1>4, <1>5, HeldBehind
<1>8. /\ tpc' \in {"inject", "drain"}
      /\ Len(queue') <= Capacity /\ Len(queue') + Len(ttodo') <= Capacity
  <2>1. Len(queue') + Len(ttodo') = Len(queue) + Len(ttodo) /\ Len(queue') <= Capacity
    <3>1. Len(ttodo) = 1 \/ Len(ttodo) = 2
      BY <1>2
    <3> QED BY <1>3, <1>4, <1>6, <3>1
  <2> QED BY <1>1, <1>4, <2>1
<1>9. TypeOK'
  BY <1>1, <1>3, <1>6, <1>8 DEF TypeOK
<1>10. Turns' /\ CallInv'
  BY <1>1, <1>8 DEF Turns, CallInv, Beginning
<1>11. RoomInv'
  BY <1>1, <1>8 DEF RoomInv
<1>12. ASSUME e.type = "press" => /\ ~Held(queue, button)
                                  /\ queue # <<>> /\ Leads(queue[Len(queue)], e)
                                  /\ e.g >= since => e.g = hovered,
              e.type # "release"
       PROVE  /\ Alternate(queue', button', since') /\ PlaceInv'
              /\ Hovers(queue', hovered', since')
  <2>1. Alternate(queue, button, since) /\ Led(queue, pointer) /\ Hovers(queue, hovered, since)
    BY DEF ButtonInv, PlaceInv, HoverInv
  <2>2. Alternate(queue', button, since)
    BY <1>3, <1>4, <1>5, <1>12, <2>1, AlternateBehind
  <2>3. Led(queue', pointer)
    BY <1>3, <1>4, <1>5, <1>12, <2>1, LedBehind
  <2>4. Hovers(queue', hovered, since)
    BY <1>3, <1>4, <1>5, <1>12, <2>1, HoversBehind
  <2> QED BY <1>1, <2>2, <2>3, <2>4 DEF PlaceInv
<1>13. CASE Len(ttodo) = 1 /\ e.type = "motion"
  <2>1. tpc' = "drain" /\ ttodo' = <<>>
    BY <1>1, <1>2, <1>13
  <2>2. e.g = deferred /\ g_deferred_button_countdown > 0
    BY <1>1, <1>13 DEF TickInv, e
  <2>3. TickInv'
    BY <2>1 DEF TickInv
  <2>4. Owed /\ Owed'
    BY <1>1, <2>2 DEF Owed
  <2>5. /\ Alternate(queue', button', since') /\ PlaceInv'
        /\ Hovers(queue', hovered', since')
    BY <1>12, <1>13
  <2>6. Held(queue', button') <=> Held(queue, button)
    BY <1>1, <1>7, <1>13
  <2>7. ButtonInv'
    BY <1>1, <2>4, <2>5, <2>6 DEF ButtonInv, Beginning, Current
  <2>8. HoverInv'
    BY <1>1, <1>6, <1>13, <2>1, <2>2, <2>5 DEF HoverInv, Soon
  <2> QED BY <1>9, <1>10, <1>11, <2>3, <2>5, <2>7, <2>8
<1>14. CASE Len(ttodo) = 1 /\ e.type = "press"
  <2>1. tpc' = "drain" /\ ttodo' = <<>>
    BY <1>1, <1>2, <1>14
  <2>2. /\ e.g = deferred /\ g_deferred_button_countdown = 0
        /\ queue # <<>> /\ Leads(queue[Len(queue)], e)
    BY <1>1, <1>14 DEF TickInv, e
  <2>3. TickInv'
    BY <2>1 DEF TickInv
  <2>4. Owed /\ Soon
    BY <1>1, <1>14 DEF Owed, Soon, e
  <2>5. ~Owed' /\ ~Soon'
    BY <1>1, <2>1, <2>2 DEF Owed, Soon
  <2>6. ~Held(queue, button) /\ finger /\ (e.g >= since => e.g = hovered)
    BY <1>1, <2>2, <2>4 DEF ButtonInv, HoverInv
  <2>7. /\ Alternate(queue', button', since') /\ PlaceInv'
        /\ Hovers(queue', hovered', since')
    BY <1>12, <1>14, <2>2, <2>6
  <2>8. Held(queue', button')
    BY <1>1, <1>7, <1>14
  <2>9. ButtonInv'
    BY <1>1, <2>5, <2>6, <2>7, <2>8 DEF ButtonInv, Beginning, Current
  <2>10. HoverInv'
    BY <1>1, <2>1, <2>2, <2>5, <2>7 DEF HoverInv
  <2> QED BY <1>9, <1>10, <1>11, <2>3, <2>7, <2>9, <2>10
<1>15. CASE Len(ttodo) = 2
  <2> DEFINE p == ttodo[2]
  <2>1. /\ tpc' = "inject" /\ Len(ttodo') = 1 /\ ttodo'[1] = p
    <3>1. tpc' = "inject" /\ Len(ttodo') = 1
      BY <1>1, <1>3, <1>15
    <3>2. 1 \in 1 .. Len(ttodo) - 1
      BY <1>15
    <3>3. ttodo'[1] = ttodo[1 + 1]
      BY <1>3, <3>2
    <3> QED BY <3>1, <3>3
  <2>2. p.g = deferred /\ p.type = "press" /\ p.by = "timer"
        /\ g_deferred_button_countdown = 0 /\ Leads(e, p)
    BY <1>1, <1>15 DEF TickInv, e
  <2>3. e.type = "motion"
    BY <2>2 DEF Leads
  <2>4. ttodo[Len(ttodo)] = p /\ ttodo'[Len(ttodo')] = p
    BY <1>15, <2>1
  <2> HIDE DEF p
  <2>5. TickInv'
    <3>1. \A i \in 1 .. Len(ttodo') - 1 : FALSE
      BY <2>1
    <3>2. Len(ttodo') \in 1 .. 2 /\ Len(ttodo') # 2
      BY <2>1
    <3>3. queue'[Len(queue')] = e /\ queue' # <<>> /\ deferred' = deferred
          /\ g_deferred_button_countdown' = 0
      BY <1>1, <1>6, <2>2
    <3> QED BY <2>1, <2>2, <2>4, <3>1, <3>2, <3>3 DEF TickInv
  <2>6. Owed /\ Owed' /\ Soon /\ Soon'
    BY <1>1, <2>1, <2>2, <2>4 DEF Owed, Soon
  <2>7. /\ Alternate(queue', button', since') /\ PlaceInv'
        /\ Hovers(queue', hovered', since')
    BY <1>12, <2>3
  <2>8. Held(queue', button') <=> Held(queue, button)
    BY <1>1, <1>7, <2>3
  <2>9. ButtonInv'
    BY <1>1, <2>6, <2>7, <2>8 DEF ButtonInv, Beginning, Current
  <2>10. HoverInv'
    BY <1>1, <2>1, <2>6, <2>7 DEF HoverInv
  <2> QED BY <1>9, <1>10, <1>11, <2>5, <2>7, <2>9, <2>10
<1>16. Len(ttodo) = 1 => e.type \in {"motion", "press"}
  BY <1>2 DEF e
<1>17. Len(ttodo) = 1 \/ Len(ttodo) = 2
  BY <1>2
<1> QED BY <1>13, <1>14, <1>15, <1>16, <1>17

LEMMA DispatchKeeps == IInv /\ Dispatch => IInv'
<1> SUFFICES ASSUME IInv, Dispatch PROVE IInv'
  OBVIOUS
<1> USE DEF IInv, deferVars, callVars, tickVars
<1> DEFINE e == Head(queue)
           b == [press |-> "down", release |-> "up",
                 motion |-> button, other |-> button][e.type]
<1>1. /\ tpc = "drain" /\ jpc = "idle" /\ queue # <<>> /\ queue' = Tail(queue)
      /\ UNCHANGED <<deferVars, callVars, tickVars, hovered, since>>
      /\ pointer' = IF e.type = "motion" THEN e ELSE pointer
      /\ button' = b
      /\ clicked' = IF e.type = "press" THEN clicked \cup {e.g} ELSE clicked
  BY DEF Dispatch, Turns
<1>2. queue \in Seq(EventType) /\ Len(queue) <= Capacity /\ button \in {"up", "down"}
  BY DEF TypeOK
<1>3. /\ queue' \in Seq(EventType) /\ e \in EventType /\ e = queue[1]
      /\ Len(queue) \in Nat \ {0} /\ Len(queue') = Len(queue) - 1
      /\ \A i \in 1 .. Len(queue) - 1 : queue'[i] = queue[i + 1]
  BY <1>1, <1>2, Taken
<1>4. e.g \in Gestures /\ e.type \in {"motion", "press", "release", "other"}
  BY <1>3 DEF EventType
<1>5. button' \in {"up", "down"}
  BY <1>1, <1>2, <1>4
<1>6. /\ Alternate(queue', button', since)
      /\ Held(queue', button') <=> Held(queue, button)
  <2>1. Alternate(queue, button, since)
    BY DEF ButtonInv
  <2> QED BY <1>1, <1>2, <2>1, HeldAfter, AlternateAfter
<1> HIDE DEF e, b
<1>7. Len(queue') <= Capacity
  BY <1>2, <1>3, TouchInputAssumption
<1>8. TypeOK'
  <2>1. pointer' \in EventType /\ clicked' \subseteq Gestures
    BY <1>1, <1>3, <1>4 DEF TypeOK
  <2> QED BY <1>1, <1>3, <1>5, <1>7, <2>1 DEF TypeOK
<1>9. Turns' /\ CallInv' /\ TickInv'
  BY <1>1 DEF Turns, CallInv, TickInv, Beginning
<1>10. RoomInv'
  BY <1>1, <1>7 DEF RoomInv
<1>11. Owed' <=> Owed
  BY <1>1 DEF Owed
<1>12. ButtonInv'
  BY <1>1, <1>6, <1>11 DEF ButtonInv, Beginning, Current
<1>13. PlaceInv'
  BY <1>1, <1>2, LedAfter DEF PlaceInv, e
<1>14. HoverInv'
  <2>1. Hovers(queue', hovered, since)
    BY <1>1, <1>2, HoversAfter DEF HoverInv
  <2>2. ASSUME g_deferred_button_countdown > 0
        PROVE  IF queue' = <<>> THEN pointer'.g = deferred
               ELSE queue'[Len(queue')].type = "motion" /\ queue'[Len(queue')].g = deferred
    <3>1. queue[Len(queue)].type = "motion" /\ queue[Len(queue)].g = deferred
      BY <1>1, <2>2 DEF HoverInv
    <3>2. CASE queue' = <<>>
      <4>1. Len(queue) = 1
        BY <1>3, <3>2
      <4> QED BY <1>1, <1>3, <3>1, <3>2, <4>1
    <3>3. CASE queue' # <<>>
      <4>1. Len(queue) - 1 \in 1 .. Len(queue) - 1 /\ (Len(queue) - 1) + 1 = Len(queue)
        BY <1>3, <3>3
      <4>2. queue'[Len(queue')] = queue[Len(queue)]
        BY <1>3, <4>1
      <4> QED BY <3>1, <3>3, <4>2
    <3> QED BY <3>2, <3>3
  <2>3. ~Soon'
    BY <1>1 DEF Soon
  <2> QED BY <1>1, <2>1, <2>2, <2>3 DEF HoverInv
<1> QED BY <1>8, <1>9, <1>10, <1>12, <1>13, <1>14

LEMMA EndTickKeeps == IInv /\ EndTick => IInv'
<1> SUFFICES ASSUME IInv, EndTick PROVE IInv'
  OBVIOUS
<1> USE DEF IInv, EndTick, deferVars, callVars
<1>1. pointer.g \in Gestures /\ jpc = "idle"
  BY DEF TypeOK, EventType, Turns
<1>2. TypeOK'
  BY <1>1 DEF TypeOK
<1>3. Turns' /\ TickInv' /\ CallInv'
  BY <1>1 DEF Turns, TickInv, CallInv, Beginning
<1>4. Owed' <=> Owed
  BY DEF Owed
<1>5. RoomInv'
  <2>1. Len(queue') = 0
    BY Nothing
  <2> QED BY <1>1, <2>1, TouchInputAssumption DEF RoomInv
<1>6. ButtonInv'
  BY <1>1, <1>4 DEF ButtonInv, Beginning, Current
<1>7. Hovers(queue', hovered', since')
  BY Nothing
<1>8. PlaceInv' /\ HoverInv'
  BY <1>7 DEF PlaceInv, HoverInv, Soon
<1> QED BY <1>2, <1>3, <1>5, <1>6, <1>8

LEMMA StutterKeeps == IInv /\ UNCHANGED vars => IInv'
BY DEF vars, deferVars, callVars, tickVars, seatVars, IInv, TypeOK, Turns, CallInv, RoomInv,
       TickInv, ButtonInv, PlaceInv, HoverInv, Single, Lift, Flush, Owed, Beginning, Current, Soon

LEMMA NextKeeps == TakeTurns /\ IInv /\ [Next]_vars => IInv'
BY TouchDownKeeps, SingleCallKeeps, TouchUpKeeps, DeferKeeps, ArmKeeps, UpTestKeeps,
   UpClearKeeps, JniQueueKeeps, StartKeeps, StopKeeps, TickKeeps, TickTestKeeps,
   TickLoadKeeps, TickStoreKeeps, TickInjectKeeps, TickQueueKeeps, DispatchKeeps,
   EndTickKeeps, StutterKeeps
DEF Next, InCall, InTick

LEMMA Inductive == ASSUME TakeTurns PROVE Spec => []IInv
<1>1. Init => IInv
  BY InitEstablishes
<1>2. IInv /\ [Next]_vars => IInv'
  BY TakeTurns, NextKeeps
<1> QED BY <1>1, <1>2, PTL DEF Spec

-----------------------------------------------------------------------------
(* The theorems. *)

(* A press at the head of the queue finds the button up and its motion     *)
(* just dispatched; a release of this run finds the button down.           *)
LEMMA HeadOfQueue ==
  ASSUME IInv, queue # <<>>
  PROVE  LET e == Head(queue)
         IN  /\ e.type = "press" => button = "up" /\ Leads(pointer, e)
             /\ e.type = "press" /\ e.by = "timer" /\ e.g >= since => e.g = hovered
             /\ e.type = "release" /\ e.g >= since => button = "down"
<1> DEFINE e == Head(queue)
<1>1. e = queue[1] /\ 1 \in DOMAIN queue
  BY Taken DEF IInv, TypeOK
<1>2. HeldAt(queue, button, 1) <=> button = "down"
  <2>1. 1 .. 1 - 1 = {}
    OBVIOUS
  <2> QED BY <2>1 DEF HeldAt
<1>3. button \in {"up", "down"}
  BY DEF IInv, TypeOK
<1>4. e.type = "press" => ~HeldAt(queue, button, 1)
  BY <1>1 DEF IInv, ButtonInv, Alternate
<1>5. e.type = "release" /\ e.g >= since => HeldAt(queue, button, 1)
  BY <1>1 DEF IInv, ButtonInv, Alternate
<1>6. e.type = "press" => Leads(pointer, e)
  BY <1>1 DEF IInv, PlaceInv, Led
<1>7. e.type = "press" /\ e.by = "timer" /\ e.g >= since => e.g = hovered
  BY <1>1 DEF IInv, HoverInv, Hovers
<1> HIDE DEF e
<1> QED BY <1>2, <1>3, <1>4, <1>5, <1>6, <1>7 DEF e

(* A deferred press and the press of a finger lifted early exclude each    *)
(* other: no press is dispatched to a button that is down.                 *)
THEOREM OnePressAtATime == ASSUME TakeTurns PROVE Spec => NoDoublePress
<1>1. IInv => (Dispatches("press") => button = "up")
  BY HeadOfQueue DEF Dispatches, Dispatch
<1>2. IInv => [Dispatches("press") => button = "up"]_vars
  BY <1>1
<1> QED BY TakeTurns, Inductive, <1>2, PTL DEF NoDoublePress

(* The release of a gesture that began in this run finds the button down.  *)
THEOREM ReleasesFollowPresses == ASSUME TakeTurns PROVE Spec => PressBeforeRelease
<1>1. IInv => (Dispatches("release") /\ HeadIsCurrent => button = "down")
  BY HeadOfQueue DEF Dispatches, Dispatch, HeadIsCurrent
<1>2. IInv => [Dispatches("release") /\ HeadIsCurrent => button = "down"]_vars
  BY <1>1
<1> QED BY TakeTurns, Inductive, <1>2, PTL DEF PressBeforeRelease

(* When a deferred press is dispatched, an earlier tick ended with the     *)
(* pointer on its gesture.                                                 *)
THEOREM HoversFirst == ASSUME TakeTurns PROVE Spec => HoverBeforeClick
<1>1. IInv => (Dispatches("press") /\ Head(queue).by = "timer" /\ HeadIsCurrent
                 => hovered = Head(queue).g)
  BY HeadOfQueue DEF Dispatches, Dispatch, HeadIsCurrent
<1>2. IInv => [Dispatches("press") /\ Head(queue).by = "timer" /\ HeadIsCurrent
                 => hovered = Head(queue).g]_vars
  BY <1>1
<1> QED BY TakeTurns, Inductive, <1>2, PTL DEF HoverBeforeClick

(* Every press is dispatched with the pointer on its own gesture, and a    *)
(* deferred one with the pointer where the finger went down.               *)
THEOREM PressesLand == ASSUME TakeTurns PROVE Spec => PressAtGesture
<1>1. IInv => (Dispatches("press")
                 => /\ pointer.g = Head(queue).g
                    /\ Head(queue).by = "timer" => pointer.at = 0)
  BY HeadOfQueue DEF Dispatches, Dispatch, Leads
<1>2. IInv => [Dispatches("press")
                 => /\ pointer.g = Head(queue).g
                    /\ Head(queue).by = "timer" => pointer.at = 0]_vars
  BY <1>1
<1> QED BY TakeTurns, Inductive, <1>2, PTL DEF PressAtGesture

-----------------------------------------------------------------------------
(* Type correctness does not need the turns.                               *)

(* A call or a tick that queues an event has one, and the timer loads a    *)
(* countdown that was not negative when it was tested.                     *)
QueuesSome ==
  /\ jpc \in {"down", "test", "clear", "send"} => jtodo # <<>>
  /\ tpc = "inject" => ttodo # <<>>
  /\ tpc = "load" => g_deferred_button_countdown >= 0
  /\ tpc = "store" => load >= 0

TypeInv == TypeOK /\ QueuesSome

LEMMA EnqueuedTyped ==
  ASSUME TypeOK, NEW e \in EventType, Enqueue(e)
  PROVE  queue' \in Seq(EventType) /\ Len(queue') <= Capacity
<1>1. queue \in Seq(EventType) /\ Len(queue) <= Capacity
  BY DEF TypeOK
<1>2. CASE Len(queue) < Capacity
  <2>1. queue' = Append(queue, e)
    BY <1>2 DEF Enqueue
  <2> QED BY <1>1, <1>2, <2>1, Appended, TouchInputAssumption
<1>3. CASE ~(Len(queue) < Capacity)
  BY <1>1, <1>3 DEF Enqueue
<1> QED BY <1>2, <1>3

LEMMA CallsTyped ==
  TypeInv /\ (TouchDown \/ TouchMove \/ TouchUp \/ SendOther \/ InCall) => TypeInv'
<1> SUFFICES ASSUME TypeInv, TouchDown \/ TouchMove \/ TouchUp \/ SendOther \/ InCall
             PROVE  TypeInv'
  OBVIOUS
<1> USE DEF TypeInv, deferVars, callVars, tickVars, seatVars
<1>1. \A e \in EventType : <<e>> \in Seq(EventType) /\ <<e>> # <<>>
  BY One
<1>2. gesture \in Gestures /\ deferred \in Gestures
  BY DEF TypeOK
<1>3. CASE TouchDown
  <2> DEFINE e == Motion(gesture + 1, 0, "jni")
  <2>1. gesture + 1 \in Gestures
    BY <1>2, <1>3, TouchInputAssumption DEF TouchDown, Gestures
  <2>2. e \in EventType
    BY <2>1, Events
  <2> HIDE DEF e
  <2>3. jtodo' \in Seq(EventType) /\ jtodo' # <<>>
    BY <1>1, <1>3, <2>2 DEF TouchDown, e
  <2> QED BY <1>3, <2>1, <2>3 DEF TouchDown, TypeOK, QueuesSome
<1>4. CASE TouchMove \/ SendOther
  <2>1. \E e \in EventType : jtodo' = <<e>>
    BY <1>2, <1>4, Events DEF TouchMove, SendOther
  <2>2. jtodo' \in Seq(EventType) /\ jtodo' # <<>>
    BY <1>1, <2>1
  <2> QED BY <1>4, <2>2 DEF TouchMove, SendOther, TypeOK, QueuesSome
<1>5. CASE TouchUp
  <2>1. \E e, f \in EventType : jtodo' = <<e, f>>
    BY <1>2, <1>5, Events DEF TouchUp
  <2>2. jtodo' \in Seq(EventType) /\ jtodo' # <<>>
    BY <2>1
  <2> QED BY <1>5, <2>2 DEF TouchUp, TypeOK, QueuesSome
<1>6. CASE Defer \/ Arm \/ UpTest
  BY <1>6 DEF Defer, Arm, UpTest, TypeOK, QueuesSome
<1>7. CASE UpClear
  <2> DEFINE m == Head(jtodo)
             p == Press(deferred, "jni")
  <2>1. jtodo \in Seq(EventType) /\ m \in EventType /\ p \in EventType
    BY <1>2, <1>7, Events DEF UpClear, TypeOK, QueuesSome
  <2>2. jtodo' = <<m, p>> \o jtodo
    BY <1>7 DEF UpClear
  <2> HIDE DEF m, p
  <2>3. <<m, p>> \in Seq(EventType) /\ Len(<<m, p>>) = 2
    BY <2>1
  <2>4. jtodo' \in Seq(EventType) /\ Len(jtodo') = 2 + Len(jtodo)
    BY <2>1, <2>2, <2>3, ConcatProperties
  <2>5. jtodo' # <<>>
    BY <2>1, <2>4
  <2> QED BY <1>7, <2>4, <2>5 DEF UpClear, TypeOK, QueuesSome
<1>8. CASE JniQueue
  <2>1. /\ jtodo \in Seq(EventType) /\ jtodo # <<>> /\ jtodo' = Tail(jtodo)
        /\ jpc' = IF Len(jtodo) > 1 THEN jpc ELSE [down |-> "defer", send |-> "idle"][jpc]
    BY <1>8 DEF JniQueue, TypeOK, QueuesSome
  <2>2. Head(jtodo) \in EventType /\ jtodo' \in Seq(EventType) /\ Len(jtodo') = Len(jtodo) - 1
    BY <2>1, Taken
  <2>3. queue' \in Seq(EventType) /\ Len(queue') <= Capacity
    BY <1>8, <2>2, EnqueuedTyped DEF JniQueue
  <2>4. jpc' \in {"down", "send", "defer", "idle"}
    BY <1>8, <2>1 DEF JniQueue
  <2>5. jpc' \in {"down", "send"} => jtodo' # <<>>
    <3>1. CASE Len(jtodo) > 1
      <4>1. Len(jtodo) - 1 # 0
        BY <2>1, <3>1
      <4> QED BY <2>2, <4>1, Nothing
    <3>2. CASE ~(Len(jtodo) > 1)
      BY <1>8, <2>1, <3>2 DEF JniQueue
    <3> QED BY <3>1, <3>2
  <2> QED BY <1>8, <2>2, <2>3, <2>4, <2>5 DEF JniQueue, TypeOK, QueuesSome
<1> QED BY <1>3, <1>4, <1>5, <1>6, <1>7, <1>8 DEF InCall

LEMMA TicksTyped == TypeInv /\ (Start \/ Stop \/ InTick) => TypeInv'
<1> SUFFICES ASSUME TypeInv, Start \/ Stop \/ InTick PROVE TypeInv'
  OBVIOUS
<1> USE DEF TypeInv, deferVars, callVars, tickVars, seatVars
<1>1. CASE Start
  <2>1. 0 \in Gestures /\ gesture + 1 \in 1 .. MaxGestures + 1
    BY TouchInputAssumption DEF Gestures, TypeOK
  <2>2. NoMotion \in EventType
    BY <2>1, Events DEF NoMotion
  <2>3. queue' \in Seq(EventType) /\ Len(queue') <= Capacity
    BY <1>1, Nothing, TouchInputAssumption DEF Start
  <2> QED BY <1>1, <2>1, <2>2, <2>3 DEF Start, TypeOK, QueuesSome
<1>2. CASE Stop \/ Tick \/ TickTest \/ TickLoad
  BY <1>2 DEF Stop, Tick, TickTest, TickLoad, TypeOK, QueuesSome
<1>3. CASE TickStore
  <2>1. load - 1 \in -1 .. 3
    BY <1>3 DEF TickStore, TypeOK, QueuesSome
  <2> QED BY <1>3, <2>1 DEF TickStore, TypeOK, QueuesSome
<1>4. CASE TickInject
  <2> DEFINE jitter == IF g_deferred_button_countdown % 2 = 1 THEN 1 ELSE -1
             n == Motion(deferred, jitter, "timer")
             m == Motion(deferred, 0, "timer")
             p == Press(deferred, "timer")
  <2>1. jitter \in -1 .. 2 /\ 0 \in -1 .. 2 /\ deferred \in Gestures
    BY DEF TypeOK
  <2>2. ttodo' = IF g_deferred_button_countdown > 0 THEN <<n>> ELSE <<m, p>>
    BY <1>4 DEF TickInject
  <2> HIDE DEF jitter
  <2>3. n \in EventType /\ m \in EventType /\ p \in EventType
    BY <2>1, Events
  <2> HIDE DEF n, m, p
  <2>4. ttodo' \in Seq(EventType) /\ ttodo' # <<>>
    BY <2>2, <2>3
  <2> QED BY <1>4, <2>4 DEF TickInject, TypeOK, QueuesSome
<1>5. CASE TickQueue
  <2>1. /\ ttodo \in Seq(EventType) /\ ttodo # <<>> /\ ttodo' = Tail(ttodo)
        /\ tpc' = IF Len(ttodo) > 1 THEN "inject" ELSE "drain"
    BY <1>5 DEF TickQueue, TypeOK, QueuesSome
  <2>2. Head(ttodo) \in EventType /\ ttodo' \in Seq(EventType) /\ Len(ttodo') = Len(ttodo) - 1
    BY <2>1, Taken
  <2>3. queue' \in Seq(EventType) /\ Len(queue') <= Capacity
    BY <1>5, <2>2, EnqueuedTyped DEF TickQueue
  <2>4. tpc' \in {"inject", "drain"} /\ (tpc' = "inject" => ttodo' # <<>>)
    <3>1. tpc' = "inject" => Len(ttodo) - 1 # 0
      BY <2>1
    <3> QED BY <2>1, <2>2, <3>1, Nothing
  <2> QED BY <1>5, <2>2, <2>3, <2>4 DEF TickQueue, TypeOK, QueuesSome
<1>6. CASE Dispatch
  <2> DEFINE e == Head(queue)
  <2>1. /\ queue \in Seq(EventType) /\ queue # <<>> /\ queue' = Tail(queue)
        /\ Len(queue) <= Capacity
    BY <1>6 DEF Dispatch, TypeOK
  <2>2. e \in EventType /\ queue' \in Seq(EventType) /\ Len(queue') = Len(queue) - 1
        /\ Len(queue) \in Nat
    BY <2>1, Taken
  <2>3. Len(queue') <= Capacity
    BY <2>1, <2>2, TouchInputAssumption
  <2>4. e.g \in Gestures /\ e.type \in {"motion", "press", "release", "other"}
    BY <2>2 DEF EventType
  <2>5. button' \in {"up", "down"} /\ pointer' \in EventType /\ clicked' \subseteq Gestures
    BY <1>6, <2>2, <2>4 DEF Dispatch, TypeOK
  <2> QED BY <1>6, <2>2, <2>3, <2>5 DEF Dispatch, TypeOK, QueuesSome
<1>7. CASE EndTick
  <2>1. pointer.g \in Gestures
    BY DEF TypeOK, EventType
  <2> QED BY <1>7, <2>1 DEF EndTick, TypeOK, QueuesSome
<1> QED BY <1>1, <1>2, <1>3, <1>4, <1>5, <1>6, <1>7 DEF InTick

(* Type correctness, whether or not calls and ticks overlap: the queue     *)
(* stays within its capacity and the countdown within -1 and 3.            *)
THEOREM TouchTyped == Spec => []TypeOK
<1>1. Init => TypeInv
  BY InitEstablishes DEF IInv, TypeInv, QueuesSome, Init
<1>2. TypeInv /\ [Next]_vars => TypeInv'
  <2>1. TypeInv /\ UNCHANGED vars => TypeInv'
    BY DEF TypeInv, TypeOK, QueuesSome, vars, deferVars, callVars, tickVars, seatVars
  <2> QED BY <2>1, CallsTyped, TicksTyped DEF Next
<1>3. TypeInv => TypeOK
  BY DEF TypeInv
<1> QED BY <1>1, <1>2, <1>3, PTL DEF Spec
=============================================================================
