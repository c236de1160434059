-------------------------- MODULE InputQueueProofs --------------------------
(***************************************************************************)
(* Proofs about the input queue, for every ring size and every set of      *)
(* events, when one thread queues events, its stores are seen in program   *)
(* order and nobody is inside queue_input() during a reset.  The three     *)
(* conditions are hypotheses of each theorem but the first; with any one   *)
(* of them dropped the model checker finds the queue broken.               *)
(***************************************************************************)
EXTENDS InputQueue, SequenceTheorems, TLAPS

SingleProducer == \A p, q \in Producers : p = q

(* The environment in which the queue works. *)
Environment == SingleProducer /\ OrderedStores /\ QuietStart

-----------------------------------------------------------------------------
(* The inductive invariant.  A producer past its full-test has room in     *)
(* front of it, because the drain loop only moves g_input_read towards     *)
(* g_input_write and never past it; a consumer about to copy has an event. *)

ProducerInv ==
  \A p \in Producers :
    /\ pc[p] # "slot"
    /\ pc[p] # "idle" => /\ ev[p] \in Event
                         /\ next[p] = Succ(g_input_write)
                         /\ cpc # "reset"
    /\ pc[p] \in {"address", "store", "index"} => next[p] # g_input_read
    /\ pc[p] \in {"store", "index"} => slot[p] = g_input_write
    /\ pc[p] = "index" => g_input_queue[g_input_write] = ev[p]

ConsumerInv ==
  /\ cpc \in {"copy", "advance"} => g_input_read # g_input_write
  /\ cpc = "advance" => got = g_input_queue[g_input_read]
  /\ cpc = "reset" => g_input_read = 0

IInv == TypeOK /\ ProducerInv /\ ConsumerInv

-----------------------------------------------------------------------------
(* Ring arithmetic. *)

(* The successor of a ring index is a ring index, and wraps at the end. *)
LEMMA SuccFacts ==
  ASSUME NEW i \in Slots
  PROVE  /\ Succ(i) \in Slots
         /\ Succ(i) = IF i = INPUT_QUEUE_SIZE - 1 THEN 0 ELSE i + 1
<1>1. CASE i = INPUT_QUEUE_SIZE - 1
  BY <1>1, InputQueueAssumption DEF Succ, Slots
<1>2. CASE i # INPUT_QUEUE_SIZE - 1
  BY <1>2, InputQueueAssumption DEF Succ, Slots
<1> QED BY <1>1, <1>2

(* Two different indices have different successors. *)
LEMMA SuccInjective ==
  ASSUME NEW i \in Slots, NEW j \in Slots, Succ(i) = Succ(j)
  PROVE  i = j
BY SuccFacts, InputQueueAssumption DEF Slots

-----------------------------------------------------------------------------
(* TypeOK needs none of the three conditions: the two indices stay inside  *)
(* the ring even when both threads queue events and the reset interferes.  *)
THEOREM TypeCorrect == Spec => []TypeOK
<1>1. Init => TypeOK
  BY InputQueueAssumption DEF Init, TypeOK, Slots
<1>2. TypeOK /\ [Next]_vars => TypeOK'
  <2> SUFFICES ASSUME TypeOK, [Next]_vars
               PROVE  TypeOK'
    OBVIOUS
  <2> USE DEF TypeOK, ringVars, callVars, drainVars
  <2>1. ASSUME NEW p \in Producers, NEW e \in Event, Call(p, e)
        PROVE  TypeOK'
    BY <2>1, SuccFacts DEF Call
  <2>2. ASSUME NEW p \in Producers, Full(p)
        PROVE  TypeOK'
    BY <2>2 DEF Full
  <2>3. ASSUME NEW p \in Producers, NotFull(p)
        PROVE  TypeOK'
    BY <2>3 DEF NotFull
  <2>4. ASSUME NEW p \in Producers, Address(p)
        PROVE  TypeOK'
    BY <2>4 DEF Address
  <2>5. ASSUME NEW p \in Producers, Store(p)
        PROVE  TypeOK'
    BY <2>5 DEF Store
  <2>6. ASSUME NEW p \in Producers, Publish(p)
        PROVE  TypeOK'
    BY <2>6 DEF Publish
  <2>7. CASE ResetRead
    BY <2>7, InputQueueAssumption DEF ResetRead, Slots
  <2>8. CASE ResetWrite
    BY <2>8, InputQueueAssumption DEF ResetWrite, Slots
  <2>9. CASE Stop \/ Tick
    BY <2>9 DEF Stop, Tick
  <2>10. CASE DrainTest
    BY <2>10 DEF DrainTest
  <2>11. CASE Copy
    BY <2>11 DEF Copy
  <2>12. CASE Advance
    BY <2>12, SuccFacts DEF Advance
  <2>13. CASE UNCHANGED vars
    BY <2>13 DEF vars
  <2> QED
    BY <2>1, <2>2, <2>3, <2>4, <2>5, <2>6, <2>7, <2>8, <2>9, <2>10, <2>11,
       <2>12, <2>13 DEF Next, QueueInput, Drain
<1> QED
  BY <1>1, <1>2, PTL DEF Spec

-----------------------------------------------------------------------------
(* ProducerInv and ConsumerInv hold initially. *)
LEMMA InitIInv == Init => IInv
BY InputQueueAssumption
   DEF Init, IInv, TypeOK, ProducerInv, ConsumerInv, Slots

(* Every step of queue_input() keeps them. *)
LEMMA ProducerStep ==
  ASSUME Environment, IInv, TypeOK',
         NEW p \in Producers,
         (\E e \in Event : Call(p, e)) \/ QueueInput(p)
  PROVE  ProducerInv' /\ ConsumerInv'
<1> USE DEF Environment, SingleProducer, IInv, TypeOK, ringVars, callVars, drainVars
<1>1. ASSUME NEW e \in Event, Call(p, e)
      PROVE  ProducerInv' /\ ConsumerInv'
  BY <1>1 DEF Call, ProducerInv, ConsumerInv
<1>2. CASE Full(p)
  BY <1>2 DEF Full, ProducerInv, ConsumerInv
<1>3. CASE NotFull(p)
  BY <1>3 DEF NotFull, ProducerInv, ConsumerInv
<1>4. CASE Address(p)
  BY <1>4 DEF Address, ProducerInv, ConsumerInv
<1>5. CASE Store(p)
  BY <1>5 DEF Store, ProducerInv, ConsumerInv
<1>6. CASE Publish(p)
  BY <1>6, SuccFacts DEF Publish, ProducerInv, ConsumerInv
<1> QED
  BY <1>1, <1>2, <1>3, <1>4, <1>5, <1>6 DEF QueueInput

(* Every step of the compositor thread keeps them. *)
LEMMA ConsumerStep ==
  ASSUME Environment, IInv, TypeOK',
         ResetRead \/ ResetWrite \/ Stop \/ Tick \/ Drain
  PROVE  ProducerInv' /\ ConsumerInv'
<1> USE DEF Environment, SingleProducer, IInv, TypeOK, ringVars, callVars, drainVars
<1>1. CASE ResetRead
  BY <1>1 DEF ResetRead, ProducerInv, ConsumerInv
<1>2. CASE ResetWrite
  BY <1>2 DEF ResetWrite, ProducerInv, ConsumerInv
<1>3. CASE Stop \/ Tick
  BY <1>3 DEF Stop, Tick, ProducerInv, ConsumerInv
<1>4. CASE DrainTest
  BY <1>4 DEF DrainTest, ProducerInv, ConsumerInv
<1>5. CASE Copy
  BY <1>5 DEF Copy, ProducerInv, ConsumerInv
<1>6. CASE Advance
  BY <1>6, SuccFacts, SuccInjective DEF Advance, ProducerInv, ConsumerInv
<1> QED
  BY <1>1, <1>2, <1>3, <1>4, <1>5, <1>6 DEF Drain

(* The inductive invariant holds in every reachable state. *)
THEOREM Inductive ==
  ASSUME Environment
  PROVE  Spec => []IInv
<1>1. IInv /\ TypeOK' /\ [Next]_vars => IInv'
  <2> SUFFICES ASSUME IInv, TypeOK', [Next]_vars
               PROVE  ProducerInv' /\ ConsumerInv'
    BY DEF IInv
  <2>1. CASE Next
    BY <2>1, ProducerStep, ConsumerStep DEF Next
  <2>2. CASE UNCHANGED vars
    BY <2>2 DEF vars, ringVars, callVars, drainVars, IInv, ProducerInv, ConsumerInv
  <2> QED
    BY <2>1, <2>2
<1> QED
  BY <1>1, InitIInv, TypeCorrect, PTL DEF Spec

(* NoSlotRace: the drain loop never copies a slot that is being stored to. *)
THEOREM SlotExclusion ==
  ASSUME Environment
  PROVE  Spec => []NoSlotRace
<1>1. IInv => NoSlotRace
  BY DEF IInv, ProducerInv, ConsumerInv, NoSlotRace
<1> QED
  BY <1>1, Inductive, PTL

-----------------------------------------------------------------------------
(* The ring implements the bounded FIFO of EventFifo.  The first half      *)
(* turns index arithmetic into facts about sequences; the second maps      *)
(* every step of the ring to a step of the FIFO or a stutter.              *)

-----------------------------------------------------------------------------
(* The content of the ring as a sequence. *)

(* The length of the content, and how the two indices change it. *)
LEMMA UsedFacts ==
  ASSUME NEW r \in Slots, NEW w \in Slots
  PROVE  /\ Used(r, w) \in Nat
         /\ Used(r, w) \in 0 .. INPUT_QUEUE_SIZE - 1
         /\ Used(r, w) = 0 <=> r = w
         /\ Used(r, w) = INPUT_QUEUE_SIZE - 1 <=> Succ(w) = r
         /\ Succ(w) # r => Used(r, Succ(w)) = Used(r, w) + 1
         /\ r # w => Used(Succ(r), w) = Used(r, w) - 1
BY SuccFacts, InputQueueAssumption DEF Used, Slots

(* The slots of the content: where they start, how they continue, and that *)
(* the slot at the write index is the one after the last.                  *)
LEMMA AtFacts ==
  ASSUME NEW r \in Slots, NEW i \in 1 .. INPUT_QUEUE_SIZE
  PROVE  /\ At(r, i) \in Slots
         /\ At(r, i) = IF r + i - 1 < INPUT_QUEUE_SIZE
                       THEN r + i - 1 ELSE r + i - 1 - INPUT_QUEUE_SIZE
<1> DEFINE k == r + i - 1
<1>1. k \in 0 .. 2 * INPUT_QUEUE_SIZE - 1
  BY InputQueueAssumption DEF Slots
<1> HIDE DEF k
<1>2. CASE k < INPUT_QUEUE_SIZE
  <2>1. k % INPUT_QUEUE_SIZE = k
    BY <1>1, <1>2, InputQueueAssumption
  <2> QED
    BY <1>1, <1>2, <2>1, InputQueueAssumption DEF At, Slots, k
<1>3. CASE k >= INPUT_QUEUE_SIZE
  <2>1. k % INPUT_QUEUE_SIZE = k - INPUT_QUEUE_SIZE
    BY <1>1, <1>3, InputQueueAssumption
  <2> QED
    BY <1>1, <1>3, <2>1, InputQueueAssumption DEF At, Slots, k
<1> QED
  BY <1>1, <1>2, <1>3, InputQueueAssumption

(* Where the content starts, and what the next read index sees. *)
LEMMA AtSucc ==
  ASSUME NEW r \in Slots
  PROVE  /\ At(r, 1) = r
         /\ \A i \in 1 .. INPUT_QUEUE_SIZE - 1 : At(Succ(r), i) = At(r, i + 1)
<1>1. At(r, 1) = r
  BY AtFacts, InputQueueAssumption DEF Slots
<1>2. ASSUME NEW i \in 1 .. INPUT_QUEUE_SIZE - 1
      PROVE  At(Succ(r), i) = At(r, i + 1)
  <2>1. Succ(r) \in Slots /\ Succ(r) = IF r = INPUT_QUEUE_SIZE - 1 THEN 0 ELSE r + 1
    BY SuccFacts
  <2>2. At(Succ(r), i) = IF Succ(r) + i - 1 < INPUT_QUEUE_SIZE
                         THEN Succ(r) + i - 1 ELSE Succ(r) + i - 1 - INPUT_QUEUE_SIZE
    BY <2>1, AtFacts, InputQueueAssumption
  <2>3. At(r, i + 1) = IF r + (i + 1) - 1 < INPUT_QUEUE_SIZE
                       THEN r + (i + 1) - 1 ELSE r + (i + 1) - 1 - INPUT_QUEUE_SIZE
    BY AtFacts, InputQueueAssumption
  <2> QED
    BY <2>1, <2>2, <2>3, InputQueueAssumption DEF Slots
<1> QED
  BY <1>1, <1>2

(* The slot at the write index comes after the content, not inside it. *)
LEMMA AtWrite ==
  ASSUME NEW r \in Slots, NEW w \in Slots
  PROVE  /\ At(r, Used(r, w) + 1) = w
         /\ \A i \in 1 .. Used(r, w) : At(r, i) \in Slots \ {w}
<1>1. Used(r, w) + 1 \in 1 .. INPUT_QUEUE_SIZE
  BY UsedFacts, InputQueueAssumption
<1>2. At(r, Used(r, w) + 1) = w
  <2>1. At(r, Used(r, w) + 1)
          = IF r + (Used(r, w) + 1) - 1 < INPUT_QUEUE_SIZE
            THEN r + (Used(r, w) + 1) - 1 ELSE r + (Used(r, w) + 1) - 1 - INPUT_QUEUE_SIZE
    BY <1>1, AtFacts
  <2> QED
    BY <2>1, InputQueueAssumption DEF Used, Slots
<1>3. ASSUME NEW i \in 1 .. Used(r, w)
      PROVE  At(r, i) \in Slots \ {w}
  <2>1. i \in 1 .. INPUT_QUEUE_SIZE
    BY UsedFacts, InputQueueAssumption
  <2>2. /\ At(r, i) \in Slots
        /\ At(r, i) = IF r + i - 1 < INPUT_QUEUE_SIZE
                      THEN r + i - 1 ELSE r + i - 1 - INPUT_QUEUE_SIZE
    BY <2>1, AtFacts
  <2> QED
    BY <2>1, <2>2, InputQueueAssumption DEF Used, Slots
<1> QED
  BY <1>2, <1>3

(* What a slot may hold. *)
Items == Event \cup {NoEvent}

(* The content is a sequence of Used(r, w) events. *)
LEMMA EventsFacts ==
  ASSUME NEW q \in [Slots -> Items], NEW r \in Slots, NEW w \in Slots
  PROVE  /\ Events(q, r, w) \in Seq(Items)
         /\ Len(Events(q, r, w)) = Used(r, w)
         /\ \A i \in 1 .. Used(r, w) : Events(q, r, w)[i] = q[At(r, i)]
<1>1. Events(q, r, w) \in [1 .. Used(r, w) -> Items]
  BY AtWrite DEF Events
<1>2. Used(r, w) \in Nat
  BY UsedFacts
<1> QED
  BY <1>1, <1>2 DEF Events

(* Nothing is between an index and itself. *)
LEMMA EventsEmpty ==
  ASSUME NEW q \in [Slots -> Items], NEW r \in Slots
  PROVE  Events(q, r, r) = <<>>
<1>1. Events(q, r, r) \in Seq(Items) /\ Len(Events(q, r, r)) = 0
  BY EventsFacts, UsedFacts
<1> QED
  BY <1>1, EmptySeq

(* Moving the write index appends the slot it pointed to. *)
LEMMA EventsAppend ==
  ASSUME NEW q \in [Slots -> Items], NEW r \in Slots, NEW w \in Slots,
         Succ(w) # r
  PROVE  Events(q, r, Succ(w)) = Append(Events(q, r, w), q[w])
<1> DEFINE old == Events(q, r, w)
           new == Events(q, r, Succ(w))
           n == Used(r, w)
<1>1. Succ(w) \in Slots /\ q[w] \in Items
  BY SuccFacts
<1>2. n \in Nat /\ Used(r, Succ(w)) = n + 1
  BY UsedFacts
<1>3. /\ old \in Seq(Items) /\ Len(old) = n
      /\ \A i \in 1 .. n : old[i] = q[At(r, i)]
  BY EventsFacts
<1>4. /\ new \in Seq(Items) /\ Len(new) = n + 1
      /\ \A i \in 1 .. n + 1 : new[i] = q[At(r, i)]
  <2>1. ASSUME NEW v \in Slots
        PROVE  /\ Events(q, r, v) \in Seq(Items) /\ Len(Events(q, r, v)) = Used(r, v)
               /\ \A i \in 1 .. Used(r, v) : Events(q, r, v)[i] = q[At(r, i)]
    BY EventsFacts
  <2> QED
    BY <1>1, <1>2, <2>1
<1>5. At(r, n + 1) = w
  BY AtWrite
<1> HIDE DEF old, new, n
<1>6. /\ Append(old, q[w]) \in Seq(Items)
      /\ Len(Append(old, q[w])) = n + 1
      /\ \A i \in 1 .. n : Append(old, q[w])[i] = old[i]
      /\ Append(old, q[w])[n + 1] = q[w]
  BY <1>1, <1>3, AppendProperties
<1>7. \A i \in 1 .. n + 1 : new[i] = Append(old, q[w])[i]
  BY <1>2, <1>3, <1>4, <1>5, <1>6
<1> QED
  BY <1>4, <1>6, <1>7, SeqEqual DEF old, new

(* Moving the read index takes the first event. *)
LEMMA EventsTail ==
  ASSUME NEW q \in [Slots -> Items], NEW r \in Slots, NEW w \in Slots,
         r # w
  PROVE  /\ Events(q, r, w) # <<>>
         /\ Head(Events(q, r, w)) = q[r]
         /\ Events(q, Succ(r), w) = Tail(Events(q, r, w))
<1> DEFINE old == Events(q, r, w)
           new == Events(q, Succ(r), w)
           n == Used(r, w)
<1>1. Succ(r) \in Slots
  BY SuccFacts
<1>2. n \in Nat /\ n # 0 /\ n \in 0 .. INPUT_QUEUE_SIZE - 1 /\ Used(Succ(r), w) = n - 1
  BY UsedFacts
<1>3. /\ old \in Seq(Items) /\ Len(old) = n
      /\ \A i \in 1 .. n : old[i] = q[At(r, i)]
  BY EventsFacts
<1>4. /\ new \in Seq(Items) /\ Len(new) = n - 1
      /\ \A i \in 1 .. n - 1 : new[i] = q[At(Succ(r), i)]
  <2>1. ASSUME NEW v \in Slots
        PROVE  /\ Events(q, v, w) \in Seq(Items) /\ Len(Events(q, v, w)) = Used(v, w)
               /\ \A i \in 1 .. Used(v, w) : Events(q, v, w)[i] = q[At(v, i)]
    BY EventsFacts
  <2> QED
    BY <1>1, <1>2, <2>1
<1> HIDE DEF old, new, n
<1>5. old # <<>>
  BY <1>2, <1>3, EmptySeq
<1>6. Head(old) = q[r]
  <2>1. Head(old) = old[1]
    BY <1>3, <1>5
  <2> QED
    BY <2>1, <1>2, <1>3, AtSucc
<1>7. /\ Tail(old) \in Seq(Items) /\ Len(Tail(old)) = n - 1
      /\ \A i \in 1 .. n - 1 : Tail(old)[i] = old[i + 1]
  BY <1>3, <1>5, HeadTailProperties
<1>8. ASSUME NEW i \in 1 .. n - 1
      PROVE  new[i] = Tail(old)[i]
  <2>1. i \in 1 .. INPUT_QUEUE_SIZE - 1 /\ i + 1 \in 1 .. n
    BY <1>2, InputQueueAssumption
  <2> QED
    BY <1>3, <1>4, <1>7, <2>1, AtSucc
<1> QED
  BY <1>4, <1>5, <1>6, <1>7, <1>8, SeqEqual DEF old, new

(* The slot at the write index is outside the content. *)
LEMMA EventsFrame ==
  ASSUME NEW p, NEW q, NEW r \in Slots, NEW w \in Slots,
         \A i \in Slots \ {w} : p[i] = q[i]
  PROVE  Events(p, r, w) = Events(q, r, w)
<1>1. \A i \in 1 .. Used(r, w) : p[At(r, i)] = q[At(r, i)]
  BY AtWrite
<1> QED
  BY <1>1 DEF Events

-----------------------------------------------------------------------------
(* The refinement. *)

(* The events of the running compositor's queue. *)
Ring == Events(g_input_queue, g_input_read, g_input_write)

(* Fifo!Init holds initially: nothing offered, nothing queued. *)
LEMMA InitFifo == Init => Fifo!Init
<1> SUFFICES ASSUME Init
             PROVE  Fifo!Init
  OBVIOUS
<1>1. g_input_queue \in [Slots -> Items] /\ 0 \in Slots
  BY InputQueueAssumption DEF Init, Slots, Items
<1>2. Content = <<>>
  BY <1>1, EventsEmpty DEF Init, Content
<1>3. Offered = [p \in Producers |-> NoEvent]
  BY DEF Init, Offered
<1> QED
  BY <1>2, <1>3 DEF Init, Fifo!Init

(* The steps of queue_input(): Call offers, Full refuses, Publish accepts, *)
(* the others stutter.                                                     *)
LEMMA ProducerRefines ==
  ASSUME Environment, IInv,
         NEW p \in Producers,
         (\E e \in Event : Call(p, e)) \/ QueueInput(p)
  PROVE  [Fifo!Next]_<<Offered, Content, out>>
<1>1. TypeOK /\ ProducerInv /\ InputQueueAssumption
  BY InputQueueAssumption DEF IInv
<1>2. /\ g_input_queue \in [Slots -> Items]
      /\ g_input_read \in Slots /\ g_input_write \in Slots
  BY <1>1 DEF TypeOK, Items
<1>3. ASSUME NEW e \in Event, Call(p, e)
      PROVE  Fifo!Offer(p, e)
  <2>1. Offered[p] = NoEvent /\ Offered' = [Offered EXCEPT ![p] = e]
    BY <1>1, <1>3 DEF Call, Offered, TypeOK
  <2>2. Content' = Content /\ out' = out
    BY <1>3 DEF Call, Content, ringVars, drainVars
  <2> QED
    BY <2>1, <2>2 DEF Fifo!Offer
<1>4. CASE Full(p)
  <2>1. /\ cpc # "reset"
        /\ Offered[p] # NoEvent
        /\ Offered' = [Offered EXCEPT ![p] = NoEvent]
    BY <1>1, <1>4 DEF Full, Offered, TypeOK, ProducerInv
  <2>2. Used(g_input_read, g_input_write) = INPUT_QUEUE_SIZE - 1
    BY <1>1, <1>2, <1>4, UsedFacts DEF Full, ProducerInv
  <2>3. Len(Content) = INPUT_QUEUE_SIZE - 1
    BY <1>2, <2>1, <2>2, EventsFacts DEF Content
  <2>4. Content' = Content /\ out' = out
    BY <1>4 DEF Full, Content, ringVars, drainVars
  <2> QED
    BY <2>1, <2>3, <2>4 DEF Fifo!Next, Fifo!Refuse
<1>5. CASE NotFull(p) \/ Address(p)
  <2>1. Offered' = Offered
    BY <1>1, <1>5 DEF NotFull, Address, Offered, TypeOK
  <2>2. Content' = Content /\ out' = out
    BY <1>5 DEF NotFull, Address, Content, ringVars, drainVars
  <2> QED
    BY <2>1, <2>2
<1>6. CASE Store(p)
  <2>1. Offered' = Offered /\ slot[p] = g_input_write
    BY <1>1, <1>6 DEF Store, Offered, TypeOK, ProducerInv
  <2>2. /\ g_input_queue' = [g_input_queue EXCEPT ![g_input_write] = ev[p]]
        /\ UNCHANGED <<g_input_read, g_input_write, cpc, out>>
    BY <1>6, <2>1 DEF Store, drainVars
  <2>3. \A i \in Slots \ {g_input_write} : g_input_queue'[i] = g_input_queue[i]
    BY <1>2, <2>2
  <2>4. Events(g_input_queue', g_input_read, g_input_write) = Ring
    BY <1>2, <2>3, EventsFrame DEF Ring
  <2> QED
    BY <2>1, <2>2, <2>4 DEF Content, Ring
<1>7. CASE Publish(p)
  <2>1. /\ pc[p] = "index" /\ cpc # "reset" /\ ev[p] \in Event
        /\ g_input_write' = Succ(g_input_write)
        /\ Succ(g_input_write) # g_input_read
        /\ g_input_queue[g_input_write] = ev[p]
        /\ UNCHANGED <<g_input_read, g_input_queue, cpc, out, ev>>
        /\ pc' = [pc EXCEPT ![p] = "idle"]
    BY <1>1, <1>7 DEF Publish, ProducerInv, Environment, drainVars
  <2>2. Offered[p] = ev[p] /\ Offered' = [Offered EXCEPT ![p] = NoEvent]
    BY <1>1, <2>1 DEF Offered, TypeOK
  <2>3. Content' = Append(Content, Offered[p])
    <3>1. Events(g_input_queue, g_input_read, Succ(g_input_write))
            = Append(Ring, g_input_queue[g_input_write])
      BY <1>2, <2>1, EventsAppend DEF Ring
    <3>2. Content = Ring
      BY <2>1 DEF Content, Ring
    <3>3. Content' = Events(g_input_queue, g_input_read, Succ(g_input_write))
      BY <2>1 DEF Content
    <3> QED
      BY <2>1, <2>2, <3>1, <3>2, <3>3
  <2>4. Len(Content) < INPUT_QUEUE_SIZE - 1
    <3>1. Len(Content) = Used(g_input_read, g_input_write)
      BY <1>2, <2>1, EventsFacts DEF Content
    <3> QED
      BY <1>2, <2>1, <3>1, UsedFacts, InputQueueAssumption
  <2> QED
    BY <1>1, <2>1, <2>2, <2>3, <2>4 DEF Fifo!Next, Fifo!Accept
<1> QED
  BY <1>3, <1>4, <1>5, <1>6, <1>7 DEF QueueInput, Fifo!Next

(* The steps of the compositor thread: the first store of the reset clears *)
(* the queue, Advance delivers its head, the others stutter.               *)
LEMMA ConsumerRefines ==
  ASSUME Environment, IInv,
         ResetRead \/ ResetWrite \/ Stop \/ Tick \/ Drain
  PROVE  [Fifo!Next]_<<Offered, Content, out>>
<1>1. /\ g_input_queue \in [Slots -> Items]
      /\ g_input_read \in Slots /\ g_input_write \in Slots
  BY DEF IInv, TypeOK, Items
<1>2. Offered' = Offered
  BY DEF ResetRead, ResetWrite, Stop, Tick, Drain, DrainTest, Copy, Advance,
         callVars, Offered
<1>3. CASE ResetRead
  BY <1>2, <1>3 DEF ResetRead, Content, Fifo!Next, Fifo!Clear
<1>4. CASE ResetWrite
  <2>1. /\ cpc = "reset" /\ cpc' = "idle" /\ out' = out
        /\ g_input_queue' = g_input_queue
        /\ g_input_read' = g_input_write'
        /\ g_input_read' \in Slots
    BY <1>1, <1>4 DEF ResetWrite, IInv, ConsumerInv
  <2>2. Events(g_input_queue, g_input_read', g_input_read') = <<>>
    BY <1>1, <2>1, EventsEmpty
  <2> QED
    BY <1>2, <2>1, <2>2 DEF Content
<1>5. CASE Stop \/ Tick \/ DrainTest \/ Copy
  BY <1>2, <1>5 DEF Stop, Tick, DrainTest, Copy, ringVars, Content
<1>6. CASE Advance
  <2>1. /\ cpc = "advance" /\ cpc' = "drain"
        /\ g_input_read # g_input_write
        /\ g_input_read' = Succ(g_input_read)
        /\ out' = g_input_queue[g_input_read]
        /\ UNCHANGED <<g_input_queue, g_input_write>>
    BY <1>6 DEF Advance, IInv, ConsumerInv
  <2>2. /\ Content = Ring /\ Content' = Events(g_input_queue, Succ(g_input_read), g_input_write)
    BY <2>1 DEF Content, Ring
  <2>3. /\ Ring # <<>>
        /\ Head(Ring) = g_input_queue[g_input_read]
        /\ Events(g_input_queue, Succ(g_input_read), g_input_write) = Tail(Ring)
    BY <1>1, <2>1, EventsTail DEF Ring
  <2> QED
    BY <1>2, <2>1, <2>2, <2>3 DEF Fifo!Next, Fifo!Deliver
<1> QED
  BY <1>3, <1>4, <1>5, <1>6 DEF Drain

(* FifoSpec: every accepted event is dispatched exactly once and in order, *)
(* and an event is dropped only when the ring is full.                     *)
THEOREM RingIsFifo ==
  ASSUME Environment
  PROVE  Spec => FifoSpec
<1>1. IInv /\ [Next]_vars => [Fifo!Next]_<<Offered, Content, out>>
  <2> SUFFICES ASSUME IInv, [Next]_vars
               PROVE  [Fifo!Next]_<<Offered, Content, out>>
    OBVIOUS
  <2>1. CASE Next
    BY <2>1, ProducerRefines, ConsumerRefines DEF Next
  <2>2. CASE UNCHANGED vars
    BY <2>2 DEF vars, ringVars, callVars, drainVars, Offered, Content
  <2> QED
    BY <2>1, <2>2
<1> QED
  BY <1>1, InitFifo, Inductive, PTL DEF Spec, FifoSpec, Fifo!Spec, Fifo!vars
=============================================================================
