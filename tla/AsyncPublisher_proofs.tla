------------------------- MODULE AsyncPublisher_proofs -------------------------
(***************************************************************************)
(* Proofs about the asynchronous publisher, for every number of Publish    *)
(* calls, workers and closers, every buffer size and every window size.    *)
(***************************************************************************)
EXTENDS AsyncPublisher, FiniteSetTheorems, TLAPS

-------------------------------------------------------------------------------
(* The ring of recent results. *)

WindowType(w) ==
    /\ w.results \in [0..(FailureWindow - 1) -> BOOLEAN]
    /\ w.next \in 0..(FailureWindow - 1)
    /\ w.count \in 0..FailureWindow
    /\ w.failures \in 0..FailureWindow

FailedSlots(w) == {i \in 0..(w.count - 1) : ~w.results[i]}

WindowOK(w) ==
    /\ w.failures = Cardinality(FailedSlots(w))
    /\ w.count < FailureWindow => w.next = w.count

\* The index of the ring stays in range, and grows by one below the end.
LEMMA NextSlot ==
    ASSUME NEW n \in 0..(FailureWindow - 1)
    PROVE  /\ (n + 1) % FailureWindow \in 0..(FailureWindow - 1)
           /\ n + 1 < FailureWindow => (n + 1) % FailureWindow = n + 1
  BY OptionsAssumption

\* The failed slots of a window are finite, and no more than its length.
LEMMA FailedSlotsFinite ==
    ASSUME NEW w, WindowType(w)
    PROVE  /\ IsFiniteSet(FailedSlots(w))
           /\ Cardinality(FailedSlots(w)) \in Nat
           /\ Cardinality(FailedSlots(w)) <= FailureWindow
  <1>1. w.count \in Nat /\ w.count <= FailureWindow /\ FailureWindow \in Nat
    BY OptionsAssumption DEF WindowType
  <1>2. /\ IsFiniteSet(0..(w.count - 1))
        /\ Cardinality(0..(w.count - 1)) <= FailureWindow
    <2>1. /\ IsFiniteSet(0..(w.count - 1))
          /\ Cardinality(0..(w.count - 1)) =
                IF 0 > w.count - 1 THEN 0 ELSE (w.count - 1) - 0 + 1
      <3>1. w.count - 1 \in Int /\ 0 \in Int
        BY <1>1
      <3>2. QED
        BY <3>1, FS_Interval, Zenon
    <2>2. QED
      BY <1>1, <2>1
  <1>3. FailedSlots(w) \subseteq 0..(w.count - 1)
    BY DEF FailedSlots
  <1>4. /\ IsFiniteSet(FailedSlots(w))
        /\ Cardinality(FailedSlots(w)) <= Cardinality(0..(w.count - 1))
    <2>1. FailedSlots(w) \in SUBSET (0..(w.count - 1))
      BY <1>3
    <2>2. IsFiniteSet(0..(w.count - 1))
      BY <1>2
    <2>3. QED
      BY <2>1, <2>2, FS_Subset
  <1>5. Cardinality(FailedSlots(w)) \in Nat /\ Cardinality(0..(w.count - 1)) \in Nat
    BY <1>2, <1>4, FS_CardinalityType
  <1>6. QED
    BY <1>1, <1>2, <1>4, <1>5

\* record keeps the ring and its counters consistent: what (*publishWindow).record
\* subtracts for the evicted slot and adds for the new result is what the set of
\* failed slots loses and gains.
LEMMA RecordWindow ==
    ASSUME NEW w, WindowType(w), WindowOK(w), NEW success \in BOOLEAN
    PROVE  WindowType(record(w, success)) /\ WindowOK(record(w, success))
  <1> DEFINE r    == record(w, success)
             full == w.count = FailureWindow
             S    == FailedSlots(w)
             T    == S \ {w.next}
  <1>1. FailureWindow \in Nat \ {0}
    BY OptionsAssumption
  <1>2. /\ r.results = [w.results EXCEPT ![w.next] = success]
        /\ r.next = (w.next + 1) % FailureWindow
        /\ r.count = IF full THEN w.count ELSE w.count + 1
        /\ r.failures = w.failures - (IF full /\ ~w.results[w.next] THEN 1 ELSE 0)
                                   + (IF success THEN 0 ELSE 1)
    BY DEF record
  <1>3. IsFiniteSet(S) /\ Cardinality(S) \in Nat /\ w.failures = Cardinality(S)
    BY FailedSlotsFinite DEF WindowOK
  <1>4. w.next \in S <=> full /\ ~w.results[w.next]
    BY <1>1 DEF FailedSlots, WindowType, WindowOK
  <1>5. /\ IsFiniteSet(T)
        /\ Cardinality(T) = Cardinality(S) - (IF full /\ ~w.results[w.next] THEN 1 ELSE 0)
    <2>1. CASE w.next \in S
      <3>1. IsFiniteSet(T) /\ Cardinality(T) = Cardinality(S) - 1
        BY <2>1, <1>3, FS_RemoveElement
      <3>2. (IF full /\ ~w.results[w.next] THEN 1 ELSE 0) = 1
        BY <2>1, <1>4, Zenon
      <3>3. QED
        BY <3>1, <3>2
    <2>2. CASE w.next \notin S
      <3>1. T = S
        BY <2>2
      <3>2. QED
        BY <3>1, <2>2, <1>3, <1>4
    <2>3. QED
      BY <2>1, <2>2
  <1>6. FailedSlots(r) = IF success THEN T ELSE T \cup {w.next}
    <2>1. w.next \in 0..(r.count - 1)
      BY <1>1, <1>2 DEF WindowType, WindowOK
    <2>2. \A i \in 0..(FailureWindow - 1) :
             r.results[i] = IF i = w.next THEN success ELSE w.results[i]
      BY <1>2 DEF WindowType
    <2>3. \A i \in Int : i # w.next =>
             (i \in 0..(r.count - 1) <=> i \in 0..(w.count - 1))
      <3>1. w.count \in Nat /\ w.next \in Nat /\ (w.count < FailureWindow => w.next = w.count)
        BY <1>1 DEF WindowType, WindowOK
      <3>2. CASE full
        BY <3>2, <1>2
      <3>3. CASE ~full
        <4>1. r.count = w.count + 1 /\ w.next = w.count
          BY <1>1, <1>2, <3>1, <3>3 DEF WindowType
        <4>2. QED
          BY <3>1, <4>1
      <3>4. QED
        BY <3>2, <3>3
    <2>4. 0..(r.count - 1) \subseteq 0..(FailureWindow - 1)
      BY <1>1, <1>2 DEF WindowType
    <2>5. 0..(w.count - 1) \subseteq 0..(FailureWindow - 1)
      BY <1>1 DEF WindowType
    <2>6. \A i \in 0..(r.count - 1) : i # w.next => r.results[i] = w.results[i]
      BY <2>2, <2>4
    <2>7. r.results[w.next] = success
      BY <2>1, <2>2, <2>4
    <2>8. QED
      BY <2>1, <2>3, <2>6, <2>7 DEF FailedSlots
  <1>7. Cardinality(FailedSlots(r)) = Cardinality(T) + (IF success THEN 0 ELSE 1)
    <2>1. CASE success
      <3>1. Cardinality(T) \in Nat /\ FailedSlots(r) = T
        BY <2>1, <1>5, <1>6, FS_CardinalityType
      <3>2. (IF success THEN 0 ELSE 1) = 0
        BY <2>1, Zenon
      <3>3. QED
        BY <3>1, <3>2
    <2>2. CASE ~success
      <3>1. FailedSlots(r) = T \cup {w.next} /\ w.next \notin T
        BY <2>2, <1>6
      <3>2. Cardinality(T \cup {w.next}) = Cardinality(T) + 1
        BY <3>1, <1>5, FS_AddElement
      <3>3. QED
        BY <2>2, <3>1, <3>2
    <2>3. QED
      BY <2>1, <2>2
  <1>8. r.failures = Cardinality(FailedSlots(r))
    <2>1. Cardinality(T) \in Nat
      BY <1>5, FS_CardinalityType
    <2>2. QED
      <3>1. r.failures = Cardinality(S) - (IF full /\ ~w.results[w.next] THEN 1 ELSE 0)
                            + (IF success THEN 0 ELSE 1)
        BY <1>2, <1>3
      <3>2. r.failures = Cardinality(T) + (IF success THEN 0 ELSE 1)
        BY <3>1, <1>5
      <3>3. QED
        BY <3>2, <1>7
  <1>9. r.count < FailureWindow => r.next = r.count
    BY <1>1, <1>2, NextSlot DEF WindowType, WindowOK
  <1>10. /\ r.results \in [0..(FailureWindow - 1) -> BOOLEAN]
         /\ r.next \in 0..(FailureWindow - 1)
         /\ r.count \in 0..FailureWindow
    <2>1. r.results \in [0..(FailureWindow - 1) -> BOOLEAN]
      <3>1. w.results \in [0..(FailureWindow - 1) -> BOOLEAN]
        BY DEF WindowType
      <3>2. QED
        BY <1>2, <3>1
    <2>2. r.next \in 0..(FailureWindow - 1)
      BY <1>2, NextSlot DEF WindowType
    <2>3. r.count \in 0..FailureWindow
      BY <1>1, <1>2 DEF WindowType
    <2>4. QED
      BY <2>1, <2>2, <2>3
  <1>11. r.failures \in 0..FailureWindow
    <2>1. 0..(r.count - 1) \subseteq 0..(FailureWindow - 1)
      BY <1>1, <1>10
    <2>2. FailedSlots(r) \subseteq 0..(FailureWindow - 1)
      BY <2>1 DEF FailedSlots
    <2>3. /\ IsFiniteSet(0..(FailureWindow - 1))
          /\ Cardinality(0..(FailureWindow - 1)) = FailureWindow
      BY <1>1, FS_Interval
    <2>4. /\ Cardinality(FailedSlots(r)) <= FailureWindow
          /\ IsFiniteSet(FailedSlots(r))
      <3>1. FailedSlots(r) \in SUBSET (0..(FailureWindow - 1))
        BY <2>2
      <3>2. /\ IsFiniteSet(FailedSlots(r))
            /\ Cardinality(FailedSlots(r)) <= Cardinality(0..(FailureWindow - 1))
        BY <3>1, <2>3, FS_Subset
      <3>3. QED
        BY <3>2, <2>3
    <2>5. QED
      BY <1>1, <1>8, <2>4, FS_CardinalityType
  <1>12. QED
    BY <1>8, <1>9, <1>10, <1>11 DEF WindowType, WindowOK

-------------------------------------------------------------------------------
(* The inductive invariant. *)

\* A worker leaves its loop only when the channel is closed and empty, a Close
\* call has closed the channel, and returns only when every worker has left.
ShutdownOrder ==
    /\ \A w \in Workers : wpc[w] = "exited" => closed /\ ch = <<>>
    /\ \A k \in Closers : closer[k] # "idle" => closed
    /\ \A k \in Closers : closer[k] = "returned" => \A w \in Workers : wpc[w] = "exited"

Inv == /\ TypeOK
       /\ NoAcceptedEventLost
       /\ NoEventProcessedTwice
       /\ ShutdownOrder
       /\ WindowConsistent

\* What Append adds and what Tail leaves, element by element.
LEMMA AppendElements ==
    ASSUME NEW S, NEW s \in Seq(S), NEW e \in S
    PROVE  /\ Append(s, e) \in Seq(S)
           /\ Len(Append(s, e)) = Len(s) + 1
           /\ DOMAIN Append(s, e) = 1..(Len(s) + 1)
           /\ \A i \in 1..Len(s) : Append(s, e)[i] = s[i]
           /\ Append(s, e)[Len(s) + 1] = e
  OBVIOUS

\* What Tail leaves, element by element.
LEMMA TailElements ==
    ASSUME NEW S, NEW s \in Seq(S), s # <<>>
    PROVE  /\ Head(s) \in S
           /\ Head(s) = s[1]
           /\ Len(s) \in Nat \ {0}
           /\ Tail(s) \in Seq(S)
           /\ Len(Tail(s)) = Len(s) - 1
           /\ DOMAIN Tail(s) = 1..(Len(s) - 1)
           /\ \A i \in 1..(Len(s) - 1) : Tail(s)[i] = s[i + 1]
  OBVIOUS

\* The invariant holds initially: nothing is sent, taken or recorded.
LEMMA InitInv == Init => Inv
  <1> SUFFICES ASSUME Init PROVE Inv
    OBVIOUS
  <1>1. TypeOK
    <2>1. /\ ch \in Seq(Events) /\ Len(ch) <= Buffer /\ history \in Seq(BOOLEAN)
          /\ closed \in BOOLEAN
      <3>1. ch \in Seq(Events) /\ history \in Seq(BOOLEAN)
        BY DEF Init
      <3>2. Len(ch) = 0
        BY DEF Init
      <3>3. Len(ch) <= Buffer
        BY <3>2, OptionsAssumption
      <3>4. closed \in BOOLEAN
        BY Zenon DEF Init
      <3>5. QED
        BY <3>1, <3>3, <3>4
    <2>2. /\ pub \in [Events -> PubStates]
          /\ closer \in [Closers -> {"idle", "waiting", "returned"}]
          /\ wpc \in [Workers -> Busy \cup {"receive", "exited"}]
          /\ cur \in [Workers -> Events \cup {None}]
          /\ settled \in [Events -> Outcomes]
      BY DEF Init, PubStates, Outcomes
    <2>3. /\ stats.results = [i \in 0..(FailureWindow - 1) |-> FALSE]
          /\ stats.next = 0 /\ stats.count = 0 /\ stats.failures = 0
      BY DEF Init, newPublishWindow
    <2>4. stats.results \in [0..(FailureWindow - 1) -> BOOLEAN]
      BY <2>3, Zenon
    <2>5. /\ stats.next \in 0..(FailureWindow - 1)
          /\ stats.count \in 0..FailureWindow
          /\ stats.failures \in 0..FailureWindow
      BY <2>3, OptionsAssumption
    <2>6. QED
      BY <2>1, <2>2, <2>4, <2>5 DEF TypeOK
  <1>2. NoAcceptedEventLost /\ NoEventProcessedTwice /\ ShutdownOrder
    BY DEF Init, NoAcceptedEventLost, NoEventProcessedTwice, ShutdownOrder, Busy
  <1>3. WindowConsistent
    <2>1. stats.count = 0 /\ stats.failures = 0 /\ stats.next = 0
      BY DEF Init, newPublishWindow
    <2>2. {i \in 0..(stats.count - 1) : ~stats.results[i]} = {}
      BY <2>1
    <2>3. QED
      BY <2>1, <2>2, FS_EmptySet DEF WindowConsistent
  <1>4. QED
    BY <1>1, <1>2, <1>3 DEF Inv

\* Publish up to the send changes only where the call stands.
LEMMA PublishCheckInv ==
    ASSUME Inv, NEW e \in Events, PublishCheck(e)
    PROVE  Inv'
  <1> USE DEF Inv
  <1>1. /\ pub[e] = "start"
        /\ pub' \in [Events -> PubStates]
        /\ pub'[e] # "accepted"
        /\ \A f \in Events \ {e} : pub'[f] = pub[f]
        /\ UNCHANGED <<ch, closed, closer, wpc, cur, stats, settled, history>>
    BY DEF PublishCheck, TypeOK, PubStates
  <1>2. TypeOK'
    BY <1>1 DEF TypeOK
  <1>3. NoAcceptedEventLost'
    BY <1>1 DEF NoAcceptedEventLost, TypeOK, Queued, Held, HeldBy
  <1>4. NoEventProcessedTwice'
    BY <1>1 DEF NoEventProcessedTwice, TypeOK, Queued
  <1>5. ShutdownOrder' /\ WindowConsistent'
    BY <1>1 DEF ShutdownOrder, WindowConsistent
  <1>6. QED
    BY <1>2, <1>3, <1>4, <1>5

\* The send puts the event at the end of the channel, or refuses it.
LEMMA PublishSendInv ==
    ASSUME Inv, NEW e \in Events, PublishSend(e)
    PROVE  Inv'
  <1> USE DEF Inv
  <1>1. CASE /\ ~closed
             /\ Len(ch) < Buffer
             /\ ch' = Append(ch, e)
             /\ pub' = [pub EXCEPT ![e] = "accepted"]
    <2>1. /\ pub[e] = "admitted"
          /\ pub' \in [Events -> PubStates]
          /\ pub'[e] = "accepted"
          /\ \A f \in Events \ {e} : pub'[f] = pub[f]
          /\ UNCHANGED <<closed, closer, wpc, cur, stats, settled, history>>
      BY <1>1 DEF PublishSend, TypeOK, PubStates
    <2>2. /\ ch' \in Seq(Events)
          /\ Len(ch') = Len(ch) + 1
          /\ DOMAIN ch' = 1..(Len(ch) + 1)
          /\ DOMAIN ch = 1..Len(ch)
          /\ Len(ch) \in Nat
          /\ \A i \in 1..Len(ch) : ch'[i] = ch[i]
          /\ ch'[Len(ch) + 1] = e
      BY <1>1, AppendElements DEF TypeOK
    <2>3. settled[e] = "no" /\ (\A i \in DOMAIN ch : ch[i] # e)
          /\ (\A w \in Workers : wpc[w] \in Busy => cur[w] # e)
      BY <2>1 DEF NoEventProcessedTwice
    <2>4. TypeOK'
      BY <1>1, <2>1, <2>2, OptionsAssumption DEF TypeOK
    <2>5. NoAcceptedEventLost'
      <3> SUFFICES ASSUME NEW f \in Events, pub'[f] = "accepted", settled'[f] = "no"
                   PROVE  Queued(f)' \/ Held(f)'
        BY DEF NoAcceptedEventLost
      <3>1. CASE f = e
        BY <3>1, <2>2 DEF Queued
      <3>2. CASE f # e
        <4>1. Queued(f) \/ Held(f)
          BY <3>2, <2>1 DEF NoAcceptedEventLost
        <4>2. CASE Queued(f)
          BY <4>2, <2>2 DEF Queued
        <4>3. CASE Held(f)
          BY <4>3, <2>1 DEF Held, HeldBy
        <4>4. QED
          BY <4>1, <4>2, <4>3
      <3>3. QED
        BY <3>1, <3>2
    <2>6. NoEventProcessedTwice'
      <3>1. \A f \in Events : settled'[f] # "no" => pub'[f] = "accepted"
        BY <2>1 DEF NoEventProcessedTwice
      <3>2. \A i \in DOMAIN ch' : pub'[ch'[i]] = "accepted" /\ settled'[ch'[i]] = "no"
        BY <2>1, <2>2, <2>3 DEF NoEventProcessedTwice, TypeOK
      <3>3. \A i, j \in DOMAIN ch' : i # j => ch'[i] # ch'[j]
        BY <2>2, <2>3 DEF NoEventProcessedTwice
      <3>4. ASSUME NEW w \in Workers, wpc'[w] \in Busy
            PROVE  /\ cur'[w] \in Events
                   /\ pub'[cur'[w]] = "accepted"
                   /\ settled'[cur'[w]] = "no"
                   /\ ~Queued(cur[w])'
        BY <3>4, <2>1, <2>2, <2>3 DEF NoEventProcessedTwice, Queued
      <3>5. \A v, w \in Workers :
               v # w /\ wpc'[v] \in Busy /\ wpc'[w] \in Busy => cur'[v] # cur'[w]
        BY <2>1 DEF NoEventProcessedTwice
      <3>6. QED
        BY <3>1, <3>2, <3>3, <3>4, <3>5 DEF NoEventProcessedTwice
    <2>7. ShutdownOrder' /\ WindowConsistent'
      BY <1>1, <2>1 DEF ShutdownOrder, WindowConsistent
    <2>8. QED
      BY <2>4, <2>5, <2>6, <2>7
  <1>2. CASE UNCHANGED ch
    <2>1. /\ pub[e] = "admitted"
          /\ pub' \in [Events -> PubStates]
          /\ \A f \in Events \ {e} : pub'[f] = pub[f]
          /\ UNCHANGED <<closed, closer, wpc, cur, stats, settled, history>>
      BY DEF PublishSend, TypeOK, PubStates
    <2>2. pub'[e] # "accepted"
      <3>1. CASE ch' = Append(ch, e)
        <4>1. Len(ch') = Len(ch) + 1 /\ Len(ch) \in Nat
          BY <3>1, AppendElements DEF TypeOK
        <4>2. QED
          BY <4>1, <1>2
      <3>2. QED
        BY <3>1 DEF PublishSend, TypeOK
    <2>3. TypeOK'
      BY <1>2, <2>1 DEF TypeOK
    <2>4. NoAcceptedEventLost'
      BY <1>2, <2>1, <2>2 DEF NoAcceptedEventLost, Queued, Held, HeldBy
    <2>5. NoEventProcessedTwice'
      BY <1>2, <2>1, <2>2 DEF NoEventProcessedTwice, TypeOK, Queued
    <2>6. ShutdownOrder' /\ WindowConsistent'
      BY <1>2, <2>1 DEF ShutdownOrder, WindowConsistent
    <2>7. QED
      BY <2>3, <2>4, <2>5, <2>6
  <1>3. QED
    BY <1>1, <1>2 DEF PublishSend

\* Close touches only the flag and the closers.
LEMMA CloseInv ==
    ASSUME Inv, NEW k \in Closers, Closer(k)
    PROVE  Inv'
  <1> USE DEF Inv
  <1>1. /\ UNCHANGED <<ch, pub, wpc, cur, stats, settled, history>>
        /\ closer' \in [Closers -> {"idle", "waiting", "returned"}]
        /\ closed' \in BOOLEAN
        /\ closed => closed'
    BY DEF Closer, CloseBegin, CloseReturn, TypeOK
  <1>2. TypeOK'
    BY <1>1 DEF TypeOK
  <1>3. NoAcceptedEventLost' /\ NoEventProcessedTwice' /\ WindowConsistent'
    BY <1>1 DEF NoAcceptedEventLost, NoEventProcessedTwice, WindowConsistent,
                Queued, Held, HeldBy
  <1>4. ShutdownOrder'
    BY DEF Closer, CloseBegin, CloseReturn, ShutdownOrder, TypeOK
  <1>5. QED
    BY <1>2, <1>3, <1>4

\* Taking the oldest event moves it from the channel to the worker.
LEMMA ReceiveInv ==
    ASSUME Inv, NEW w \in Workers, Receive(w)
    PROVE  Inv'
  <1> USE DEF Inv
  <1> DEFINE e == Head(ch)
  <1>1. /\ wpc[w] = "receive"
        /\ wpc'[w] = "publish"
        /\ cur'[w] = e
        /\ \A v \in Workers \ {w} : wpc'[v] = wpc[v] /\ cur'[v] = cur[v]
        /\ UNCHANGED <<closed, pub, closer, stats, settled, history>>
    BY DEF Receive, TypeOK
  <1>2. /\ e \in Events
        /\ e = ch[1]
        /\ Len(ch) \in Nat \ {0}
        /\ DOMAIN ch = 1..Len(ch)
        /\ ch' \in Seq(Events)
        /\ Len(ch') = Len(ch) - 1
        /\ DOMAIN ch' = 1..(Len(ch) - 1)
        /\ \A i \in 1..(Len(ch) - 1) : ch'[i] = ch[i + 1]
    BY TailElements DEF Receive, TypeOK
  <1>3. wpc[w] \notin Busy /\ "publish" \in Busy
    BY <1>1 DEF Busy
  <1>4. /\ pub[e] = "accepted"
        /\ settled[e] = "no"
        /\ \A i \in DOMAIN ch' : ch'[i] # e
        /\ \A v \in Workers : wpc[v] \in Busy => cur[v] # e
    <2>1. pub[e] = "accepted" /\ settled[e] = "no"
      BY <1>2 DEF NoEventProcessedTwice
    <2>2. \A i \in DOMAIN ch' : ch'[i] # e
      BY <1>2 DEF NoEventProcessedTwice
    <2>3. \A v \in Workers : wpc[v] \in Busy => cur[v] # e
      BY <1>2 DEF NoEventProcessedTwice, Queued
    <2>4. QED
      BY <2>1, <2>2, <2>3
  <1>5. TypeOK'
    <2>1. wpc' \in [Workers -> Busy \cup {"receive", "exited"}]
          /\ cur' \in [Workers -> Events \cup {None}]
      BY <1>2, <1>3 DEF Receive, TypeOK
    <2>2. Len(ch') <= Buffer
      BY <1>2, OptionsAssumption DEF TypeOK
    <2>3. QED
      BY <1>1, <1>2, <2>1, <2>2 DEF TypeOK
  <1>6. NoAcceptedEventLost'
    <2> SUFFICES ASSUME NEW f \in Events, pub'[f] = "accepted", settled'[f] = "no"
                 PROVE  Queued(f)' \/ Held(f)'
      BY DEF NoAcceptedEventLost
    <2>1. CASE f = e
      BY <2>1, <1>1, <1>3 DEF Held, HeldBy
    <2>2. CASE f # e /\ Queued(f)
      <3>1. PICK i \in 1..Len(ch) : ch[i] = f
        BY <2>2, <1>2 DEF Queued
      <3>2. i - 1 \in DOMAIN ch' /\ ch'[i - 1] = f
        BY <3>1, <2>2, <1>2
      <3>3. QED
        BY <3>2 DEF Queued
    <2>3. CASE Held(f)
      <3>1. PICK v \in Workers : HeldBy(v, f)
        BY <2>3 DEF Held
      <3>2. v # w
        BY <3>1, <1>3 DEF HeldBy
      <3>3. QED
        BY <3>1, <3>2, <1>1 DEF Held, HeldBy
    <2>4. QED
      BY <2>1, <2>2, <2>3, <1>1 DEF NoAcceptedEventLost
  <1>7. NoEventProcessedTwice'
    <2>1. \A f \in Events : settled'[f] # "no" => pub'[f] = "accepted"
      BY <1>1 DEF NoEventProcessedTwice
    <2>2. \A i \in DOMAIN ch' : pub'[ch'[i]] = "accepted" /\ settled'[ch'[i]] = "no"
      BY <1>1, <1>2 DEF NoEventProcessedTwice
    <2>3. \A i, j \in DOMAIN ch' : i # j => ch'[i] # ch'[j]
      <3>1. \A i, j \in DOMAIN ch : i # j => ch[i] # ch[j]
        BY DEF NoEventProcessedTwice
      <3>2. ASSUME NEW i \in DOMAIN ch', NEW j \in DOMAIN ch', i # j PROVE ch'[i] # ch'[j]
        <4>1. /\ i + 1 \in DOMAIN ch /\ j + 1 \in DOMAIN ch /\ i + 1 # j + 1
              /\ ch'[i] = ch[i + 1] /\ ch'[j] = ch[j + 1]
          BY <1>2, <3>2
        <4>2. QED
          BY <3>1, <4>1
      <3>3. QED
        BY <3>2
    <2>4. ASSUME NEW v \in Workers, wpc'[v] \in Busy
          PROVE  /\ cur'[v] \in Events
                 /\ pub'[cur'[v]] = "accepted"
                 /\ settled'[cur'[v]] = "no"
                 /\ ~Queued(cur[v])'
      <3>1. CASE v = w
        <4>1. /\ cur'[w] \in Events /\ pub'[cur'[w]] = "accepted" /\ settled'[cur'[w]] = "no"
          BY <3>1, <1>1, <1>2, <1>4
        <4>2. cur'[w] = Head(ch) /\ \A i \in DOMAIN ch' : ch'[i] # cur'[w]
          BY <3>1, <1>1, <1>2, <1>4
        <4>3. QED
          BY <3>1, <4>1, <4>2, <1>1, <1>2, <1>4 DEF Queued
      <3>2. CASE v # w
        <4>1. wpc[v] \in Busy /\ cur'[v] = cur[v]
          BY <3>2, <2>4, <1>1
        <4>2. /\ cur[v] \in Events
              /\ pub[cur[v]] = "accepted"
              /\ settled[cur[v]] = "no"
              /\ \A i \in DOMAIN ch : ch[i] # cur[v]
          BY <4>1 DEF NoEventProcessedTwice, Queued
        <4>3. \A i \in DOMAIN ch' : ch'[i] # cur[v]
          BY <4>2, <1>2
        <4>4. QED
          BY <4>1, <4>2, <4>3, <1>1 DEF Queued
      <3>3. QED
        BY <3>1, <3>2
    <2>5. \A u, v \in Workers :
             u # v /\ wpc'[u] \in Busy /\ wpc'[v] \in Busy => cur'[u] # cur'[v]
      BY <1>1, <1>4 DEF NoEventProcessedTwice
    <2>6. QED
      BY <2>1, <2>2, <2>3, <2>4, <2>5 DEF NoEventProcessedTwice
  <1>8. ShutdownOrder'
    <2>1. \A v \in Workers : wpc[v] # "exited"
      BY DEF Receive, ShutdownOrder
    <2>2. \A v \in Workers : wpc'[v] # "exited"
      BY <2>1, <1>1
    <2>3. QED
      BY <2>1, <2>2, <1>1, OptionsAssumption DEF ShutdownOrder
  <1>9. WindowConsistent'
    BY <1>1 DEF WindowConsistent
  <1>10. QED
    BY <1>5, <1>6, <1>7, <1>8, <1>9

\* Leaving the loop: the channel is closed and empty, and stays so.
LEMMA ExitInv ==
    ASSUME Inv, NEW w \in Workers, Exit(w)
    PROVE  Inv'
  <1> USE DEF Inv
  <1>1. /\ wpc[w] = "receive"
        /\ wpc'[w] = "exited"
        /\ wpc' \in [Workers -> Busy \cup {"receive", "exited"}]
        /\ \A v \in Workers \ {w} : wpc'[v] = wpc[v]
        /\ UNCHANGED <<ch, closed, pub, closer, cur, stats, settled, history>>
    BY DEF Exit, TypeOK
  <1>2. \A v \in Workers : wpc'[v] \in Busy <=> wpc[v] \in Busy
    BY <1>1 DEF Busy
  <1>3. TypeOK'
    BY <1>1 DEF TypeOK
  <1>4. NoAcceptedEventLost' /\ NoEventProcessedTwice' /\ WindowConsistent'
    BY <1>1, <1>2 DEF NoAcceptedEventLost, NoEventProcessedTwice, WindowConsistent,
                      Queued, Held, HeldBy
  <1>5. ShutdownOrder'
    BY <1>1 DEF Exit, ShutdownOrder
  <1>6. QED
    BY <1>3, <1>4, <1>5

\* A step of a worker that keeps its event: only where it stands changes.
LEMMA KeepEvent ==
    ASSUME Inv, NEW w \in Workers, wpc[w] \in Busy, NEW p \in Busy,
           wpc' = [wpc EXCEPT ![w] = p],
           UNCHANGED <<ch, closed, pub, closer, cur, settled>>
    PROVE  /\ wpc' \in [Workers -> Busy \cup {"receive", "exited"}]
           /\ NoAcceptedEventLost' /\ NoEventProcessedTwice' /\ ShutdownOrder'
  <1> USE DEF Inv
  <1>1. /\ wpc' \in [Workers -> Busy \cup {"receive", "exited"}]
        /\ wpc'[w] = p
        /\ \A v \in Workers \ {w} : wpc'[v] = wpc[v]
    BY DEF TypeOK
  <1>2. \A v \in Workers : wpc'[v] \in Busy <=> wpc[v] \in Busy
    BY <1>1
  <1>3. wpc[w] # "exited" /\ \A v \in Workers : wpc'[v] = "exited" <=> wpc[v] = "exited"
    BY <1>1 DEF Busy
  <1>4. NoAcceptedEventLost' /\ NoEventProcessedTwice'
    BY <1>1, <1>2 DEF NoAcceptedEventLost, NoEventProcessedTwice, Queued, Held, HeldBy
  <1>5. ShutdownOrder'
    BY <1>3 DEF ShutdownOrder
  <1>6. QED
    BY <1>1, <1>4, <1>5

\* A step of a worker that settles its event: nobody else has that event, so
\* the others are where they were.
LEMMA SettleEvent ==
    ASSUME Inv, NEW w \in Workers, wpc[w] \in Busy,
           NEW result \in Outcomes \ {"no"},
           settled' = [settled EXCEPT ![cur[w]] = result],
           wpc' = [wpc EXCEPT ![w] = "receive"],
           cur' = [cur EXCEPT ![w] = None],
           UNCHANGED <<ch, closed, pub, closer>>
    PROVE  /\ wpc' \in [Workers -> Busy \cup {"receive", "exited"}]
           /\ cur' \in [Workers -> Events \cup {None}]
           /\ settled' \in [Events -> Outcomes]
           /\ NoAcceptedEventLost' /\ NoEventProcessedTwice' /\ ShutdownOrder'
  <1> USE DEF Inv
  <1> DEFINE e == cur[w]
  <1>1. /\ e \in Events
        /\ pub[e] = "accepted"
        /\ \A i \in DOMAIN ch : ch[i] # e
        /\ \A v \in Workers \ {w} : wpc[v] \in Busy => cur[v] # e
    BY DEF NoEventProcessedTwice, Queued
  <1>2. /\ wpc' \in [Workers -> Busy \cup {"receive", "exited"}]
        /\ cur' \in [Workers -> Events \cup {None}]
        /\ settled' \in [Events -> Outcomes]
        /\ wpc'[w] = "receive"
        /\ settled'[e] # "no"
        /\ \A f \in Events \ {e} : settled'[f] = settled[f]
        /\ \A v \in Workers \ {w} : wpc'[v] = wpc[v] /\ cur'[v] = cur[v]
    BY <1>1 DEF TypeOK
  <1>3. "receive" \notin Busy /\ wpc[w] # "exited"
    BY DEF Busy
  <1>4. NoAcceptedEventLost'
    <2> SUFFICES ASSUME NEW f \in Events, pub'[f] = "accepted", settled'[f] = "no"
                 PROVE  Queued(f)' \/ Held(f)'
      BY DEF NoAcceptedEventLost
    <2>1. f # e /\ settled[f] = "no"
      BY <1>2
    <2>2. CASE Queued(f)
      BY <2>2 DEF Queued
    <2>3. CASE Held(f)
      BY <2>1, <2>3, <1>2 DEF Held, HeldBy
    <2>4. QED
      BY <2>1, <2>2, <2>3 DEF NoAcceptedEventLost
  <1>5. NoEventProcessedTwice'
    <2>1. \A f \in Events : settled'[f] # "no" => pub'[f] = "accepted"
      BY <1>1, <1>2 DEF NoEventProcessedTwice
    <2>2. \A i \in DOMAIN ch' : pub'[ch'[i]] = "accepted" /\ settled'[ch'[i]] = "no"
      BY <1>1, <1>2 DEF NoEventProcessedTwice, TypeOK
    <2>3. \A i, j \in DOMAIN ch' : i # j => ch'[i] # ch'[j]
      BY DEF NoEventProcessedTwice
    <2>4. ASSUME NEW v \in Workers, wpc'[v] \in Busy
          PROVE  /\ cur'[v] \in Events
                 /\ pub'[cur'[v]] = "accepted"
                 /\ settled'[cur'[v]] = "no"
                 /\ ~Queued(cur[v])'
      <3>1. v # w /\ wpc[v] \in Busy /\ cur'[v] = cur[v]
        BY <2>4, <1>2, <1>3
      <3>2. /\ cur[v] \in Events
            /\ pub[cur[v]] = "accepted"
            /\ settled[cur[v]] = "no"
            /\ ~Queued(cur[v])
        BY <3>1 DEF NoEventProcessedTwice
      <3>3. QED
        BY <3>1, <3>2, <1>1, <1>2 DEF Queued
    <2>5. \A u, v \in Workers :
             u # v /\ wpc'[u] \in Busy /\ wpc'[v] \in Busy => cur'[u] # cur'[v]
      BY <1>2, <1>3 DEF NoEventProcessedTwice
    <2>6. QED
      BY <2>1, <2>2, <2>3, <2>4, <2>5 DEF NoEventProcessedTwice
  <1>6. ShutdownOrder'
    BY <1>2, <1>3 DEF ShutdownOrder
  <1>7. QED
    BY <1>2, <1>4, <1>5, <1>6

\* Recording a result keeps the window consistent.
LEMMA RecordResult ==
    ASSUME Inv, NEW success \in BOOLEAN, stats' = record(stats, success),
           history' = Append(history, success)
    PROVE  /\ stats'.results \in [0..(FailureWindow - 1) -> BOOLEAN]
           /\ stats'.next \in 0..(FailureWindow - 1)
           /\ stats'.count \in 0..FailureWindow
           /\ stats'.failures \in 0..FailureWindow
           /\ history' \in Seq(BOOLEAN)
           /\ WindowConsistent'
  <1>1. WindowType(stats) /\ WindowOK(stats)
    BY DEF Inv, TypeOK, WindowConsistent, WindowType, WindowOK, FailedSlots
  <1>2. WindowType(record(stats, success)) /\ WindowOK(record(stats, success))
    BY <1>1, RecordWindow
  <1>3. WindowType(stats') /\ WindowOK(stats')
    BY <1>2
  <1>4. history' \in Seq(BOOLEAN)
    BY AppendElements DEF Inv, TypeOK
  <1>5. QED
    BY <1>3, <1>4 DEF WindowType, WindowOK, WindowConsistent, FailedSlots

\* Each step of a worker keeps the invariant.
LEMMA WorkerInv ==
    ASSUME Inv, NEW w \in Workers, Worker(w)
    PROVE  Inv'
  <1>1. CASE Receive(w)
    BY <1>1, ReceiveInv
  <1>2. CASE Exit(w)
    BY <1>2, ExitInv
  <1>3. CASE safePublish(w)
    <2>1. PICK p \in {"recordOK", "recordErr"} : wpc' = [wpc EXCEPT ![w] = p]
      BY <1>3 DEF safePublish
    <2>2. /\ wpc' \in [Workers -> Busy \cup {"receive", "exited"}]
          /\ NoAcceptedEventLost' /\ NoEventProcessedTwice' /\ ShutdownOrder'
      <3>1. wpc[w] \in Busy /\ p \in Busy
        BY <1>3 DEF safePublish, Busy
      <3>2. UNCHANGED <<ch, closed, pub, closer, cur, settled>>
        BY <1>3 DEF safePublish
      <3>3. QED
        BY <2>1, <3>1, <3>2, KeepEvent
    <2>3. TypeOK' /\ WindowConsistent'
      BY <1>3, <2>2 DEF safePublish, Inv, TypeOK, WindowConsistent
    <2>4. QED
      BY <2>2, <2>3 DEF Inv
  <1>4. CASE RecordSuccess(w)
    <2>1. wpc[w] \in Busy /\ "published" \in Outcomes \ {"no"}
      BY <1>4 DEF RecordSuccess, Busy, Outcomes
    <2>2. /\ wpc' \in [Workers -> Busy \cup {"receive", "exited"}]
          /\ cur' \in [Workers -> Events \cup {None}]
          /\ settled' \in [Events -> Outcomes]
          /\ NoAcceptedEventLost' /\ NoEventProcessedTwice' /\ ShutdownOrder'
      BY <1>4, <2>1, SettleEvent DEF RecordSuccess
    <2>3. /\ stats'.results \in [0..(FailureWindow - 1) -> BOOLEAN]
          /\ stats'.next \in 0..(FailureWindow - 1)
          /\ stats'.count \in 0..FailureWindow
          /\ stats'.failures \in 0..FailureWindow
          /\ history' \in Seq(BOOLEAN)
          /\ WindowConsistent'
      BY <1>4, RecordResult DEF RecordSuccess
    <2>4. TypeOK'
      BY <1>4, <2>2, <2>3 DEF RecordSuccess, Inv, TypeOK
    <2>5. QED
      BY <2>2, <2>3, <2>4 DEF Inv
  <1>5. CASE RecordFailure(w)
    <2>1. wpc[w] \in Busy /\ "dlq" \in Busy
      BY <1>5 DEF RecordFailure, Busy
    <2>2. /\ wpc' \in [Workers -> Busy \cup {"receive", "exited"}]
          /\ NoAcceptedEventLost' /\ NoEventProcessedTwice' /\ ShutdownOrder'
      BY <1>5, <2>1, KeepEvent DEF RecordFailure
    <2>3. /\ stats'.results \in [0..(FailureWindow - 1) -> BOOLEAN]
          /\ stats'.next \in 0..(FailureWindow - 1)
          /\ stats'.count \in 0..FailureWindow
          /\ stats'.failures \in 0..FailureWindow
          /\ history' \in Seq(BOOLEAN)
          /\ WindowConsistent'
      BY <1>5, RecordResult DEF RecordFailure
    <2>4. TypeOK'
      BY <1>5, <2>2, <2>3 DEF RecordFailure, Inv, TypeOK
    <2>5. QED
      BY <2>2, <2>3, <2>4 DEF Inv
  <1>6. CASE OnDLQ(w)
    <2>1. PICK result \in {"deadLettered", "hookPanicked"} :
             settled' = [settled EXCEPT ![cur[w]] = result]
      BY <1>6 DEF OnDLQ
    <2>2. wpc[w] \in Busy /\ result \in Outcomes \ {"no"}
      BY <1>6 DEF OnDLQ, Busy, Outcomes
    <2>3. /\ wpc' \in [Workers -> Busy \cup {"receive", "exited"}]
          /\ cur' \in [Workers -> Events \cup {None}]
          /\ settled' \in [Events -> Outcomes]
          /\ NoAcceptedEventLost' /\ NoEventProcessedTwice' /\ ShutdownOrder'
      <3>1. /\ wpc' = [wpc EXCEPT ![w] = "receive"]
            /\ cur' = [cur EXCEPT ![w] = None]
            /\ UNCHANGED <<ch, closed, pub, closer>>
        BY <1>6 DEF OnDLQ
      <3>2. QED
        BY <2>1, <2>2, <3>1, SettleEvent
    <2>4. TypeOK' /\ WindowConsistent'
      BY <1>6, <2>3 DEF OnDLQ, Inv, TypeOK, WindowConsistent
    <2>5. QED
      BY <2>3, <2>4 DEF Inv
  <1>7. QED
    BY <1>1, <1>2, <1>3, <1>4, <1>5, <1>6 DEF Worker

\* Every step keeps the invariant.
LEMMA NextInv == Inv /\ [Next]_vars => Inv'
  <1> SUFFICES ASSUME Inv, [Next]_vars PROVE Inv'
    OBVIOUS
  <1>1. ASSUME NEW e \in Events, Publisher(e) PROVE Inv'
    BY <1>1, PublishCheckInv, PublishSendInv DEF Publisher
  <1>2. ASSUME NEW k \in Closers, Closer(k) PROVE Inv'
    BY <1>2, CloseInv
  <1>3. ASSUME NEW w \in Workers, Worker(w) PROVE Inv'
    BY <1>3, WorkerInv
  <1>4. CASE UNCHANGED vars
    BY <1>4 DEF vars, Inv, TypeOK, NoAcceptedEventLost, NoEventProcessedTwice,
                ShutdownOrder, WindowConsistent, Queued, Held, HeldBy
  <1>5. QED
    BY <1>1, <1>2, <1>3, <1>4 DEF Next

-------------------------------------------------------------------------------
(* Theorems. *)

\* The invariant holds in every reachable state.
LEMMA Invariance == Spec => []Inv
  BY InitInv, NextInv, PTL DEF Spec

\* Type correctness: the channel is never over its capacity and the counters of
\* publishWindow stay between 0 and FailureWindow.
THEOREM TypeCorrect == Spec => []TypeOK
  <1>1. Inv => TypeOK
    BY DEF Inv
  <1>2. QED
    BY <1>1, Invariance, PTL

\* An event whose Publish returned nil is never lost between Publish, the
\* channel, the workers and OnDLQ.
THEOREM AcceptedNeverLost == Spec => []NoAcceptedEventLost
  <1>1. Inv => NoAcceptedEventLost
    BY DEF Inv
  <1>2. QED
    BY <1>1, Invariance, PTL

\* No event is processed by two workers, or again after it was settled, or
\* without its Publish having returned nil.
THEOREM ProcessedOnce == Spec => []NoEventProcessedTwice
  <1>1. Inv => NoEventProcessedTwice
    BY DEF Inv
  <1>2. QED
    BY <1>1, Invariance, PTL

\* Once every worker has left its loop, no accepted event is unsettled: the
\* channel is empty and no worker holds one.
LEMMA AllExitedDrained ==
    ASSUME Inv, \A w \in Workers : wpc[w] = "exited"
    PROVE  \A e \in Events : pub[e] = "accepted" => settled[e] # "no"
  <1>1. ch = <<>>
    BY OptionsAssumption DEF Inv, ShutdownOrder
  <1>2. \A e \in Events : ~Queued(e) /\ ~Held(e)
    BY <1>1 DEF Queued, Held, HeldBy, Busy
  <1>3. QED
    BY <1>2 DEF Inv, NoAcceptedEventLost

\* Close returns only when every accepted event is settled.
THEOREM CloseDrains == Spec => []DrainedOnClose
  <1>1. Inv => DrainedOnClose
    BY AllExitedDrained DEF Inv, ShutdownOrder, DrainedOnClose
  <1>2. QED
    BY <1>1, Invariance, PTL

\* The failure counter of publishWindow is the number of failed results in the
\* ring, for every window size.
THEOREM WindowCounts == Spec => []WindowConsistent
  <1>1. Inv => WindowConsistent
    BY DEF Inv
  <1>2. QED
    BY <1>1, Invariance, PTL

\* The slot that holds the result recorded j results before the newest, when
\* the next one goes to slot next.
Back(next, j) == IF j < next THEN next - 1 - j ELSE next - 1 - j + FailureWindow
SlotOf(w, j) == Back(w.next, j)

Advance(next) == IF next + 1 = FailureWindow THEN 0 ELSE next + 1

\* The remainder in record is a wrap at the end of the ring.
LEMMA AdvanceIsRemainder ==
    ASSUME NEW next \in 0..(FailureWindow - 1)
    PROVE  (next + 1) % FailureWindow = Advance(next)
  <1>1. FailureWindow \in Nat \ {0}
    BY OptionsAssumption
  <1>2. CASE next + 1 = FailureWindow
    <2>1. FailureWindow % FailureWindow = 0
      BY <1>1
    <2>2. QED
      BY <2>1, <1>2 DEF Advance
  <1>3. CASE next + 1 # FailureWindow
    <2>1. next + 1 < FailureWindow
      BY <1>1, <1>3
    <2>2. QED
      BY <2>1, <1>3, NextSlot DEF Advance
  <1>4. QED
    BY <1>2, <1>3

\* When the ring advances every older result keeps its slot, the newest is in
\* the slot that was next, and the slot of the oldest is next again.
LEMMA BackAdvances ==
    ASSUME NEW next \in 0..(FailureWindow - 1)
    PROVE  /\ Back(Advance(next), 0) = next
           /\ Back(next, FailureWindow - 1) = next
           /\ \A j \in 1..(FailureWindow - 1) :
                 /\ Back(Advance(next), j) = Back(next, j - 1)
                 /\ Back(next, j - 1) \in 0..(FailureWindow - 1)
                 /\ Back(next, j - 1) # next
  <1>1. FailureWindow \in Nat \ {0} /\ next \in Nat
    BY OptionsAssumption
  <1>2. Back(Advance(next), 0) = next
    BY <1>1 DEF Back, Advance
  <1>3. Back(next, FailureWindow - 1) = next
    BY <1>1 DEF Back
  <1>4. ASSUME NEW j \in 1..(FailureWindow - 1)
        PROVE  /\ Back(Advance(next), j) = Back(next, j - 1)
               /\ Back(next, j - 1) \in 0..(FailureWindow - 1)
               /\ Back(next, j - 1) # next
    <2>1. CASE j - 1 < next
      <3>1. Back(next, j - 1) = next - j
        BY <1>1, <2>1 DEF Back
      <3>2. Back(Advance(next), j) = next - j
        BY <1>1, <2>1 DEF Back, Advance
      <3>3. QED
        BY <1>1, <2>1, <3>1, <3>2
    <2>2. CASE ~(j - 1 < next)
      <3>1. Back(next, j - 1) = next - j + FailureWindow
        BY <1>1, <2>2 DEF Back
      <3>2. next + 1 # FailureWindow
        BY <1>1, <2>2
      <3>3. Back(Advance(next), j) = next - j + FailureWindow
        BY <1>1, <2>2, <3>2 DEF Back, Advance
      <3>4. QED
        BY <1>1, <2>2, <3>1, <3>3
    <2>3. QED
      BY <2>1, <2>2
  <1>5. QED
    BY <1>2, <1>3, <1>4

\* The last results of a history h that a window of FailureWindow covers.
Recent(h) == {k \in 1..Len(h) : k > Len(h) - FailureWindow}
RecentFailures(h) == {k \in Recent(h) : ~h[k]}

\* The ring holds the last results, newest just before next.
RingHolds(w, h) ==
    /\ w.count = IF Len(h) < FailureWindow THEN Len(h) ELSE FailureWindow
    /\ \A j \in 0..(w.count - 1) : w.results[SlotOf(w, j)] = h[Len(h) - j]
    /\ w.failures = Cardinality(RecentFailures(h))

\* The results covered by the window are finitely many.
LEMMA RecentFinite ==
    ASSUME NEW h \in Seq(BOOLEAN)
    PROVE  /\ IsFiniteSet(Recent(h)) /\ IsFiniteSet(RecentFailures(h))
           /\ Cardinality(RecentFailures(h)) \in Nat
  <1>1. Len(h) \in Nat
    OBVIOUS
  <1>2. IsFiniteSet(1..Len(h))
    BY <1>1, FS_Interval
  <1>3. Recent(h) \in SUBSET (1..Len(h)) /\ RecentFailures(h) \in SUBSET (1..Len(h))
    BY DEF Recent, RecentFailures
  <1>4. QED
    BY <1>2, <1>3, FS_Subset, FS_CardinalityType

\* The window moves by one result: the new one enters at the end and, when the
\* window was full, the oldest one leaves.
LEMMA RecentMoves ==
    ASSUME NEW h \in Seq(BOOLEAN), NEW success \in BOOLEAN
    PROVE  LET n     == Len(h)
               old   == n + 1 - FailureWindow
               added == IF success THEN {} ELSE {n + 1}
               gone  == IF n >= FailureWindow THEN {old} ELSE {}
           IN  RecentFailures(Append(h, success)) = (RecentFailures(h) \ gone) \cup added
  <1> DEFINE g == Append(h, success)
             n == Len(h)
             old == n + 1 - FailureWindow
             added == IF success THEN {} ELSE {n + 1}
             gone == IF n >= FailureWindow THEN {old} ELSE {}
  <1>1. FailureWindow \in Nat \ {0} /\ n \in Nat
    BY OptionsAssumption
  <1>2. Len(g) = n + 1 /\ g[n + 1] = success /\ \A k \in 1..n : g[k] = h[k]
    OBVIOUS
  <1> HIDE DEF g
  <1>3. ASSUME NEW k PROVE k \in RecentFailures(g) <=> k \in (RecentFailures(h) \ gone) \cup added
    <2>1. k \in RecentFailures(g) <=> k \in 1..(n + 1) /\ k > n + 1 - FailureWindow /\ ~g[k]
      <3>1. k \in RecentFailures(g) <=> k \in 1..Len(g) /\ k > Len(g) - FailureWindow /\ ~g[k]
        BY Zenon DEF RecentFailures, Recent
      <3>2. Len(g) = n + 1
        BY <1>2
      <3>3. (k \in 1..Len(g) /\ k > Len(g) - FailureWindow)
                <=> (k \in 1..(n + 1) /\ k > n + 1 - FailureWindow)
        BY <1>1, <3>2
      <3> HIDE DEF n
      <3>4. QED
        BY <3>1, <3>3, Zenon
    <2>2. k \in RecentFailures(h) <=> k \in 1..n /\ k > n - FailureWindow /\ ~h[k]
      BY DEF RecentFailures, Recent
    <2>3. k = n + 1 => k \notin RecentFailures(h)
      BY <2>2, <1>1
    <2>4. k \in 1..(n + 1) <=> k \in 1..n \/ k = n + 1
      BY <1>1
    <2>5. CASE k = n + 1
      BY <2>1, <2>3, <2>5, <1>1, <1>2
    <2>6. CASE k \in 1..n
      <3>1. g[k] = h[k] /\ k # n + 1
        BY <2>6, <1>1, <1>2
      <3>2. k > n + 1 - FailureWindow <=> k > n - FailureWindow /\ k \notin gone
        BY <2>6, <1>1
      <3>3. QED
        BY <2>1, <2>2, <2>6, <3>1, <3>2
    <2>7. CASE k \notin 1..(n + 1)
      BY <2>1, <2>2, <2>4, <2>7, <1>1
    <2>8. QED
      BY <2>4, <2>5, <2>6, <2>7
  <1>4. QED
    BY <1>3 DEF g

\* record evicts the oldest result of the window and no other, and what it
\* subtracts and adds is what the last results lose and gain.
LEMMA RecordRing ==
    ASSUME NEW w, WindowType(w), WindowOK(w), NEW success \in BOOLEAN,
           NEW h \in Seq(BOOLEAN), RingHolds(w, h)
    PROVE  RingHolds(record(w, success), Append(h, success))
  <1> DEFINE r == record(w, success)
             g == Append(h, success)
             n == Len(h)
             full == w.count = FailureWindow
  <1>1. FailureWindow \in Nat \ {0} /\ n \in Nat /\ g \in Seq(BOOLEAN)
    BY OptionsAssumption
  <1>2. Len(g) = n + 1 /\ g[n + 1] = success /\ \A k \in 1..n : g[k] = h[k]
    OBVIOUS
  <1>3. /\ r.results = [w.results EXCEPT ![w.next] = success]
        /\ r.next = (w.next + 1) % FailureWindow
        /\ r.count = IF full THEN w.count ELSE w.count + 1
        /\ r.failures = w.failures - (IF full /\ ~w.results[w.next] THEN 1 ELSE 0)
                                   + (IF success THEN 0 ELSE 1)
    BY DEF record
  <1>4. w.next \in 0..(FailureWindow - 1) /\ w.count \in 0..FailureWindow
    BY DEF WindowType
  <1>5. r.next = Advance(w.next)
    BY <1>3, <1>4, AdvanceIsRemainder
  <1>6. /\ \A i \in 0..(FailureWindow - 1) :
              r.results[i] = IF i = w.next THEN success ELSE w.results[i]
    BY <1>3 DEF WindowType
  <1>7. w.count = IF n < FailureWindow THEN n ELSE FailureWindow
    BY DEF RingHolds
  <1> HIDE DEF r, g
  <1>8. r.count = IF Len(g) < FailureWindow THEN Len(g) ELSE FailureWindow
    BY <1>1, <1>2, <1>3, <1>7
  <1>9. ASSUME NEW j \in 0..(r.count - 1) PROVE r.results[SlotOf(r, j)] = g[Len(g) - j]
    <2>1. CASE j = 0
      <3>1. SlotOf(r, 0) = w.next
        BY <1>4, <1>5, BackAdvances DEF SlotOf
      <3>2. QED
        BY <2>1, <3>1, <1>1, <1>2, <1>4, <1>6
    <2>2. CASE j # 0
      <3>1. j \in Nat /\ j - 1 \in 0..(w.count - 1) /\ j < FailureWindow
        BY <2>2, <1>1, <1>3, <1>4
      <3>2. j \in 1..(FailureWindow - 1)
        BY <3>1, <2>2, <1>1
      <3>3. /\ SlotOf(r, j) = SlotOf(w, j - 1)
            /\ SlotOf(w, j - 1) \in 0..(FailureWindow - 1) /\ SlotOf(w, j - 1) # w.next
        BY <3>2, <1>4, <1>5, BackAdvances DEF SlotOf
      <3>4. w.results[SlotOf(w, j - 1)] = h[n - (j - 1)]
        BY <3>1 DEF RingHolds
      <3>5. n - (j - 1) \in 1..n /\ Len(g) - j = n - (j - 1)
        BY <3>1, <1>1, <1>2, <1>7
      <3>6. QED
        BY <3>3, <3>4, <3>5, <1>2, <1>6
    <2>3. QED
      BY <2>1, <2>2
  <1>10. r.failures = Cardinality(RecentFailures(g))
    <2> DEFINE F == RecentFailures(h)
               old == n + 1 - FailureWindow
               gone == IF n >= FailureWindow THEN {old} ELSE {}
               added == IF success THEN {} ELSE {n + 1}
               kept == F \ gone
    <2>1. IsFiniteSet(F) /\ Cardinality(F) \in Nat /\ w.failures = Cardinality(F)
      BY RecentFinite DEF RingHolds
    <2>2. RecentFailures(g) = kept \cup added
      BY RecentMoves DEF g
    <2>3. full <=> n >= FailureWindow
      BY <1>1, <1>7
    <2>4. /\ IsFiniteSet(kept)
          /\ Cardinality(kept) = Cardinality(F) - (IF full /\ ~w.results[w.next] THEN 1 ELSE 0)
      <3>1. CASE full
        <4>1. SlotOf(w, FailureWindow - 1) = w.next
          BY <1>4, BackAdvances DEF SlotOf
        <4>2. w.results[w.next] = h[old]
          <5>1. FailureWindow - 1 \in 0..(w.count - 1) /\ n - (FailureWindow - 1) = old
            BY <3>1, <1>1
          <5>2. QED
            BY <4>1, <5>1 DEF RingHolds
        <4>3. old \in F <=> ~h[old]
          BY <2>3, <3>1, <1>1 DEF RecentFailures, Recent
        <4>4. kept = F \ {old}
          BY <2>3, <3>1
        <4>5. /\ IsFiniteSet(F \ {old})
              /\ Cardinality(F \ {old}) = IF old \in F THEN Cardinality(F) - 1 ELSE Cardinality(F)
          BY <2>1, FS_RemoveElement
        <4>6. QED
          <5>1. CASE h[old]
            <6>1. (IF full /\ ~w.results[w.next] THEN 1 ELSE 0) = 0
              BY <4>2, <5>1
            <6>2. Cardinality(kept) = Cardinality(F)
              BY <4>3, <4>4, <4>5, <5>1
            <6> HIDE DEF F, kept, full
            <6>3. QED
              BY <6>1, <6>2, <2>1, <4>4, <4>5
          <5>2. CASE ~h[old]
            BY <4>2, <4>3, <4>4, <4>5, <3>1, <2>1, <5>2
          <5>3. QED
            BY <5>1, <5>2
      <3>2. CASE ~full
        <4>1. kept = F
          BY <2>3, <3>2
        <4>2. (IF full /\ ~w.results[w.next] THEN 1 ELSE 0) = 0
          BY <3>2
        <4> HIDE DEF F, kept, full
        <4>3. QED
          BY <4>1, <4>2, <2>1
      <3>3. QED
        BY <3>1, <3>2
    <2>5. Cardinality(kept \cup added) = Cardinality(kept) + (IF success THEN 0 ELSE 1)
      <3>1. n + 1 \notin kept
        BY <1>1 DEF RecentFailures, Recent
      <3>2. CASE success
        <4>1. kept \cup added = kept
          BY <3>2
        <4>2. Cardinality(kept) \in Nat
          BY <2>4, FS_CardinalityType
        <4>3. QED
          BY <4>1, <4>2, <3>2
      <3>3. CASE ~success
        <4>1. kept \cup added = kept \cup {n + 1}
          BY <3>3
        <4>2. Cardinality(kept \cup {n + 1}) = Cardinality(kept) + 1
          BY <2>4, <3>1, FS_AddElement
        <4>3. QED
          BY <4>1, <4>2, <3>3
      <3>4. QED
        BY <3>2, <3>3
    <2>6. QED
      BY <2>1, <2>2, <2>4, <2>5, <1>3
  <1>11. QED
    BY <1>8, <1>9, <1>10 DEF RingHolds, r, g

\* A step records a result in window and history alike, or touches neither.
LEMMA StepRecords ==
    ASSUME [Next]_vars
    PROVE  \/ UNCHANGED <<stats, history>>
           \/ \E success \in BOOLEAN : /\ stats' = record(stats, success)
                                       /\ history' = Append(history, success)
  <1>1. ASSUME NEW e \in Events, Publisher(e) PROVE UNCHANGED <<stats, history>>
    BY <1>1 DEF Publisher, PublishCheck, PublishSend
  <1>2. ASSUME NEW k \in Closers, Closer(k) PROVE UNCHANGED <<stats, history>>
    BY <1>2 DEF Closer, CloseBegin, CloseReturn
  <1>3. ASSUME NEW w \in Workers, Worker(w)
        PROVE  \/ UNCHANGED <<stats, history>>
               \/ \E success \in BOOLEAN : /\ stats' = record(stats, success)
                                           /\ history' = Append(history, success)
    BY <1>3, Zenon DEF Worker, Receive, Exit, safePublish, RecordSuccess, RecordFailure, OnDLQ
  <1>4. QED
    BY <1>1, <1>2, <1>3 DEF Next, vars

\* The ring and its counters describe the last FailureWindow results of the
\* publisher's whole history, for every window size and any order of workers.
THEOREM WindowIsHistory == Spec => []WindowMatchesHistory
  <1>1. Init => RingHolds(stats, history)
    <2> SUFFICES ASSUME Init PROVE RingHolds(stats, history)
      OBVIOUS
    <2>1. history = <<>> /\ Len(history) = 0 /\ stats.count = 0 /\ stats.failures = 0
      BY DEF Init, newPublishWindow
    <2>2. RecentFailures(history) = {}
      BY <2>1 DEF RecentFailures, Recent
    <2>3. QED
      <3>1. Cardinality(RecentFailures(history)) = 0
        BY <2>2, FS_EmptySet
      <3>2. QED
        BY <2>1, <3>1, OptionsAssumption DEF RingHolds
  <1>2. ASSUME Inv, RingHolds(stats, history), [Next]_vars PROVE RingHolds(stats, history)'
    <2>1. CASE UNCHANGED <<stats, history>>
      BY <1>2, <2>1 DEF RingHolds, RecentFailures, Recent, SlotOf, Back
    <2>2. ASSUME NEW success \in BOOLEAN, stats' = record(stats, success),
                 history' = Append(history, success)
          PROVE  RingHolds(stats, history)'
      <3>1. WindowType(stats) /\ WindowOK(stats) /\ history \in Seq(BOOLEAN)
        BY <1>2 DEF Inv, TypeOK, WindowConsistent, WindowType, WindowOK, FailedSlots
      <3>2. RingHolds(record(stats, success), Append(history, success))
        BY <1>2, <3>1, RecordRing
      <3>3. QED
        BY <2>2, <3>2
    <2>3. QED
      BY <1>2, <2>1, <2>2, StepRecords
  <1>3. Inv /\ RingHolds(stats, history) => WindowMatchesHistory
    <2> SUFFICES ASSUME Inv, RingHolds(stats, history) PROVE WindowMatchesHistory
      OBVIOUS
    <2> DEFINE n == Len(history)
               from == IF n < FailureWindow THEN 1 ELSE n - FailureWindow + 1
    <2>1. n \in Nat /\ FailureWindow \in Nat \ {0}
      BY OptionsAssumption DEF Inv, TypeOK
    <2>2. Recent(history) = from..n
      BY <2>1 DEF Recent
    <2>3. Cardinality(from..n) = IF from > n THEN 0 ELSE n - from + 1
      <3>1. from \in Int /\ n \in Int
        BY <2>1
      <3> HIDE DEF from, n
      <3>2. QED
        BY <3>1, FS_Interval, Zenon
    <2>4. Cardinality(Recent(history)) = IF n < FailureWindow THEN n ELSE FailureWindow
      <3>1. (IF from > n THEN 0 ELSE n - from + 1) = IF n < FailureWindow THEN n ELSE FailureWindow
        <4>1. CASE n < FailureWindow
          BY <2>1, <4>1
        <4>2. CASE ~(n < FailureWindow)
          BY <2>1, <4>2
        <4>3. QED
          BY <4>1, <4>2
      <3>2. QED
        BY <2>2, <2>3, <3>1
    <2>5. QED
      BY <2>4 DEF RingHolds, WindowMatchesHistory, RecentFailures, Recent
  <1>4. QED
    BY <1>1, <1>2, <1>3, Invariance, PTL DEF Spec

\* Cancelling a positive factor, for the comparison of pressures.
LEMMA CancelFactor ==
    ASSUME NEW x \in Int, NEW y \in Int, NEW n \in Nat \ {0}, x * n >= y * n
    PROVE  x >= y
  OBVIOUS

\* While the failure ratio is at most the budget, the pressure sum reaches 1 only
\* where the usage is at the hard limit. The factor 100 - Budget must not vanish.
LEMMA PressureAtBudget ==
    ASSUME NEW d \in Nat, NEW w, w.count \in Nat \ {0}, w.failures \in Nat,
           Budget < 100,
           100 * w.failures = Budget * w.count,
           pressureReached(d, w)
    PROVE  UsageAtLeast(d, HardLimit)
  <1> SUFFICES ASSUME ~UsageAtLeast(d, HardLimit) PROVE FALSE
    OBVIOUS
  <1>1. /\ Buffer \in Nat /\ SoftLimit \in Nat /\ HardLimit \in Nat /\ Budget \in Nat
        /\ 100 - Budget \in Nat \ {0}
    BY OptionsAssumption
  <1> DEFINE a == 100 * d - SoftLimit * Buffer
             b == (HardLimit - SoftLimit) * Buffer
             n == 100 - Budget
             c == w.count
  <1>2. a \in Int /\ b \in Int /\ n \in Nat \ {0} /\ c \in Nat \ {0}
    BY <1>1
  <1>3. a * n * c + (100 * w.failures - Budget * w.count) * (HardLimit - SoftLimit) * Buffer
           >= (HardLimit - SoftLimit) * n * Buffer * c
    BY DEF pressureReached
  <1>4. (100 * w.failures - Budget * w.count) * (HardLimit - SoftLimit) * Buffer = 0
    <2>1. 100 * w.failures - Budget * w.count = 0
      BY <1>1
    <2>2. QED
      BY <2>1, <1>1
  <1>5. (HardLimit - SoftLimit) * n * Buffer * c = b * n * c
    BY <1>1
  <1>6. a * n \in Int /\ b * n \in Int
    BY <1>2
  <1>7. (a * n) * c >= (b * n) * c
    BY <1>2, <1>3, <1>4, <1>5, <1>6
  <1>8. a * n >= b * n
    BY <1>2, <1>6, <1>7, CancelFactor
  <1>9. a >= b
    BY <1>2, <1>8, CancelFactor
  <1>10. 100 * d >= HardLimit * Buffer
    BY <1>1, <1>9
  <1>11. QED
    BY <1>10 DEF UsageAtLeast

\* A passing HealthCheck means that backpressure admits, for every limit,
\* buffer and window and every budget below 100%.
THEOREM HealthCheckAdmits == Spec => []HealthyAdmits
  <1>1. Inv => HealthyAdmits
    <2> SUFFICES ASSUME Inv, Budget < 100, HealthCheck = "ok"
                 PROVE  ~isHardLimited(Len(ch)) /\ ~shouldThrottle(Len(ch), stats)
      BY DEF HealthyAdmits
    <2>1. /\ ~UsageAtLeast(Len(ch), HardLimit)
          /\ ~(FailuresAbove(stats, Budget) /\ stats.count >= MinSamples)
      BY DEF HealthCheck
    <2>2. ~isHardLimited(Len(ch))
      BY <2>1 DEF isHardLimited
    <2>3. ASSUME shouldThrottle(Len(ch), stats) PROVE FALSE
      <3>1. /\ stats.count >= MinSamples
            /\ FailuresAtLeast(stats, Budget)
            /\ pressureReached(Len(ch), stats)
        BY <2>3 DEF shouldThrottle
      <3>2. /\ Len(ch) \in Nat /\ stats.count \in Nat /\ stats.failures \in Nat
            /\ Budget \in Nat
        BY OptionsAssumption DEF Inv, TypeOK
      <3>3. stats.count \in Nat \ {0} /\ 100 * stats.failures = Budget * stats.count
        <4>1. stats.count > 0 /\ 100 * stats.failures >= Budget * stats.count
          BY <3>1 DEF FailuresAtLeast
        <4>2. ~(100 * stats.failures > Budget * stats.count)
          BY <2>1, <3>1, <4>1 DEF FailuresAbove
        <4>3. 100 * stats.failures \in Int /\ Budget * stats.count \in Int
          BY <3>2
        <4>4. QED
          BY <3>2, <4>1, <4>2, <4>3
      <3>4. QED
        BY <2>1, <3>1, <3>2, <3>3, PressureAtBudget
    <2>4. QED
      BY <2>2, <2>3
  <1>2. QED
    BY <1>1, Invariance, PTL

-------------------------------------------------------------------------------
(* Refinement. *)

\* Initial states of the publisher map to initial states of the queue.
LEMMA RefineInit == Init => Abstract!QInit
  <1> SUFFICES ASSUME Init PROVE Abstract!QInit
    OBVIOUS
  <1>1. QueuePhase = "open"
    BY DEF Init, QueuePhase
  <1>2. QueueStatus = [e \in Events |-> "new"]
    BY DEF Init, QueueStatus
  <1>3. QED
    BY <1>1, <1>2 DEF Abstract!QInit

\* What the mapping says of one event, and when it does not move.
LEMMA StatusOf ==
    /\ QueueStatus \in [Events -> {"new", "refused", "pending", "settled"}]
    /\ \A e \in Events :
          /\ pub[e] \in {"start", "admitted"} => QueueStatus[e] = "new"
          /\ pub[e] = "accepted" /\ settled[e] = "no" => QueueStatus[e] = "pending"
          /\ pub[e] = "accepted" /\ settled[e] # "no" => QueueStatus[e] = "settled"
          /\ pub[e] \notin {"start", "admitted", "accepted"} => QueueStatus[e] = "refused"
  BY DEF QueueStatus

\* A step that moves no event maps to no change of the statuses.
LEMMA StatusStutter ==
    ASSUME UNCHANGED <<pub, settled>>
    PROVE  UNCHANGED QueueStatus
  BY DEF QueueStatus

\* A step that moves no closer maps to no change of the phase.
LEMMA PhaseStutter ==
    ASSUME UNCHANGED <<closed, closer>>
    PROVE  UNCHANGED QueuePhase
  BY DEF QueuePhase

\* A change of one event's status, as the abstract actions write it.
LEMMA StatusChange ==
    ASSUME NEW e \in Events, NEW v,
           \A f \in Events \ {e} : pub'[f] = pub[f] /\ settled'[f] = settled[f],
           QueueStatus'[e] = v
    PROVE  QueueStatus' = [QueueStatus EXCEPT ![e] = v]
  <1>1. \A f \in Events \ {e} : QueueStatus'[f] = QueueStatus[f]
    BY DEF QueueStatus
  <1>2. QueueStatus' = [f \in Events |-> QueueStatus'[f]]
    BY DEF QueueStatus
  <1>3. QueueStatus = [f \in Events |-> QueueStatus[f]]
    BY DEF QueueStatus
  <1>4. QED
    BY <1>1, <1>2, <1>3, Zenon

\* A step of Publish maps to Accept, Refuse or a stutter.
LEMMA RefinePublisher ==
    ASSUME Inv, NEW e \in Events, Publisher(e)
    PROVE  Abstract!QNext \/ UNCHANGED <<QueuePhase, QueueStatus>>
  <1>1. /\ pub[e] \in {"start", "admitted"}
        /\ \A f \in Events \ {e} : pub'[f] = pub[f] /\ settled'[f] = settled[f]
        /\ pub'[e] \in PubStates
        /\ pub'[e] # "start"
        /\ settled'[e] = settled[e]
        /\ UNCHANGED <<closed, closer>>
    BY DEF Publisher, PublishCheck, PublishSend, Inv, TypeOK, PubStates
  <1>2. UNCHANGED QueuePhase
    BY <1>1, PhaseStutter
  <1>3. QueueStatus[e] = "new"
    BY <1>1, StatusOf
  <1>4. CASE pub'[e] = "admitted"
    <2>1. QueueStatus'[e] = "new"
      BY <1>4 DEF QueueStatus
    <2>2. QueueStatus' = [QueueStatus EXCEPT ![e] = "new"]
      BY <2>1, <1>1, StatusChange
    <2>3. QueueStatus' = QueueStatus
      BY <2>2, <1>3, StatusOf
    <2>4. QED
      BY <2>3, <1>2
  <1>5. CASE pub'[e] = "accepted"
    <2>1. ~closed /\ settled[e] = "no"
      BY <1>5 DEF Publisher, PublishCheck, PublishSend, Inv, TypeOK, NoEventProcessedTwice
    <2>2. QueuePhase = "open"
      BY <2>1 DEF QueuePhase, Inv, ShutdownOrder
    <2>3. QueueStatus'[e] = "pending"
      BY <1>1, <1>5, <2>1 DEF QueueStatus
    <2>4. Abstract!Accept(e)
      BY <1>1, <1>2, <1>3, <2>2, <2>3, StatusChange DEF Abstract!Accept
    <2>5. QED
      BY <2>4 DEF Abstract!QNext
  <1>6. CASE pub'[e] \notin {"start", "admitted", "accepted"}
    <2>1. QueueStatus'[e] = "refused"
      BY <1>6 DEF QueueStatus
    <2>2. Abstract!Refuse(e)
      BY <1>1, <1>2, <1>3, <2>1, StatusChange DEF Abstract!Refuse
    <2>3. QED
      BY <2>2 DEF Abstract!QNext
  <1>7. QED
    BY <1>1, <1>4, <1>5, <1>6

\* A step of Close maps to BeginClose, EndClose or a stutter.
LEMMA RefineCloser ==
    ASSUME Inv, NEW k \in Closers, Closer(k)
    PROVE  Abstract!QNext \/ UNCHANGED <<QueuePhase, QueueStatus>>
  <1>1. UNCHANGED QueueStatus
    BY StatusStutter DEF Closer, CloseBegin, CloseReturn
  <1>2. CASE CloseBegin(k)
    <2>1. \A j \in Closers : closer'[j] = "returned" <=> closer[j] = "returned"
      BY <1>2 DEF CloseBegin, Inv, TypeOK
    <2>2. CASE closed
      BY <1>1, <1>2, <2>1, <2>2 DEF CloseBegin, QueuePhase
    <2>3. CASE ~closed
      <3>1. QueuePhase = "open" /\ QueuePhase' = "closing"
        BY <1>2, <2>1, <2>3 DEF CloseBegin, QueuePhase, Inv, ShutdownOrder
      <3>2. QED
        BY <1>1, <3>1 DEF Abstract!QNext, Abstract!BeginClose
    <2>4. QED
      BY <2>2, <2>3
  <1>3. CASE CloseReturn(k)
    <2>1. closer'[k] = "returned" /\ closed
      BY <1>3 DEF CloseReturn, Inv, TypeOK, ShutdownOrder
    <2>2. QueuePhase' = "closed"
      BY <2>1 DEF QueuePhase
    <2>3. CASE QueuePhase = "closed"
      BY <1>1, <2>2, <2>3
    <2>4. CASE QueuePhase # "closed"
      <3>1. QueuePhase = "closing"
        BY <2>1, <2>4 DEF QueuePhase
      <3>2. \A e \in Events : pub[e] = "accepted" => settled[e] # "no"
        BY <1>3, AllExitedDrained DEF CloseReturn
      <3>3. \A e \in Events : QueueStatus[e] # "pending"
        BY <3>2 DEF QueueStatus
      <3>4. QED
        BY <1>1, <2>2, <3>1, <3>3 DEF Abstract!QNext, Abstract!EndClose
    <2>5. QED
      BY <2>3, <2>4
  <1>4. QED
    BY <1>2, <1>3 DEF Closer

\* A step of a worker maps to Settle or a stutter.
LEMMA RefineWorker ==
    ASSUME Inv, NEW w \in Workers, Worker(w)
    PROVE  Abstract!QNext \/ UNCHANGED <<QueuePhase, QueueStatus>>
  <1>1. UNCHANGED QueuePhase
    BY PhaseStutter
       DEF Worker, Receive, Exit, safePublish, RecordSuccess, RecordFailure, OnDLQ
  <1>2. CASE Receive(w) \/ Exit(w) \/ safePublish(w) \/ RecordFailure(w)
    BY <1>1, <1>2, StatusStutter DEF Receive, Exit, safePublish, RecordFailure
  <1>3. CASE RecordSuccess(w) \/ OnDLQ(w)
    <2> DEFINE e == cur[w]
    <2>1. wpc[w] \in Busy /\ UNCHANGED pub
      BY <1>3 DEF RecordSuccess, OnDLQ, Busy
    <2>2. e \in Events /\ pub[e] = "accepted" /\ settled[e] = "no"
      BY <2>1 DEF Inv, NoEventProcessedTwice
    <2>3. /\ settled'[e] # "no"
          /\ \A f \in Events \ {e} : settled'[f] = settled[f]
      BY <1>3, <2>2 DEF RecordSuccess, OnDLQ, Inv, TypeOK
    <2>4. QueuePhase # "closed"
      <3>1. wpc[w] # "exited"
        BY <2>1 DEF Busy
      <3>2. \A k \in Closers : closer[k] # "returned"
        BY <3>1 DEF Inv, ShutdownOrder
      <3>3. QED
        BY <3>2 DEF QueuePhase
    <2>5. QueueStatus[e] = "pending" /\ QueueStatus'[e] = "settled"
      BY <2>1, <2>2, <2>3 DEF QueueStatus
    <2>6. Abstract!Settle(e)
      BY <1>1, <2>1, <2>2, <2>3, <2>4, <2>5, StatusChange DEF Abstract!Settle
    <2>7. QED
      BY <2>2, <2>6 DEF Abstract!QNext
  <1>4. QED
    BY <1>2, <1>3 DEF Worker

\* Every step of the publisher is a step of the queue or leaves it alone.
LEMMA RefineNext ==
    Inv /\ [Next]_vars => [Abstract!QNext]_<<QueuePhase, QueueStatus>>
  <1> SUFFICES ASSUME Inv, [Next]_vars
               PROVE  Abstract!QNext \/ UNCHANGED <<QueuePhase, QueueStatus>>
    OBVIOUS
  <1>1. CASE UNCHANGED vars
    BY <1>1, StatusStutter, PhaseStutter DEF vars
  <1>2. CASE Next
    BY <1>2, RefinePublisher, RefineCloser, RefineWorker DEF Next
  <1>3. QED
    BY <1>1, <1>2

\* The publisher implements the abstract queue: accepted only while open,
\* settled once, closed only when nothing accepted is pending.
THEOREM Refinement == Spec => ImplementsEventQueue
  BY RefineInit, RefineNext, Invariance, PTL
     DEF Spec, ImplementsEventQueue, Abstract!QSpec, Abstract!qvars
===============================================================================
