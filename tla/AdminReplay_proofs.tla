-------------------------- MODULE AdminReplay_proofs --------------------------
(***************************************************************************)
(* Proofs about AdminReplay, for any number of requests, events and audit  *)
(* records, batches of any size and pages of any limit.                    *)
(***************************************************************************)
EXTENDS AdminReplay, FiniteSetTheorems, SequenceTheorems, WellFoundedInduction, TLAPS

-------------------------------------------------------------------------------
(* Numbers, ranks and sequences *)

Less == {p \in Nat \X Nat : p[1] < p[2]}

(* A set of numbers that is not empty has a least one. *)
LEMMA LeastNatural ==
    ASSUME NEW T \in SUBSET Nat, T # {}
    PROVE  \E x \in T : \A y \in T : x <= y
<1>1. IsWellFoundedOn(Less, Nat)
  BY NatLessThanWellFounded DEF OpToRel, Less
<1>2. PICK x \in T : \A y \in T : ~(<<y, x>> \in Less)
  BY <1>1, WFMin
<1>3. \A y \in T : ~(y < x)
  BY <1>2 DEF Less
<1> QED
  BY <1>3

(* In a finite strict total order an element is determined by how many come *)
(* before it, and each such number below the size of the set occurs.        *)
LEMMA Ranks ==
    ASSUME NEW S, IsFiniteSet(S), NEW below \in [S -> SUBSET S],
           \A x \in S : x \notin below[x],
           \A x, y \in S : x # y => x \in below[y] \/ y \in below[x],
           \A x, y \in S : x \in below[y] => below[x] \subseteq below[y]
    PROVE  /\ \A x \in S : Cardinality(below[x]) \in 0 .. Cardinality(S) - 1
           /\ \A k \in 1 .. Cardinality(S) : \E x \in S : Cardinality(below[x]) = k - 1
           /\ \A x, y \in S : x \in below[y] <=> Cardinality(below[x]) < Cardinality(below[y])
<1> DEFINE rank == [x \in S |-> Cardinality(below[x])]
           n == Cardinality(S)
<1>0. n \in Nat
  BY FS_CardinalityType
<1>1. \A x \in S : IsFiniteSet(below[x]) /\ Cardinality(below[x]) \in Nat
  BY FS_Subset, FS_CardinalityType
<1>2. ASSUME NEW x \in S PROVE Cardinality(below[x]) < n
  <2>1. below[x] \in SUBSET S /\ below[x] # S
    OBVIOUS
  <2>2. Cardinality(below[x]) <= n /\ Cardinality(below[x]) # n
    BY <2>1, FS_Subset
  <2> QED
    BY <2>2, <1>0, <1>1
<1>3. ASSUME NEW x \in S, NEW y \in S, x \in below[y]
      PROVE  Cardinality(below[x]) < Cardinality(below[y])
  <2>1. below[x] \in SUBSET below[y] /\ below[x] # below[y]
    BY <1>3
  <2>2. Cardinality(below[x]) <= Cardinality(below[y]) /\ Cardinality(below[x]) # Cardinality(below[y])
    BY <2>1, <1>1, FS_Subset
  <2> QED
    BY <2>2, <1>1
<1>4. ASSUME NEW x \in S, NEW y \in S, Cardinality(below[x]) < Cardinality(below[y])
      PROVE  x \in below[y]
  <2>1. x # y
    BY <1>4, <1>1
  <2>2. CASE y \in below[x]
    BY <2>2, <1>3, <1>4, <1>1
  <2> QED
    BY <2>1, <2>2
<1>5. rank \in Injection(S, 0 .. n - 1)
  <2>1. rank \in [S -> 0 .. n - 1]
    BY <1>0, <1>1, <1>2
  <2>2. ASSUME NEW x \in S, NEW y \in S, rank[x] = rank[y] PROVE x = y
    BY <2>2, <1>1, <1>3
  <2> QED
    BY <2>1, <2>2 DEF Injection, IsInjective
<1>6. IsFiniteSet(0 .. n - 1) /\ Cardinality(0 .. n - 1) = n
  BY <1>0, FS_Interval
<1>7. rank \in Surjection(S, 0 .. n - 1)
  BY <1>5, <1>6, FS_Injection
<1>8. ASSUME NEW k \in 1 .. n PROVE \E x \in S : Cardinality(below[x]) = k - 1
  <2>1. k - 1 \in 0 .. n - 1
    BY <1>0
  <2>2. PICK x \in S : rank[x] = k - 1
    BY <2>1, <1>7 DEF Surjection
  <2> QED
    BY <2>2
<1> QED
  BY <1>0, <1>1, <1>2, <1>3, <1>4, <1>8

(* Appending to a sequence. *)
LEMMA AppendRange ==
    ASSUME NEW S, NEW s \in Seq(S), NEW x \in S
    PROVE  /\ Append(s, x) \in Seq(S) /\ Len(Append(s, x)) = Len(s) + 1
           /\ Range(Append(s, x)) = Range(s) \cup {x}
           /\ Range(s) \subseteq S
<1>1. /\ Append(s, x) \in Seq(S) /\ Len(Append(s, x)) = Len(s) + 1
      /\ DOMAIN Append(s, x) = 1 .. Len(s) + 1 /\ DOMAIN s = 1 .. Len(s) /\ Len(s) \in Nat
      /\ \A i \in 1 .. Len(s) : Append(s, x)[i] = s[i] /\ s[i] \in S
      /\ Append(s, x)[Len(s) + 1] = x
  OBVIOUS
<1>2. DOMAIN Append(s, x) = DOMAIN s \cup {Len(s) + 1}
  BY <1>1
<1>3. Range(Append(s, x)) = Range(s) \cup {x}
  <2>1. ASSUME NEW y \in Range(Append(s, x)) PROVE y \in Range(s) \cup {x}
    <3>1. PICK i \in DOMAIN Append(s, x) : y = Append(s, x)[i]
      BY DEF Range
    <3>2. CASE i \in DOMAIN s
      BY <3>1, <3>2, <1>1 DEF Range
    <3>3. CASE i = Len(s) + 1
      BY <3>1, <3>3, <1>1
    <3> QED
      BY <1>2, <3>2, <3>3
  <2>2. ASSUME NEW y \in Range(s) PROVE y \in Range(Append(s, x))
    <3>1. PICK i \in DOMAIN s : y = s[i]
      BY DEF Range
    <3>2. i \in DOMAIN Append(s, x) /\ y = Append(s, x)[i]
      BY <3>1, <1>1, <1>2
    <3> QED
      BY <3>2 DEF Range
  <2>3. x \in Range(Append(s, x))
    <3>1. Len(s) + 1 \in DOMAIN Append(s, x)
      BY <1>2
    <3> QED
      BY <3>1, <1>1, Zenon DEF Range
  <2> QED
    BY <2>1, <2>2, <2>3
<1> QED
  BY <1>1, <1>3 DEF Range

Distinct(s) == \A i, j \in DOMAIN s : s[i] = s[j] => i = j

(* Taking the head off a sequence, in particular one without repetition. *)
LEMMA TailRange ==
    ASSUME NEW S, NEW s \in Seq(S), s # <<>>
    PROVE  /\ Head(s) \in S /\ Tail(s) \in Seq(S)
           /\ Range(s) = {Head(s)} \cup Range(Tail(s))
           /\ Distinct(s) => Distinct(Tail(s)) /\ Head(s) \notin Range(Tail(s))
<1>1. /\ Head(s) = s[1] /\ Head(s) \in S /\ Tail(s) \in Seq(S) /\ Len(s) \in Nat \ {0}
      /\ DOMAIN s = 1 .. Len(s) /\ DOMAIN Tail(s) = 1 .. Len(s) - 1
      /\ \A i \in 1 .. Len(s) - 1 : Tail(s)[i] = s[i + 1]
  OBVIOUS
<1>2. ASSUME NEW x \in Range(s) PROVE x \in {Head(s)} \cup Range(Tail(s))
  <2>1. PICK i \in 1 .. Len(s) : x = s[i]
    BY <1>1 DEF Range
  <2>2. CASE i = 1
    BY <2>1, <2>2, <1>1
  <2>3. CASE i # 1
    <3>1. i - 1 \in 1 .. Len(s) - 1 /\ s[(i - 1) + 1] = s[i]
      BY <2>3, <1>1
    <3>2. x = Tail(s)[i - 1] /\ i - 1 \in DOMAIN Tail(s)
      BY <3>1, <2>1, <1>1
    <3> QED
      BY <3>2 DEF Range
  <2> QED
    BY <2>2, <2>3
<1>3. ASSUME NEW x \in Range(Tail(s)) PROVE \E i \in DOMAIN s : i # 1 /\ x = s[i]
  <2>1. PICK i \in 1 .. Len(s) - 1 : x = s[i + 1]
    BY <1>1 DEF Range
  <2>2. i + 1 \in DOMAIN s /\ i + 1 # 1
    BY <1>1
  <2> QED
    BY <2>1, <2>2
<1>4. Head(s) \in Range(s)
  <2>1. 1 \in DOMAIN s
    BY <1>1
  <2> QED
    BY <2>1, <1>1 DEF Range
<1>5. Range(s) = {Head(s)} \cup Range(Tail(s))
  <2>1. Range(Tail(s)) \subseteq Range(s)
    BY <1>3 DEF Range
  <2> QED
    BY <2>1, <1>2, <1>4
<1>6. ASSUME Distinct(s) PROVE Distinct(Tail(s)) /\ Head(s) \notin Range(Tail(s))
  <2>1. Head(s) \notin Range(Tail(s))
    <3>1. 1 \in DOMAIN s
      BY <1>1
    <3> QED
      BY <3>1, <1>1, <1>3, <1>6 DEF Distinct
  <2>2. ASSUME NEW i \in DOMAIN Tail(s), NEW j \in DOMAIN Tail(s), Tail(s)[i] = Tail(s)[j] PROVE i = j
    <3>1. i \in 1 .. Len(s) - 1 /\ j \in 1 .. Len(s) - 1
      BY <1>1
    <3>2. i + 1 \in DOMAIN s /\ j + 1 \in DOMAIN s /\ s[i + 1] = s[j + 1]
      BY <3>1, <2>2, <1>1
    <3>3. i + 1 = j + 1
      BY <3>2, <1>6, Zenon DEF Distinct
    <3> QED
      BY <3>1, <3>3
  <2> QED
    BY <2>1, <2>2 DEF Distinct
<1> QED
  BY <1>1, <1>5, <1>6

(* How often an element occurs in a sequence. *)
CountIn(s, y) == Cardinality({i \in DOMAIN s : s[i] = y})

LEMMA CountAppend ==
    ASSUME NEW S, NEW s \in Seq(S), NEW x \in S, NEW y
    PROVE  /\ CountIn(s, y) \in Nat
           /\ x = y => CountIn(Append(s, x), y) = CountIn(s, y) + 1
           /\ x # y => CountIn(Append(s, x), y) = CountIn(s, y)
<1> DEFINE A == {i \in DOMAIN s : s[i] = y}
           B == {i \in DOMAIN Append(s, x) : Append(s, x)[i] = y}
<1>1. /\ DOMAIN Append(s, x) = 1 .. Len(s) + 1 /\ DOMAIN s = 1 .. Len(s) /\ Len(s) \in Nat
      /\ \A i \in 1 .. Len(s) : Append(s, x)[i] = s[i]
      /\ Append(s, x)[Len(s) + 1] = x
  OBVIOUS
<1>2. IsFiniteSet(A) /\ Cardinality(A) \in Nat
  <2>1. A \in SUBSET (1 .. Len(s)) /\ IsFiniteSet(1 .. Len(s))
    BY <1>1, FS_Interval
  <2>2. IsFiniteSet(A)
    BY <2>1, FS_Subset
  <2> QED
    BY <2>2, FS_CardinalityType
<1>3. CASE x = y
  <2>1. B = A \cup {Len(s) + 1} /\ Len(s) + 1 \notin A
    BY <1>1, <1>3
  <2>2. Cardinality(B) = Cardinality(A) + 1
    BY <2>1, <1>2, FS_AddElement
  <2> QED
    BY <2>2, <1>2, <1>3, Zenon DEF CountIn
<1>4. CASE x # y
  <2>1. B = A
    BY <1>1, <1>4
  <2> QED
    BY <2>1, <1>2, <1>4, Zenon DEF CountIn
<1> QED
  BY <1>2, <1>3, <1>4, Zenon DEF CountIn

(* normalizeReplayEventIDs keeps every id that is named, once. *)
LEMMA NamedOnceOK ==
    ASSUME NEW S, NEW raw \in Seq(S)
    PROVE  /\ NamedOnce(raw) \in Seq(S)
           /\ Distinct(NamedOnce(raw))
           /\ Range(NamedOnce(raw)) = Range(raw)
<1> DEFINE F == FirstNamed(raw)
           below == [i \in F |-> {j \in F : j < i}]
           n == Cardinality(F)
           place(k) == CHOOSE i \in F : Cardinality({j \in F : j < i}) = k - 1
<1>1. DOMAIN raw = 1 .. Len(raw) /\ Len(raw) \in Nat /\ \A i \in DOMAIN raw : raw[i] \in S
  OBVIOUS
<1>2. F \subseteq DOMAIN raw /\ F \in SUBSET Nat
  BY <1>1 DEF FirstNamed
<1>3. IsFiniteSet(F) /\ n \in Nat
  <2>1. F \in SUBSET (1 .. Len(raw)) /\ IsFiniteSet(1 .. Len(raw))
    BY <1>1, <1>2, FS_Interval
  <2>2. IsFiniteSet(F)
    BY <2>1, FS_Subset
  <2> QED
    BY <2>2, FS_CardinalityType
<1>4. below \in [F -> SUBSET F] /\ \A i \in F : below[i] = {j \in F : j < i}
  OBVIOUS
<1>5. /\ \A i \in F : i \notin below[i]
      /\ \A i, j \in F : i # j => i \in below[j] \/ j \in below[i]
      /\ \A i, j \in F : i \in below[j] => below[i] \subseteq below[j]
  BY <1>2, <1>4
<1>6. /\ \A k \in 1 .. n : \E i \in F : Cardinality(below[i]) = k - 1
      /\ \A i \in F : Cardinality(below[i]) \in 0 .. n - 1
      /\ \A i, j \in F : i \in below[j] <=> Cardinality(below[i]) < Cardinality(below[j])
  <2> HIDE DEF F, below
  <2> QED
    BY <1>3, <1>4, <1>5, Ranks
<1>7. ASSUME NEW k \in 1 .. n
      PROVE  place(k) \in F /\ Cardinality(below[place(k)]) = k - 1
  <2>1. \E i \in F : Cardinality({j \in F : j < i}) = k - 1
    BY <1>4, <1>6
  <2>2. place(k) \in F /\ Cardinality({j \in F : j < place(k)}) = k - 1
    BY <2>1
  <2> QED
    BY <2>2, <1>4
<1>8. NamedOnce(raw) = [k \in 1 .. n |-> raw[place(k)]]
  BY Zenon DEF NamedOnce
<1>9. \A i, j \in F : raw[i] = raw[j] => i = j
  <2> SUFFICES ASSUME NEW i \in F, NEW j \in F, raw[i] = raw[j], i < j PROVE FALSE
    BY <1>2
  <2>1. i \in 1 .. j - 1
    BY <1>1, <1>2
  <2> QED
    BY <2>1 DEF FirstNamed
<1>10. NamedOnce(raw) \in Seq(S)
  <2>1. \A k \in 1 .. n : raw[place(k)] \in S
    BY <1>1, <1>2, <1>7
  <2> HIDE DEF place, n
  <2> QED
    BY <2>1, <1>3, <1>8, SeqDef
<1>11. DOMAIN NamedOnce(raw) = 1 .. n /\ \A k \in 1 .. n : NamedOnce(raw)[k] = raw[place(k)]
  BY <1>8
<1>12. ASSUME NEW k \in 1 .. n, NEW l \in 1 .. n, NamedOnce(raw)[k] = NamedOnce(raw)[l]
       PROVE  k = l
  <2>1. place(k) = place(l)
    BY <1>12, <1>11, <1>9, <1>7
  <2>2. k - 1 = l - 1
    BY <2>1, <1>7
  <2> QED
    BY <2>2, <1>3
<1>13. ASSUME NEW x \in Range(raw) PROVE x \in Range(NamedOnce(raw))
  <2> DEFINE T == {i \in DOMAIN raw : raw[i] = x}
  <2>1. T \in SUBSET Nat /\ T # {}
    BY <1>1, <1>13 DEF Range
  <2>2. PICK i \in T : \A j \in T : i <= j
    BY <2>1, LeastNatural
  <2>3. i \in F
    <3>1. ASSUME NEW j \in 1 .. i - 1 PROVE raw[j] # raw[i]
      <4>1. j \in DOMAIN raw /\ ~(i <= j)
        BY <1>1
      <4> QED
        BY <4>1, <2>2
    <3> QED
      BY <3>1 DEF FirstNamed
  <2>4. PICK k \in 1 .. n : k - 1 = Cardinality(below[i])
    <3>1. Cardinality(below[i]) + 1 \in 1 .. n
      BY <2>3, <1>6, <1>3
    <3>2. (Cardinality(below[i]) + 1) - 1 = Cardinality(below[i])
      BY <2>3, <1>6, <1>3
    <3> QED
      BY <3>1, <3>2
  <2>5. place(k) = i
    <3>1. place(k) \in F /\ Cardinality(below[place(k)]) = Cardinality(below[i])
      BY <1>7, <2>4
    <3>2. ~(place(k) \in below[i]) /\ ~(i \in below[place(k)])
      <4>1. Cardinality(below[i]) \in Nat
        BY <1>6, <1>3, <2>3
      <4>2. ~(Cardinality(below[i]) < Cardinality(below[i]))
        BY <4>1
      <4>3. \A j, l \in F : j \in below[l] => Cardinality(below[j]) < Cardinality(below[l])
        BY <1>6
      <4> HIDE DEF below, place, F
      <4> QED
        BY <4>2, <4>3, <3>1, <2>3, Zenon
    <3> QED
      BY <3>1, <3>2, <1>5, <2>3
  <2> QED
    BY <2>5, <1>11 DEF Range
<1>14. ASSUME NEW x \in Range(NamedOnce(raw)) PROVE x \in Range(raw)
  BY <1>14, <1>11, <1>7, <1>2 DEF Range
<1> QED
  BY <1>10, <1>11, <1>12, <1>13, <1>14 DEF Distinct

-------------------------------------------------------------------------------
(* Types and phases *)

Labels == {"new", "next", "load", "publish", "audit", "save", "respond", "done", "dead", "cli"}
Outcomes == [event: Events, status: Statuses, http: Nat]

(* A request to the API, as opposed to a run of the command. *)
API(r) == plan[r].kind \in {"single", "batch"}

(* Between the end of executeReplay's work on an event and the end of the   *)
(* Save of its audit record.                                                *)
Recording(r) == pc[r] \in {"audit", "save"}

(* The publisher has taken the event that is being recorded. *)
Accepting(r) == Recording(r) /\ stage[r].status = "accepted"

TypeOK ==
    /\ failed \subseteq Events /\ hasStore \in BOOLEAN
    /\ clock \in 0 .. MaxClock
    /\ plan \in [Requests -> Plan]
    /\ pc \in [Requests -> Labels]
    /\ ended \in [Requests -> BOOLEAN]
    /\ todo \in [Requests -> Seq(Events)]
    /\ stage \in [Requests -> Outcomes \cup {None}]
    /\ rec \in [Requests -> AuditRecord \cup {None}]
    /\ results \in [Requests -> Seq(Statuses)]
    /\ DOMAIN reply = Requests
    /\ published \in [Requests -> Seq(Events \cup {Blank})]
    /\ backend \in {"file", "postgres"}
    /\ audit \subseteq Earlier \cup AuditRecord
    /\ torn \in BOOLEAN /\ (backend = "postgres" => ~torn)
    /\ saveErrors \in Nat /\ crashes \in Nat

(* What the place of a request says about the rest of its state. *)
Phase(r) ==
    /\ pc[r] = "new" => todo[r] = <<>> /\ results[r] = <<>> /\ published[r] = <<>> /\ stage[r] = None
    /\ pc[r] = "cli" => published[r] = <<>>
    /\ API(r) => pc[r] # "cli"
    /\ ~API(r) => pc[r] \in {"new", "cli", "done"} /\ todo[r] = <<>>
    /\ pc[r] = "next" => plan[r].kind = "batch"
    /\ pc[r] \in {"load", "publish"} \/ Recording(r) => todo[r] # <<>>
    /\ pc[r] \in {"next", "load", "publish"} => stage[r] = None
    /\ Recording(r) => stage[r] \in Outcomes /\ stage[r].event = Head(todo[r])
    /\ Accepting(r) => stage[r].event \in Range(published[r])
    /\ pc[r] = "save" =>
        /\ rec[r] \in AuditRecord
        /\ rec[r].who = r /\ rec[r].event = stage[r].event /\ rec[r].result = stage[r].status

TypeInv == TypeOK /\ \A r \in Requests : Phase(r)

LEMMA InitTypes == Init => TypeInv
<1> SUFFICES ASSUME Init PROVE TypeInv
  OBVIOUS
<1> USE ReplayAssumption DEF Init
<1>1. plan \in [Requests -> Plan]
  OBVIOUS
<1>2. TypeOK
  <2>1. pc \in [Requests -> Labels] /\ ended \in [Requests -> BOOLEAN]
    BY DEF Labels
  <2>2. /\ todo \in [Requests -> Seq(Events)] /\ results \in [Requests -> Seq(Statuses)]
        /\ published \in [Requests -> Seq(Events \cup {Blank})]
    OBVIOUS
  <2>3. /\ stage \in [Requests -> Outcomes \cup {None}] /\ rec \in [Requests -> AuditRecord \cup {None}]
        /\ DOMAIN reply = Requests
    OBVIOUS
  <2>4. clock \in 0 .. MaxClock /\ saveErrors \in Nat /\ crashes \in Nat
    <3>1. MaxClock \in Nat
      BY Zenon
    <3> QED
      BY <3>1
  <2>5. failed \subseteq Events /\ hasStore \in BOOLEAN /\ audit \subseteq Earlier \cup AuditRecord
    OBVIOUS
  <2>6. backend \in {"file", "postgres"} /\ torn \in BOOLEAN /\ (backend = "postgres" => ~torn)
    OBVIOUS
  <2> QED
    BY <1>1, <2>1, <2>2, <2>3, <2>4, <2>5, <2>6, Zenon DEF TypeOK
<1>3. ASSUME NEW r \in Requests PROVE Phase(r)
  BY DEF Phase, API, Recording, Accepting
<1> QED
  BY <1>2, <1>3 DEF TypeInv

(* A request keeps what holds of it when it does not move. *)
LEMMA PhaseStays ==
    ASSUME NEW r \in Requests, Phase(r),
           plan'[r] = plan[r], pc'[r] = pc[r], todo'[r] = todo[r], stage'[r] = stage[r], rec'[r] = rec[r],
           results'[r] = results[r], published'[r] = published[r]
    PROVE  Phase(r)'
<1>1. /\ API(r)' = API(r) /\ Recording(r)' = Recording(r) /\ Accepting(r)' = Accepting(r)
  BY Zenon DEF API, Recording, Accepting
<1> QED
  BY <1>1 DEF Phase

(* What a request that is not refused has to replay: the events it names,   *)
(* each once.                                                               *)
LEMMA NormalizedIDs ==
    ASSUME NEW q \in Plan
    PROVE  /\ normalizeReplayEventIDs(q.ids) \in Seq(Events)
           /\ Distinct(normalizeReplayEventIDs(q.ids))
           /\ normalizeReplayEventIDs(q.ids) # <<>> => Range(normalizeReplayEventIDs(q.ids)) = Range(q.ids)
<1> DEFINE raw == q.ids
           ids == NamedOnce(raw)
<1>1. raw \in Seq(Events \cup {Blank})
  BY DEF Plan
<1>2. ids \in Seq(Events \cup {Blank}) /\ Distinct(ids) /\ Range(ids) = Range(raw)
  BY <1>1, NamedOnceOK
<1>3. CASE normalizeReplayEventIDs(raw) = <<>>
  <2>1. <<>> \in Seq(Events) /\ Distinct(<<>>)
    BY DEF Distinct
  <2> QED
    BY <2>1, <1>3
<1>4. CASE normalizeReplayEventIDs(raw) # <<>>
  <2>1. normalizeReplayEventIDs(raw) = ids /\ Blank \notin Range(raw)
    BY <1>4, Zenon DEF normalizeReplayEventIDs
  <2>2. \A i \in DOMAIN ids : ids[i] \in Events
    <3> HIDE DEF ids, raw
    <3>1. ASSUME NEW i \in DOMAIN ids PROVE ids[i] \in Range(ids) /\ ids[i] \in Events \cup {Blank}
      BY <1>2 DEF Range
    <3> QED
      BY <3>1, <2>1, <1>2
  <2>3. ids \in Seq(Events)
    <3> HIDE DEF ids
    <3> QED
      BY <2>2, <1>2
  <2> QED
    BY <2>1, <2>3, <1>2
<1> QED
  BY <1>3, <1>4

(* A step of one request leaves the others as they are. *)
Untouched(s) ==
    /\ plan'[s] = plan[s] /\ pc'[s] = pc[s] /\ ended'[s] = ended[s] /\ todo'[s] = todo[s]
    /\ stage'[s] = stage[s] /\ rec'[s] = rec[s] /\ results'[s] = results[s] /\ reply'[s] = reply[s]
    /\ published'[s] = published[s]

RequestStep(r) ==
    \/ Begin(r) \/ Cancel(r) \/ NextEvent(r) \/ executeReplay(r) \/ Publish(r)
    \/ Stamp(r) \/ SaveOK(r) \/ SaveFails(r) \/ Respond(r)
    \/ runReplay(r) \/ runReplayPublish(r)

LEMMA OthersUntouched ==
    ASSUME TypeOK, NEW r \in Requests, RequestStep(r), NEW s \in Requests, s # r
    PROVE  Untouched(s)
<1> USE DEF Untouched, TypeOK
<1>1. CASE Begin(r)
  BY <1>1 DEF Begin
<1>2. CASE Cancel(r)
  BY <1>2 DEF Cancel
<1>3. CASE NextEvent(r)
  BY <1>3 DEF NextEvent
<1>4. CASE executeReplay(r)
  BY <1>4 DEF executeReplay, Outcome
<1>5. CASE Publish(r)
  BY <1>5 DEF Publish, Outcome
<1>6. CASE Stamp(r)
  BY <1>6 DEF Stamp
<1>7. CASE SaveOK(r)
  BY <1>7 DEF SaveOK, Return
<1>8. CASE SaveFails(r)
  BY <1>8 DEF SaveFails, Return
<1>9. CASE Respond(r)
  BY <1>9 DEF Respond
<1>10. CASE runReplay(r)
  BY <1>10 DEF runReplay, Exit
<1>11. CASE runReplayPublish(r)
  BY <1>11 DEF runReplayPublish, Exit
<1> QED
  BY <1>1, <1>2, <1>3, <1>4, <1>5, <1>6, <1>7, <1>8, <1>9, <1>10, <1>11 DEF RequestStep

(* So an invariant of every request has to be shown of the one that moves. *)
LEMMA PhaseOfOne ==
    ASSUME TypeInv, NEW r \in Requests, RequestStep(r), TypeOK', Phase(r)'
    PROVE  TypeInv'
<1>1. ASSUME NEW s \in Requests PROVE Phase(s)'
  <2>1. CASE s = r
    BY <2>1
  <2>2. CASE s # r
    <3>1. Untouched(s)
      BY <2>2, OthersUntouched DEF TypeInv
    <3> QED
      BY <3>1, PhaseStays DEF TypeInv, Untouched
  <2> QED
    BY <2>1, <2>2
<1> QED
  BY <1>1 DEF TypeInv

LEMMA BeginTypes ==
    ASSUME TypeInv, NEW r \in Requests, Begin(r)
    PROVE  TypeInv'
<1> DEFINE ids == normalizeReplayEventIDs(plan[r].ids)
<1>1. plan[r] \in Plan /\ ids \in Seq(Events) /\ Phase(r)
  BY NormalizedIDs DEF TypeInv, TypeOK
<1> HIDE DEF ids
<1>2. /\ pc[r] = "new" /\ plan[r].kind \in {"single", "batch"}
      /\ \/ pc'[r] = "done" /\ todo' = todo
         \/ /\ pc'[r] = IF plan[r].kind = "batch" THEN "next" ELSE "load"
            /\ todo' = [todo EXCEPT ![r] = ids] /\ ids # <<>>
      /\ pc' = [pc EXCEPT ![r] = pc'[r]] /\ DOMAIN reply' = DOMAIN reply
      /\ UNCHANGED <<failed, hasStore, clock, plan, ended, stage, rec, results, published, backend, audit, torn,
                     saveErrors, crashes>>
  BY DEF Begin, ids, TypeInv, TypeOK, store, auditVars
<1>3. TypeOK'
  <2>1. pc'[r] \in Labels
    BY <1>2 DEF Labels
  <2>2. pc' \in [Requests -> Labels]
    BY <1>2, <2>1 DEF TypeInv, TypeOK
  <2>3. todo' \in [Requests -> Seq(Events)]
    BY <1>1, <1>2 DEF TypeInv, TypeOK
  <2>4. DOMAIN reply' = Requests
    BY <1>2 DEF TypeInv, TypeOK
  <2> QED
    BY <1>2, <2>2, <2>3, <2>4 DEF TypeInv, TypeOK
<1>4. Phase(r)'
  <2>1. pc'[r] \in {"done", "next", "load"}
    BY <1>2
  <2>2. ~Recording(r)' /\ ~Accepting(r)' /\ API(r)'
    BY <2>1, <1>2 DEF Recording, Accepting, API
  <2>3. todo'[r] = IF pc'[r] = "done" THEN todo[r] ELSE ids
    BY <1>2 DEF TypeInv, TypeOK
  <2>4. stage[r] = None
    BY <1>1, <1>2 DEF Phase
  <2> QED
    BY <2>1, <2>2, <2>3, <2>4, <1>2 DEF Phase
<1> QED
  BY <1>3, <1>4, PhaseOfOne DEF RequestStep

LEMMA CancelTypes ==
    ASSUME TypeInv, NEW r \in Requests, Cancel(r)
    PROVE  TypeInv'
<1>1. TypeOK'
  BY DEF Cancel, TypeInv, TypeOK, store, auditVars
<1>2. Phase(r)'
  BY PhaseStays DEF Cancel, TypeInv
<1> QED
  BY <1>1, <1>2, PhaseOfOne DEF RequestStep

LEMMA NextEventTypes ==
    ASSUME TypeInv, NEW r \in Requests, NextEvent(r)
    PROVE  TypeInv'
<1>1. TypeOK'
  BY DEF NextEvent, TypeInv, TypeOK, Labels, store, auditVars
<1>2. Phase(r)'
  BY DEF NextEvent, TypeInv, TypeOK, Phase, API, Recording, Accepting
<1> QED
  BY <1>1, <1>2, PhaseOfOne DEF RequestStep

LEMMA executeReplayTypes ==
    ASSUME TypeInv, NEW r \in Requests, executeReplay(r)
    PROVE  TypeInv'
<1>1. Phase(r) /\ pc[r] = "load" /\ todo[r] # <<>> /\ stage[r] = None /\ todo[r] \in Seq(Events) /\ plan[r] \in Plan
  BY DEF executeReplay, TypeInv, TypeOK, Phase
<1>2. Head(todo[r]) \in Events
  BY <1>1, TailRange
<1>3. /\ UNCHANGED <<failed, hasStore, clock, plan, ended, todo, rec, results, reply, published, backend, audit, torn,
                     saveErrors, crashes>>
      /\ \/ pc' = [pc EXCEPT ![r] = "publish"] /\ stage' = stage
         \/ \E status \in {"failed", "validated"}, http \in Nat : Outcome(r, status, http)
  BY DEF executeReplay, store, auditVars
<1>4. CASE pc' = [pc EXCEPT ![r] = "publish"] /\ stage' = stage
  <2>1. TypeOK'
    BY <1>3, <1>4 DEF TypeInv, TypeOK, Labels
  <2>2. Phase(r)'
    BY <1>1, <1>3, <1>4 DEF TypeInv, TypeOK, Phase, API, Recording, Accepting
  <2> QED
    BY <2>1, <2>2, PhaseOfOne DEF RequestStep
<1>5. ASSUME NEW status \in {"failed", "validated"}, NEW http \in Nat, Outcome(r, status, http) PROVE TypeInv'
  <2> DEFINE o == [event |-> Head(todo[r]), status |-> status, http |-> http]
  <2>1. /\ pc' = [pc EXCEPT ![r] = "audit"] /\ stage' = [stage EXCEPT ![r] = o]
        /\ o \in Outcomes /\ o.status # "accepted" /\ o.event = Head(todo[r])
    BY <1>5, <1>2 DEF Outcome, Outcomes, Statuses
  <2> HIDE DEF o
  <2>2. TypeOK'
    BY <1>3, <2>1 DEF TypeInv, TypeOK, Labels
  <2>3. pc'[r] = "audit" /\ stage'[r] = o
    BY <2>1 DEF TypeInv, TypeOK
  <2>4. Phase(r)'
    BY <1>1, <1>3, <2>1, <2>3 DEF Phase, API, Recording, Accepting
  <2> QED
    BY <2>2, <2>4, PhaseOfOne DEF RequestStep
<1> QED
  BY <1>3, <1>4, <1>5

LEMMA PublishTypes ==
    ASSUME TypeInv, NEW r \in Requests, Publish(r)
    PROVE  TypeInv'
<1>1. /\ Phase(r) /\ pc[r] = "publish" /\ todo[r] # <<>> /\ todo[r] \in Seq(Events) /\ API(r)
      /\ published[r] \in Seq(Events \cup {Blank})
  BY DEF Publish, TypeInv, TypeOK, Phase
<1>2. Head(todo[r]) \in Events
  BY <1>1, TailRange
<1>3. UNCHANGED <<failed, hasStore, clock, plan, ended, todo, rec, results, reply, backend, audit, torn,
                  saveErrors, crashes>>
  BY DEF Publish, store, auditVars
<1>4. PICK status \in {"accepted", "failed"}, http \in Nat :
        /\ Outcome(r, status, http)
        /\ published' = IF status = "accepted"
                        THEN [published EXCEPT ![r] = Append(published[r], Head(todo[r]))] ELSE published
  BY DEF Publish
<1> DEFINE o == [event |-> Head(todo[r]), status |-> status, http |-> http]
<1>5. /\ pc' = [pc EXCEPT ![r] = "audit"] /\ stage' = [stage EXCEPT ![r] = o]
      /\ o \in Outcomes /\ o.status = status /\ o.event = Head(todo[r])
  BY <1>4, <1>2 DEF Outcome, Outcomes, Statuses
<1> HIDE DEF o
<1>6. /\ Append(published[r], Head(todo[r])) \in Seq(Events \cup {Blank})
      /\ Range(Append(published[r], Head(todo[r]))) = Range(published[r]) \cup {Head(todo[r])}
  BY <1>1, <1>2, AppendRange
<1>7. TypeOK'
  BY <1>3, <1>4, <1>5, <1>6 DEF TypeInv, TypeOK, Labels
<1>8. /\ pc'[r] = "audit" /\ stage'[r] = o
      /\ published'[r] = IF status = "accepted" THEN Append(published[r], Head(todo[r])) ELSE published[r]
  BY <1>4, <1>5 DEF TypeInv, TypeOK
<1>9. status = "accepted" => o.event \in Range(published'[r])
  BY <1>5, <1>6, <1>8
<1>10. Phase(r)'
  BY <1>1, <1>3, <1>5, <1>8, <1>9 DEF Phase, API, Recording, Accepting
<1> QED
  BY <1>7, <1>10, PhaseOfOne DEF RequestStep

LEMMA StampTypes ==
    ASSUME TypeInv, NEW r \in Requests, Stamp(r)
    PROVE  TypeInv'
<1>1. /\ Phase(r) /\ pc[r] = "audit" /\ Recording(r) /\ stage[r] \in Outcomes
  BY DEF Stamp, TypeInv, Phase, Recording
<1>2. PICK id \in AuditIDs :
        rec' = [rec EXCEPT ![r] = [id |-> id, at |-> clock, who |-> r, event |-> stage[r].event,
                                   result |-> stage[r].status]]
  BY DEF Stamp
<1> DEFINE line == [id |-> id, at |-> clock, who |-> r, event |-> stage[r].event, result |-> stage[r].status]
<1>3. line \in AuditRecord /\ line.who = r /\ line.event = stage[r].event /\ line.result = stage[r].status
  BY <1>1 DEF AuditRecord, Outcomes, TypeInv, TypeOK
<1>4. rec' = [rec EXCEPT ![r] = line]
  BY <1>2
<1> HIDE DEF line
<1>5. /\ pc' = [pc EXCEPT ![r] = "save"]
      /\ UNCHANGED <<failed, hasStore, clock, plan, ended, todo, stage, results, reply, published, backend, audit,
                     torn, saveErrors, crashes>>
  BY DEF Stamp, store
<1>6. TypeOK'
  BY <1>3, <1>4, <1>5 DEF TypeInv, TypeOK, Labels
<1>7. pc'[r] = "save" /\ rec'[r] = line
  BY <1>4, <1>5 DEF TypeInv, TypeOK
<1>8. /\ API(r)' = API(r) /\ Recording(r)' = Recording(r) /\ Accepting(r)' = Accepting(r)
  BY <1>1, <1>5, <1>7 DEF API, Recording, Accepting
<1>9. Phase(r)'
  BY <1>1, <1>3, <1>5, <1>7, <1>8 DEF Phase
<1> QED
  BY <1>6, <1>9, PhaseOfOne DEF RequestStep

(* What both forms of the audit Save do to the request. *)
LEMMA Returned ==
    ASSUME TypeInv, NEW r \in Requests, pc[r] = "save", Return(r)
    PROVE  /\ todo[r] # <<>> /\ todo[r] \in Seq(Events) /\ stage[r] \in Outcomes /\ API(r)
           /\ todo' = [todo EXCEPT ![r] = Tail(todo[r])] /\ Tail(todo[r]) \in Seq(Events)
           /\ todo'[r] = Tail(todo[r])
           /\ results' = [results EXCEPT ![r] = Append(results[r], stage[r].status)]
           /\ results'[r] = Append(results[r], stage[r].status)
           /\ results'[r] \in Seq(Statuses)
           /\ plan[r].kind = "batch" => pc'[r] = "next" /\ stage'[r] = None
           /\ plan[r].kind # "batch" => pc'[r] = "respond" /\ stage'[r] = stage[r]
           /\ rec'[r] = None
           /\ UNCHANGED <<failed, hasStore, clock, plan, ended, reply, published, backend, crashes>>
<1>1. /\ Phase(r) /\ Recording(r) /\ todo[r] # <<>> /\ todo[r] \in Seq(Events) /\ stage[r] \in Outcomes /\ API(r)
      /\ results[r] \in Seq(Statuses)
  BY DEF TypeInv, TypeOK, Phase, Recording
<1>2. stage[r].status \in Statuses
  BY <1>1 DEF Outcomes
<1>3. Tail(todo[r]) \in Seq(Events) /\ Append(results[r], stage[r].status) \in Seq(Statuses)
  BY <1>1, <1>2, TailRange, AppendRange
<1> QED
  BY <1>1, <1>3 DEF Return, TypeInv, TypeOK, store

LEMMA ReturnTypes ==
    ASSUME TypeInv, NEW r \in Requests, SaveOK(r) \/ SaveFails(r)
    PROVE  TypeInv'
<1>1. pc[r] = "save" /\ Return(r) /\ Phase(r) /\ rec[r] \in AuditRecord
  BY DEF SaveOK, SaveFails, TypeInv, Phase
<1>2. /\ audit' \subseteq audit \cup {rec[r]}
      /\ torn' \in BOOLEAN /\ (backend = "postgres" => ~torn')
      /\ saveErrors' \in {saveErrors, saveErrors + 1}
  <2>1. AppendLine(rec[r]) => audit' \subseteq audit \cup {rec[r]} /\ torn' = FALSE
    BY DEF AppendLine
  <2>2. torn \in BOOLEAN /\ (backend = "postgres" => ~torn)
    BY DEF TypeInv, TypeOK
  <2>3. CASE SaveOK(r)
    BY <2>1, <2>3 DEF SaveOK
  <2>4. CASE SaveFails(r)
    <3>1. \/ AppendLine(rec[r])
          \/ backend = "file" /\ torn' = TRUE /\ UNCHANGED audit
          \/ audit' = audit /\ torn' = torn
      BY <2>4 DEF SaveFails
    <3>2. saveErrors' = saveErrors + 1
      BY <2>4 DEF SaveFails
    <3>3. CASE AppendLine(rec[r])
      BY <3>2, <3>3, <2>1
    <3>4. CASE backend = "file" /\ torn' = TRUE /\ UNCHANGED audit
      BY <3>2, <3>4
    <3>5. CASE audit' = audit /\ torn' = torn
      BY <3>2, <3>5, <2>2
    <3> QED
      BY <3>1, <3>3, <3>4, <3>5
  <2> QED
    BY <2>3, <2>4
<1>3. /\ pc' = [pc EXCEPT ![r] = IF plan[r].kind = "batch" THEN "next" ELSE "respond"]
      /\ stage' = [stage EXCEPT ![r] = IF plan[r].kind = "batch" THEN None ELSE stage[r]]
      /\ rec' = [rec EXCEPT ![r] = None]
  BY <1>1 DEF Return
<1>4. TypeOK'
  <2>1. /\ pc' \in [Requests -> Labels] /\ stage' \in [Requests -> Outcomes \cup {None}]
        /\ rec' \in [Requests -> AuditRecord \cup {None}]
    BY <1>3 DEF TypeInv, TypeOK, Labels
  <2>2. todo' \in [Requests -> Seq(Events)]
    <3>1. todo' = [todo EXCEPT ![r] = Tail(todo[r])] /\ Tail(todo[r]) \in Seq(Events)
      BY <1>1, Returned
    <3> QED
      BY <3>1 DEF TypeInv, TypeOK
  <2>3. results' \in [Requests -> Seq(Statuses)]
    <3>1. /\ results' = [results EXCEPT ![r] = Append(results[r], stage[r].status)]
          /\ results'[r] = Append(results[r], stage[r].status) /\ results'[r] \in Seq(Statuses)
      BY <1>1, Returned
    <3> QED
      BY <3>1 DEF TypeInv, TypeOK
  <2>4. /\ UNCHANGED <<failed, hasStore, clock, plan, ended, reply, published, backend, crashes>>
        /\ audit' \subseteq Earlier \cup AuditRecord /\ saveErrors' \in Nat
    BY <1>1, <1>2, Returned DEF TypeInv, TypeOK, Return, store
  <2> QED
    BY <2>1, <2>2, <2>3, <2>4, <1>2 DEF TypeInv, TypeOK
<1>5. pc'[r] = IF plan[r].kind = "batch" THEN "next" ELSE "respond"
  BY <1>3 DEF TypeInv, TypeOK
<1>6. ~Recording(r)' /\ ~Accepting(r)' /\ (API(r)' <=> API(r)) /\ API(r)
  BY <1>1, <1>5, Returned DEF Recording, Accepting, API
<1>7. Phase(r)'
  BY <1>1, <1>5, <1>6, Returned DEF Phase
<1> QED
  BY <1>4, <1>7, PhaseOfOne DEF RequestStep

LEMMA RespondTypes ==
    ASSUME TypeInv, NEW r \in Requests, Respond(r)
    PROVE  TypeInv'
<1>1. /\ pc[r] = "respond" /\ Phase(r) /\ pc' = [pc EXCEPT ![r] = "done"] /\ pc'[r] = "done"
      /\ DOMAIN reply' = DOMAIN reply
      /\ UNCHANGED <<failed, hasStore, clock, plan, ended, todo, stage, rec, results, published, backend, audit,
                     torn, saveErrors, crashes>>
  BY DEF Respond, TypeInv, TypeOK, store, auditVars
<1>2. TypeOK'
  BY <1>1 DEF TypeInv, TypeOK, Labels
<1>3. Phase(r)'
  BY <1>1 DEF Phase, API, Recording, Accepting
<1> QED
  BY <1>2, <1>3, PhaseOfOne DEF RequestStep

LEMMA CommandTypes ==
    ASSUME TypeInv, NEW r \in Requests, runReplay(r) \/ runReplayPublish(r)
    PROVE  TypeInv'
<1>1. CASE runReplay(r)
  <2>1. /\ pc[r] = "new" /\ plan[r].kind \in {"cli", "clifile"}
        /\ pc'[r] \in {"done", "cli"} /\ pc' = [pc EXCEPT ![r] = pc'[r]] /\ DOMAIN reply' = DOMAIN reply
        /\ UNCHANGED <<failed, hasStore, clock, plan, ended, todo, stage, rec, results, published, backend, audit,
                       torn, saveErrors, crashes>>
    BY <1>1 DEF runReplay, Exit, TypeInv, TypeOK, store, auditVars
  <2>2. TypeOK'
    BY <2>1 DEF TypeInv, TypeOK, Labels
  <2>3. Phase(r)'
    BY <2>1 DEF TypeInv, Phase, API, Recording, Accepting
  <2> QED
    BY <1>1, <2>2, <2>3, PhaseOfOne DEF RequestStep
<1>2. CASE runReplayPublish(r)
  <2>1. /\ pc[r] = "cli" /\ Phase(r) /\ plan[r] \in Plan /\ published[r] \in Seq(Events \cup {Blank})
    BY <1>2 DEF runReplayPublish, TypeInv, TypeOK
  <2>2. ~API(r) /\ plan[r].ids \in Seq(Events \cup {Blank}) /\ Len(plan[r].ids) = 1
    BY <2>1 DEF Phase, API, Plan
  <2>3. plan[r].ids[1] \in Events \cup {Blank}
    BY <2>2
  <2>4. Append(published[r], plan[r].ids[1]) \in Seq(Events \cup {Blank})
    BY <2>1, <2>3, AppendRange
  <2>5. /\ pc' = [pc EXCEPT ![r] = "done"] /\ DOMAIN reply' = DOMAIN reply
        /\ \/ published' = published
           \/ published' = [published EXCEPT ![r] = Append(published[r], plan[r].ids[1])]
        /\ UNCHANGED <<failed, hasStore, clock, plan, ended, todo, stage, rec, results, backend, audit,
                       torn, saveErrors, crashes>>
    BY <1>2 DEF runReplayPublish, Exit, TypeInv, TypeOK, store, auditVars
  <2>6. TypeOK'
    BY <2>4, <2>5 DEF TypeInv, TypeOK, Labels
  <2>7. pc'[r] = "done"
    BY <2>5 DEF TypeInv, TypeOK
  <2>8. Phase(r)'
    BY <2>1, <2>2, <2>5, <2>7 DEF Phase, API, Recording, Accepting
  <2> QED
    BY <1>2, <2>6, <2>8, PhaseOfOne DEF RequestStep
<1> QED
  BY <1>1, <1>2

(* Steps of the reader of the audit, of others on the store, and of time. *)
Aside == (\E q \in Queries : FirstPage(q)) \/ NextPage \/ StoreChanges \/ Tick \/ UNCHANGED vars

LEMMA AsideStays ==
    ASSUME Aside
    PROVE  /\ UNCHANGED <<plan, pc, ended, todo, stage, rec, results, reply, published,
                          backend, audit, torn, saveErrors, crashes>>
           /\ hasStore' = hasStore
           /\ (failed' = failed \/ \E e \in Events : failed' = IF e \in failed THEN failed \ {e} ELSE failed \cup {e})
           /\ (clock' = clock \/ (clock < MaxClock /\ clock' = clock + 1))
<1>1. ASSUME NEW q \in Queries, FirstPage(q) PROVE UNCHANGED <<store, clock, request, published, auditVars>>
  BY <1>1 DEF FirstPage
<1>2. UNCHANGED <<request, published, auditVars>>
  BY <1>1 DEF Aside, NextPage, StoreChanges, Tick, vars
<1>3. hasStore' = hasStore
  BY <1>1 DEF Aside, NextPage, StoreChanges, Tick, vars, store
<1>4. failed' = failed \/ \E e \in Events : failed' = IF e \in failed THEN failed \ {e} ELSE failed \cup {e}
  <2>1. CASE StoreChanges
    BY <2>1, Zenon DEF StoreChanges
  <2>2. CASE ~StoreChanges
    BY <1>1, <2>2 DEF Aside, NextPage, Tick, vars, store
  <2> QED
    BY <2>1, <2>2
<1>5. clock' = clock \/ (clock < MaxClock /\ clock' = clock + 1)
  <2>1. CASE Tick
    BY <2>1 DEF Tick
  <2>2. CASE ~Tick
    BY <1>1, <2>2 DEF Aside, NextPage, StoreChanges, vars
  <2> QED
    BY <2>1, <2>2
<1>6. UNCHANGED <<plan, pc, ended, todo, stage, rec, results, reply, published,
                  backend, audit, torn, saveErrors, crashes>>
  BY <1>2 DEF request, auditVars
<1> QED
  BY <1>3, <1>4, <1>5, <1>6, Zenon

LEMMA AsideTypes ==
    ASSUME TypeInv, Aside
    PROVE  TypeInv'
<1>1. MaxClock \in Nat
  BY ReplayAssumption, Zenon
<1>2. failed' \subseteq Events /\ clock' \in 0 .. MaxClock
  BY <1>1, AsideStays DEF TypeInv, TypeOK
<1>3. TypeOK'
  BY <1>2, AsideStays DEF TypeInv, TypeOK
<1>4. ASSUME NEW r \in Requests PROVE Phase(r)'
  BY AsideStays, PhaseStays DEF TypeInv
<1> QED
  BY <1>3, <1>4 DEF TypeInv

(* A crash ends every request that is under way. *)
LEMMA Crashed ==
    ASSUME TypeInv, Crash, NEW r \in Requests
    PROVE  /\ pc'[r] = IF pc[r] \in {"new", "done", "cli"} THEN pc[r] ELSE "dead"
           /\ UNCHANGED <<plan, ended, todo, stage, rec, results, reply, published>>
           /\ (pc'[r] # pc[r] => API(r))
<1>1. Phase(r)
  BY DEF TypeInv
<1> QED
  BY <1>1 DEF Crash, TypeInv, TypeOK, Phase, Labels

LEMMA CrashTypes ==
    ASSUME TypeInv, Crash
    PROVE  TypeInv'
<1>1. TypeOK'
  <2>1. pc' \in [Requests -> Labels]
    BY DEF Crash, TypeInv, TypeOK, Labels
  <2>2. UNCHANGED <<failed, hasStore, clock, plan, ended, todo, stage, rec, results, reply, published, backend,
                    saveErrors>>
    BY DEF Crash, store
  <2>3. crashes' = crashes + 1
    BY DEF Crash
  <2>4. audit' \subseteq Earlier \cup AuditRecord
    <3>1. ASSUME NEW r \in Requests, pc[r] = "save", AppendLine(rec[r]) PROVE audit' \subseteq audit \cup AuditRecord
      BY <3>1 DEF AppendLine, TypeInv, Phase
    <3> QED
      BY <3>1 DEF Crash, TypeInv, TypeOK
  <2>5. torn' \in BOOLEAN /\ (backend = "postgres" => ~torn')
    <3>1. \/ audit' = audit /\ torn' = torn
          \/ \E r \in Requests : pc[r] = "save" /\ AppendLine(rec[r])
          \/ backend = "file" /\ torn' = TRUE
      BY DEF Crash
    <3>2. CASE audit' = audit /\ torn' = torn
      BY <3>2 DEF TypeInv, TypeOK
    <3>3. CASE \E r \in Requests : pc[r] = "save" /\ AppendLine(rec[r])
      BY <3>3 DEF AppendLine
    <3>4. CASE backend = "file" /\ torn' = TRUE
      BY <3>4
    <3> QED
      BY <3>1, <3>2, <3>3, <3>4
  <2> QED
    BY <2>1, <2>2, <2>3, <2>4, <2>5 DEF TypeInv, TypeOK
<1>2. ASSUME NEW r \in Requests PROVE Phase(r)'
  <2>1. CASE pc'[r] = pc[r]
    BY <2>1, Crashed, PhaseStays DEF TypeInv
  <2>2. CASE pc'[r] # pc[r]
    <3>1. pc'[r] = "dead" /\ API(r)
      BY <2>2, Crashed
    <3> QED
      BY <3>1, Crashed DEF Phase, API, Recording, Accepting
  <2> QED
    BY <2>1, <2>2
<1> QED
  BY <1>1, <1>2 DEF TypeInv

LEMMA NextCases ==
    [Next]_vars => (\E r \in Requests : RequestStep(r)) \/ Aside \/ Crash
BY Zenon DEF Next, RequestStep, Aside

(* Type correctness, and that each request's state fits its place. *)
THEOREM TypesHold == Spec => []TypeInv
<1>1. ASSUME TypeInv, [Next]_vars PROVE TypeInv'
  <2>1. ASSUME NEW r \in Requests, RequestStep(r) PROVE TypeInv'
    BY <1>1, <2>1, BeginTypes, CancelTypes, NextEventTypes, executeReplayTypes, PublishTypes, StampTypes,
       ReturnTypes, RespondTypes, CommandTypes DEF RequestStep
  <2> QED
    BY <1>1, <2>1, AsideTypes, CrashTypes, NextCases
<1> QED
  BY <1>1, InitTypes, PTL DEF Spec

-------------------------------------------------------------------------------
(* No request publishes an event twice *)

(* What a request has still to hand to the publisher. *)
Pending(r) == IF Accepting(r) THEN Tail(todo[r]) ELSE todo[r]

(* What it has published and what it has still to publish have nothing in   *)
(* common, and neither repeats an event.                                    *)
OnceOK(r) ==
    /\ IsFiniteSet(Range(published[r])) /\ Len(published[r]) = Cardinality(Range(published[r]))
    /\ Distinct(todo[r])
    /\ pc[r] \notin {"dead", "done"} => Range(published[r]) \cap Range(Pending(r)) = {}

OnceInv == \A r \in Requests : OnceOK(r)

LEMMA EmptyRange == Range(<<>>) = {} /\ Distinct(<<>>) /\ IsFiniteSet(Range(<<>>)) /\ Cardinality(Range(<<>>)) = 0
<1>1. Range(<<>>) = {} /\ Distinct(<<>>)
  BY DEF Range, Distinct
<1> QED
  BY <1>1, FS_EmptySet

(* A step that publishes nothing and puts nothing on the list. *)
LEMMA OnceKept ==
    ASSUME NEW r \in Requests, OnceOK(r), published'[r] = published[r], Distinct(todo'[r]),
           pc'[r] \notin {"dead", "done"} =>
                pc[r] \notin {"dead", "done"} /\ Range(Pending(r)') \subseteq Range(Pending(r))
    PROVE  OnceOK(r)'
<1> HIDE DEF Pending
<1> QED
  BY DEF OnceOK

LEMMA OnceStep ==
    ASSUME TypeInv, OnceInv, NEW r \in Requests, RequestStep(r)
    PROVE  OnceOK(r)'
<1>0. OnceOK(r) /\ Phase(r) /\ todo[r] \in Seq(Events) /\ published[r] \in Seq(Events \cup {Blank}) /\ plan[r] \in Plan
  BY DEF OnceInv, TypeInv, TypeOK
<1>1. CASE Begin(r)
  <2> DEFINE ids == normalizeReplayEventIDs(plan[r].ids)
  <2>1. Distinct(ids) /\ Distinct(todo[r]) /\ Range(published[r]) = {}
    BY <1>0, <1>1, NormalizedIDs, EmptyRange DEF Begin, OnceOK, Phase
  <2>2. todo'[r] \in {ids, todo[r]} /\ published'[r] = published[r]
    BY <1>1, <1>0 DEF Begin, TypeInv, TypeOK
  <2>3. Distinct(todo'[r]) /\ Range(published'[r]) = {}
    BY <2>1, <2>2, Zenon
  <2> HIDE DEF ids
  <2> QED
    BY <2>2, <2>3, <1>0 DEF OnceOK
<1>2. CASE Cancel(r)
  <2>1. published' = published /\ todo' = todo /\ pc' = pc /\ stage' = stage
    BY <1>2 DEF Cancel
  <2>2. Pending(r)' = Pending(r)
    BY <2>1, Zenon DEF Pending, Accepting, Recording
  <2> QED
    BY <1>0, <2>1, <2>2, OnceKept DEF OnceOK
<1>3. CASE NextEvent(r)
  <2>1. published' = published /\ todo' = todo /\ pc[r] = "next" /\ pc'[r] \in {"respond", "load"}
    BY <1>3 DEF NextEvent, TypeInv, TypeOK
  <2>2. Pending(r)' = todo'[r] /\ Pending(r) = todo[r]
    BY <2>1 DEF Pending, Accepting, Recording
  <2> QED
    BY <1>0, <2>1, <2>2, OnceKept DEF OnceOK
<1>4. CASE executeReplay(r)
  <2>1. published' = published /\ todo' = todo /\ pc[r] = "load"
    BY <1>4 DEF executeReplay
  <2>2. Pending(r)' = todo'[r] /\ Pending(r) = todo[r]
    BY <1>4, <1>0 DEF executeReplay, Outcome, Pending, Accepting, Recording, TypeInv, TypeOK
  <2> QED
    BY <1>0, <2>1, <2>2, OnceKept DEF OnceOK
<1>5. CASE Publish(r)
  <2> DEFINE e == Head(todo[r])
  <2>1. /\ pc[r] = "publish" /\ pc'[r] = "audit" /\ todo' = todo /\ todo[r] # <<>>
        /\ \/ stage'[r].status = "failed" /\ published' = published
           \/ /\ stage'[r].status = "accepted"
              /\ published'[r] = Append(published[r], e)
    BY <1>0, <1>5 DEF Publish, Outcome, Phase, TypeInv, TypeOK
  <2>2. e \in Events /\ Range(todo[r]) = {e} \cup Range(Tail(todo[r])) /\ e \notin Range(Tail(todo[r]))
    BY <1>0, <2>1, TailRange DEF OnceOK
  <2>3. Range(published[r]) \cap Range(todo[r]) = {} /\ Pending(r) = todo[r]
    BY <1>0, <2>1 DEF OnceOK, Pending, Accepting, Recording
  <2>4. CASE stage'[r].status = "failed" /\ published' = published
    <3>1. Pending(r)' = todo'[r]
      BY <2>4 DEF Pending, Accepting
    <3> QED
      BY <1>0, <2>1, <2>3, <2>4, <3>1, OnceKept DEF OnceOK
  <2>5. CASE stage'[r].status = "accepted" /\ published'[r] = Append(published[r], e)
    <3>1. Pending(r)' = Tail(todo[r])
      BY <2>1, <2>5 DEF Pending, Accepting, Recording
    <3> HIDE DEF e
    <3>2. /\ Len(Append(published[r], e)) = Len(published[r]) + 1
          /\ Range(Append(published[r], e)) = Range(published[r]) \cup {e}
      BY <1>0, <2>2, AppendRange
    <3>3. e \notin Range(published[r])
      BY <2>2, <2>3
    <3>4. /\ IsFiniteSet(Range(published[r]) \cup {e})
          /\ Cardinality(Range(published[r]) \cup {e}) = Cardinality(Range(published[r])) + 1
      BY <1>0, <3>3, FS_AddElement DEF OnceOK
    <3>5. (Range(published[r]) \cup {e}) \cap Range(Tail(todo[r])) = {}
      BY <2>2, <2>3
    <3>6. /\ IsFiniteSet(Range(published'[r])) /\ Len(published'[r]) = Cardinality(Range(published'[r]))
          /\ Range(published'[r]) \cap Range(Pending(r)') = {}
      BY <1>0, <2>5, <3>1, <3>2, <3>4, <3>5, Zenon DEF OnceOK
    <3> QED
      BY <1>0, <2>1, <3>6, Zenon DEF OnceOK
  <2> QED
    BY <2>1, <2>4, <2>5
<1>6. CASE Stamp(r)
  <2>1. published' = published /\ todo' = todo /\ pc[r] = "audit" /\ pc'[r] = "save" /\ stage' = stage
    BY <1>6 DEF Stamp, TypeInv, TypeOK
  <2>2. Pending(r)' = Pending(r)
    BY <2>1 DEF Pending, Accepting, Recording
  <2> QED
    BY <1>0, <2>1, <2>2, OnceKept DEF OnceOK
<1>7. CASE SaveOK(r) \/ SaveFails(r)
  <2>1. pc[r] = "save" /\ Return(r)
    BY <1>7 DEF SaveOK, SaveFails
  <2>2. /\ published' = published /\ todo'[r] = Tail(todo[r]) /\ todo[r] # <<>>
        /\ pc'[r] \in {"next", "respond"}
    BY <2>1, Returned
  <2>3. Pending(r)' = Tail(todo[r])
    BY <2>2 DEF Pending, Accepting, Recording
  <2>4. Distinct(Tail(todo[r])) /\ Range(Tail(todo[r])) \subseteq Range(todo[r])
    BY <1>0, <2>2, TailRange DEF OnceOK
  <2>5. Range(Tail(todo[r])) \subseteq Range(Pending(r))
    BY <2>4 DEF Pending
  <2> QED
    BY <1>0, <2>1, <2>2, <2>3, <2>4, <2>5, OnceKept
<1>8. CASE Respond(r)
  <2>1. published' = published /\ todo' = todo /\ pc'[r] = "done"
    BY <1>8 DEF Respond, TypeInv, TypeOK
  <2> QED
    BY <1>0, <2>1, OnceKept DEF OnceOK
<1>9. CASE runReplay(r)
  <2>1. published' = published /\ todo' = todo /\ pc[r] = "new" /\ pc'[r] \in {"done", "cli"}
    BY <1>9 DEF runReplay, Exit, TypeInv, TypeOK
  <2>2. Pending(r)' = todo'[r] /\ Pending(r) = todo[r]
    BY <2>1 DEF Pending, Accepting, Recording
  <2> QED
    BY <1>0, <2>1, <2>2, OnceKept DEF OnceOK
<1>10. CASE runReplayPublish(r)
  <2>1. /\ pc[r] = "cli" /\ todo' = todo /\ pc'[r] = "done"
        /\ published'[r] \in {published[r], Append(published[r], plan[r].ids[1])}
    BY <1>10, <1>0 DEF runReplayPublish, Exit, TypeInv, TypeOK
  <2> DEFINE e == plan[r].ids[1]
  <2>2. published[r] = <<>> /\ e \in Events \cup {Blank}
    <3>1. ~API(r) /\ published[r] = <<>>
      BY <1>0, <2>1 DEF Phase
    <3>2. plan[r].ids \in Seq(Events \cup {Blank}) /\ Len(plan[r].ids) = 1
      BY <1>0, <3>1 DEF Plan, API
    <3> QED
      BY <3>1, <3>2
  <2>3. CASE published'[r] = published[r]
    BY <1>0, <2>1, <2>3, OnceKept DEF OnceOK
  <2>4. CASE published'[r] = Append(published[r], e)
    <3> HIDE DEF e
    <3>1. Len(published'[r]) = 1 /\ Range(published'[r]) = {e}
      <4>1. /\ Len(Append(published[r], e)) = Len(published[r]) + 1
            /\ Range(Append(published[r], e)) = Range(published[r]) \cup {e}
        <5>1. published[r] \in Seq(Events \cup {Blank}) /\ e \in Events \cup {Blank}
          BY <1>0, <2>2
        <5> QED
          BY <5>1, AppendRange
      <4>2. Len(published[r]) = 0 /\ Range(published[r]) = {}
        BY <2>2, EmptyRange
      <4> QED
        BY <2>4, <4>1, <4>2
    <3>2. IsFiniteSet({e}) /\ Cardinality({e}) = 1
      BY FS_Singleton
    <3> QED
      BY <1>0, <2>1, <3>1, <3>2, Zenon DEF OnceOK
  <2> QED
    BY <2>1, <2>3, <2>4
<1> QED
  BY <1>1, <1>2, <1>3, <1>4, <1>5, <1>6, <1>7, <1>8, <1>9, <1>10 DEF RequestStep

LEMMA OnceStays ==
    ASSUME NEW r \in Requests, OnceOK(r),
           pc'[r] = pc[r] \/ pc'[r] = "dead", todo'[r] = todo[r], stage'[r] = stage[r], published'[r] = published[r]
    PROVE  OnceOK(r)'
<1>1. CASE pc'[r] = "dead"
  BY <1>1, OnceKept DEF OnceOK
<1>2. CASE pc'[r] = pc[r]
  <2>1. Pending(r)' = Pending(r)
    BY <1>2, Zenon DEF Pending, Accepting, Recording
  <2> QED
    BY <1>2, <2>1, OnceKept DEF OnceOK
<1> QED
  BY <1>1, <1>2

(* PublishedOncePerRequest: however often a request names an event, it      *)
(* hands it to the publisher once.                                          *)
THEOREM PublishedOnce == Spec => []PublishedOncePerRequest
<1>1. Init => OnceInv
  <2> SUFFICES ASSUME Init, NEW r \in Requests PROVE OnceOK(r)
    BY DEF OnceInv
  <2>1. published[r] = <<>> /\ todo[r] = <<>> /\ Pending(r) = <<>>
    BY DEF Init, Pending, Accepting, Recording
  <2> QED
    BY <2>1, EmptyRange DEF OnceOK
<1>2. ASSUME TypeInv, OnceInv, [Next]_vars PROVE OnceInv'
  <2> SUFFICES ASSUME NEW s \in Requests PROVE OnceOK(s)'
    BY DEF OnceInv
  <2>1. OnceOK(s)
    BY <1>2 DEF OnceInv
  <2>2. ASSUME NEW r \in Requests, RequestStep(r) PROVE OnceOK(s)'
    <3>1. CASE s = r
      BY <1>2, <2>2, <3>1, OnceStep
    <3>2. CASE s # r
      BY <1>2, <2>1, <2>2, <3>2, OthersUntouched, OnceStays DEF TypeInv, Untouched
    <3> QED
      BY <3>1, <3>2
  <2>3. CASE Aside
    BY <2>1, <2>3, AsideStays, OnceStays
  <2>4. CASE Crash
    BY <1>2, <2>1, <2>4, Crashed, OnceStays
  <2> QED
    BY <1>2, <2>2, <2>3, <2>4, NextCases
<1>3. OnceInv => PublishedOncePerRequest
  BY DEF OnceInv, OnceOK, PublishedOncePerRequest
<1> QED
  BY <1>1, <1>2, <1>3, TypesHold, PTL DEF Spec

-------------------------------------------------------------------------------
(* The replay audit and what was published *)

(* Published events of the API that have no record and no request that is   *)
(* still about to write it, or died there.                                  *)
Lost == {p \in Missing : ~(p[1] \in AtAudit /\ stage[p[1]].event = p[2])}

(* What failed Saves and crashes explain; the part of a line at the end of  *)
(* the file will cost the next record.                                      *)
Explained == IF backend = "file" THEN 2 * saveErrors + crashes ELSE saveErrors
Debt == IF torn THEN 1 ELSE 0

RecordsTrue ==
    \A a \in audit \ Earlier : a.who \in Requests /\ (a.result = "accepted" => a.event \in Range(published[a.who]))

LossesExplained == Cardinality(Lost) + Debt <= Explained

LEMMA FiniteMissing ==
    ASSUME TypeInv
    PROVE  /\ IsFiniteSet(Missing) /\ IsFiniteSet(Lost) /\ IsFiniteSet(AtAudit)
           /\ Cardinality(Lost) \in Nat
           /\ Debt \in 0 .. 1 /\ Explained \in Nat
<1>1. IsFiniteSet(Requests \X Events)
  BY ReplayAssumption, FS_Product
<1>2. Missing \in SUBSET (Requests \X Events) /\ Lost \in SUBSET Missing /\ AtAudit \in SUBSET Requests
  BY DEF Missing, Lost, AtAudit
<1>3. IsFiniteSet(Missing)
  BY <1>1, <1>2, FS_Subset
<1>4. IsFiniteSet(Lost) /\ IsFiniteSet(AtAudit)
  BY <1>2, <1>3, FS_Subset, ReplayAssumption
<1>5. Cardinality(Lost) \in Nat
  BY <1>4, FS_CardinalityType
<1>6. Debt \in 0 .. 1 /\ Explained \in Nat
  BY DEF Debt, Explained, TypeInv, TypeOK
<1> QED
  BY <1>3, <1>4, <1>5, <1>6

(* The audit only grows, by records that were being saved, and so does what *)
(* is published.                                                            *)
LEMMA AuditGrows ==
    ASSUME TypeInv, [Next]_vars
    PROVE  /\ audit \subseteq audit'
           /\ \A a \in audit' \ audit : \E r \in Requests : pc[r] = "save" /\ a = rec[r]
           /\ \A r \in Requests : Range(published[r]) \subseteq Range(published'[r])
           /\ plan' = plan /\ backend' = backend
<1>1. ASSUME NEW r \in Requests, SaveOK(r) \/ SaveFails(r)
      PROVE  /\ audit' \in {audit, audit \cup {rec[r]}} /\ pc[r] = "save"
             /\ UNCHANGED <<published, plan, backend>>
  <2>1. AppendLine(rec[r]) => audit' \in {audit, audit \cup {rec[r]}}
    BY DEF AppendLine
  <2> QED
    BY <1>1, <2>1 DEF SaveOK, SaveFails, Return
<1>2. ASSUME NEW r \in Requests, RequestStep(r), ~SaveOK(r), ~SaveFails(r)
      PROVE  UNCHANGED <<audit, plan, backend>>
  BY <1>2 DEF RequestStep, Begin, Cancel, NextEvent, executeReplay, Publish, Stamp, Respond, runReplay,
              runReplayPublish, auditVars
<1>3. ASSUME NEW r \in Requests, RequestStep(r), ~Publish(r), ~runReplayPublish(r)
      PROVE  published' = published
  BY <1>3 DEF RequestStep, Begin, Cancel, NextEvent, executeReplay, Stamp, SaveOK, SaveFails, Return, Respond,
              runReplay
<1>4. ASSUME NEW r \in Requests, Publish(r) \/ runReplayPublish(r)
      PROVE  \A s \in Requests : Range(published[s]) \subseteq Range(published'[s])
  <2>0. TypeOK /\ Phase(r) /\ todo[r] \in Seq(Events) /\ plan[r] \in Plan
    BY DEF TypeInv, TypeOK
  <2>1. \E e \in Events \cup {Blank} :
            published' \in {published, [published EXCEPT ![r] = Append(published[r], e)]}
    <3>1. CASE Publish(r)
      <4>1. todo[r] # <<>>
        BY <2>0, <3>1 DEF Publish, Phase
      <4>2. Head(todo[r]) \in Events
        BY <2>0, <4>1, TailRange
      <4> QED
        BY <3>1, <4>2 DEF Publish
    <3>2. CASE runReplayPublish(r)
      <4>1. plan[r].ids \in Seq(Events \cup {Blank}) /\ Len(plan[r].ids) = 1
        BY <2>0, <3>2 DEF runReplayPublish, Phase, Plan, API
      <4>2. plan[r].ids[1] \in Events \cup {Blank}
        BY <4>1
      <4> QED
        BY <3>2, <4>2 DEF runReplayPublish
    <3> QED
      BY <1>4, <3>1, <3>2
  <2>2. PICK e \in Events \cup {Blank} :
            published' \in {published, [published EXCEPT ![r] = Append(published[r], e)]}
    BY <2>1
  <2>3. published[r] \in Seq(Events \cup {Blank})
    BY <2>0 DEF TypeOK
  <2>4. Range(Append(published[r], e)) = Range(published[r]) \cup {e}
    BY <2>3, AppendRange
  <2> QED
    BY <2>0, <2>2, <2>4 DEF TypeOK
<1>5. CASE Crash
  <2>1. UNCHANGED <<plan, backend, published>>
    BY <1>5 DEF Crash
  <2>2. audit \subseteq audit' /\ \A a \in audit' \ audit : \E r \in Requests : pc[r] = "save" /\ a = rec[r]
    BY <1>5 DEF Crash, AppendLine
  <2> QED
    BY <2>1, <2>2
<1>6. CASE Aside
  BY <1>6, AsideStays
<1>7. ASSUME NEW r \in Requests, RequestStep(r)
      PROVE  /\ audit \subseteq audit'
             /\ \A a \in audit' \ audit : \E s \in Requests : pc[s] = "save" /\ a = rec[s]
             /\ \A s \in Requests : Range(published[s]) \subseteq Range(published'[s])
             /\ plan' = plan /\ backend' = backend
  BY <1>1, <1>2, <1>3, <1>4, <1>7
<1> QED
  BY <1>5, <1>6, <1>7, NextCases

LEMMA RecordsStayTrue ==
    ASSUME TypeInv, RecordsTrue, [Next]_vars
    PROVE  RecordsTrue'
<1> SUFFICES ASSUME NEW a \in audit' \ Earlier
             PROVE  a.who \in Requests /\ (a.result = "accepted" => a.event \in Range(published'[a.who]))
  BY DEF RecordsTrue
<1>1. CASE a \in audit
  BY <1>1, AuditGrows DEF RecordsTrue
<1>2. CASE a \notin audit
  <2>1. PICK r \in Requests : pc[r] = "save" /\ a = rec[r]
    BY <1>2, AuditGrows
  <2>2. /\ a.who = r /\ a.event = stage[r].event /\ a.result = stage[r].status
        /\ (stage[r].status = "accepted" => stage[r].event \in Range(published[r]))
    BY <2>1 DEF TypeInv, Phase, Accepting, Recording
  <2> QED
    BY <2>2, AuditGrows
<1> QED
  BY <1>1, <1>2

(* An event of a request that does not move is not lost by the step. *)
LEMMA LostStays ==
    ASSUME TypeInv, audit \subseteq audit', NEW p \in Lost',
           plan'[p[1]] = plan[p[1]], published'[p[1]] = published[p[1]],
           p[1] \in AtAudit => p[1] \in AtAudit' /\ stage'[p[1]] = stage[p[1]]
    PROVE  p \in Lost
<1>1. p \in Missing'
  BY DEF Lost
<1>2. p \in Missing
  BY <1>1 DEF Missing
<1> QED
  BY <1>2 DEF Lost

LEMMA LostOfOthers ==
    ASSUME TypeInv, audit \subseteq audit', NEW r \in Requests, RequestStep(r), NEW p \in Lost', p[1] # r
    PROVE  p \in Lost
<1>1. p[1] \in Requests
  BY DEF Lost, Missing
<1>2. Untouched(p[1])
  BY <1>1, OthersUntouched DEF TypeInv
<1>3. p[1] \in AtAudit => p[1] \in AtAudit'
  BY <1>1, <1>2 DEF AtAudit, Untouched
<1> QED
  BY <1>2, <1>3, LostStays DEF Untouched

(* Up to its Save a request loses nothing. *)
LEMMA LostOfOne ==
    ASSUME TypeInv, audit \subseteq audit', NEW r \in Requests, RequestStep(r), ~SaveOK(r), ~SaveFails(r),
           NEW p \in Lost', p[1] = r
    PROVE  p \in Lost
<1>0. /\ Phase(r) /\ p \in Missing' /\ p[2] \in Events /\ p[1] \in Requests
      /\ plan'[r].kind \in {"single", "batch"} /\ p[2] \in Range(published'[r])
  BY DEF TypeInv, Lost, Missing
<1>1. CASE Begin(r)
  <2>1. published'[r] = <<>>
    BY <1>0, <1>1 DEF Begin, Phase
  <2> QED
    BY <2>1, <1>0, EmptyRange
<1>2. CASE Cancel(r)
  BY <1>2, LostStays DEF Cancel, AtAudit
<1>3. CASE NextEvent(r) \/ executeReplay(r) \/ Respond(r)
  <2>1. /\ pc[r] \in {"next", "load", "respond"}
        /\ plan' = plan /\ published' = published
    BY <1>3 DEF NextEvent, executeReplay, Respond
  <2>2. r \notin AtAudit
    BY <2>1 DEF AtAudit
  <2> QED
    BY <2>1, <2>2, LostStays
<1>4. CASE Publish(r)
  <2>1. /\ pc[r] = "publish" /\ pc'[r] = "audit" /\ todo' = todo /\ todo[r] # <<>> /\ plan' = plan
        /\ stage'[r].event = Head(todo[r])
        /\ \/ published' = published
           \/ /\ stage'[r].status = "accepted"
              /\ published'[r] = Append(published[r], Head(todo[r]))
    BY <1>0, <1>4 DEF Publish, Outcome, Phase, TypeInv, TypeOK
  <2>2. r \notin AtAudit
    BY <2>1 DEF AtAudit
  <2>3. CASE published' = published
    BY <2>1, <2>2, <2>3, LostStays
  <2>4. CASE stage'[r].status = "accepted" /\ published'[r] = Append(published[r], Head(todo[r]))
    <3>1. r \in AtAudit'
      BY <2>1, <2>4 DEF AtAudit
    <3>2. p[2] # Head(todo[r])
      BY <3>1, <2>1 DEF Lost
    <3>3. todo[r] \in Seq(Events) /\ published[r] \in Seq(Events \cup {Blank})
      BY DEF TypeInv, TypeOK
    <3>4. Head(todo[r]) \in Events
      BY <3>3, <2>1, TailRange
    <3>5. Range(published'[r]) = Range(published[r]) \cup {Head(todo[r])}
      BY <3>3, <3>4, <2>4, AppendRange
    <3>6. p[2] \in Range(published[r])
      BY <3>2, <3>5, <1>0
    <3>7. p \in Missing
      BY <1>0, <3>6, <2>1 DEF Missing
    <3> QED
      BY <3>7, <2>2 DEF Lost
  <2> QED
    BY <2>1, <2>3, <2>4
<1>5. CASE Stamp(r)
  <2>1. /\ plan' = plan /\ published' = published /\ stage' = stage /\ todo' = todo /\ pc'[r] = "save"
    BY <1>5 DEF Stamp, TypeInv, TypeOK
  <2>2. r \in AtAudit => r \in AtAudit'
    BY <2>1 DEF AtAudit
  <2> QED
    BY <2>1, <2>2, LostStays
<1>6. CASE runReplay(r) \/ runReplayPublish(r)
  <2>1. ~API(r) /\ plan' = plan
    BY <1>0, <1>6 DEF runReplay, runReplayPublish, API, Phase
  <2> QED
    BY <2>1, <1>0 DEF API
<1> QED
  BY <1>1, <1>2, <1>3, <1>4, <1>5, <1>6 DEF RequestStep

(* A Save loses at most the event it was recording, and none when it wrote  *)
(* a line of its own.                                                       *)
LEMMA LostBySave ==
    ASSUME TypeInv, audit \subseteq audit', NEW r \in Requests, SaveOK(r) \/ SaveFails(r)
    PROVE  /\ Lost' \subseteq Lost \cup {<<r, stage[r].event>>}
           /\ rec[r] \in audit' => Lost' \subseteq Lost
<1>0. pc[r] = "save" /\ Phase(r) /\ plan' = plan /\ published' = published /\ Recording(r)
  BY DEF SaveOK, SaveFails, Return, TypeInv, Recording
<1>1. rec[r].who = r /\ rec[r].event = stage[r].event /\ rec[r].result = stage[r].status
  BY <1>0 DEF Phase
<1>2. ASSUME NEW p \in Lost', p \notin Lost
      PROVE  p = <<r, stage[r].event>> /\ stage[r].status = "accepted"
  <2>1. p[1] = r
    BY <1>2, LostOfOthers DEF RequestStep
  <2>2. p \in Missing' /\ p = <<p[1], p[2]>>
    BY DEF Lost, Missing
  <2>3. p \in Missing
    BY <1>0, <2>2 DEF Missing
  <2>4. r \in AtAudit /\ stage[r].event = p[2]
    BY <2>1, <2>3, <1>2 DEF Lost
  <2> QED
    BY <2>1, <2>2, <2>4 DEF AtAudit
<1>3. ASSUME NEW p \in Lost', p \notin Lost, rec[r] \in audit' PROVE FALSE
  <2>1. p = <<r, stage[r].event>> /\ stage[r].status = "accepted" /\ p \in Missing'
    BY <1>2, <1>3 DEF Lost
  <2> QED
    BY <2>1, <1>1, <1>3 DEF Missing
<1> QED
  BY <1>2, <1>3

(* Every step that loses an event is a failed Save, or finds a torn line,   *)
(* or is a crash; each is accounted for.                                    *)
LEMMA LossesStayExplained ==
    ASSUME TypeInv, TypeInv', LossesExplained, [Next]_vars
    PROVE  LossesExplained'
<1>0. /\ audit \subseteq audit' /\ plan' = plan /\ backend' = backend
      /\ IsFiniteSet(Lost) /\ Cardinality(Lost) \in Nat /\ Debt \in 0 .. 1 /\ Explained \in Nat
  BY AuditGrows, FiniteMissing
<1>00. IsFiniteSet(Lost') /\ Cardinality(Lost') \in Nat /\ Debt' \in 0 .. 1 /\ Explained' \in Nat
  <2>1. IsFiniteSet(Requests \X Events)
    BY ReplayAssumption, FS_Product
  <2>2. Lost' \in SUBSET (Requests \X Events)
    BY DEF Missing, Lost
  <2>3. IsFiniteSet(Lost') /\ Cardinality(Lost') \in Nat
    BY <2>1, <2>2, FS_Subset, FS_CardinalityType
  <2>4. Debt' \in 0 .. 1
    BY DEF Debt
  <2>5. saveErrors' \in Nat /\ crashes' \in Nat
    BY DEF TypeInv, TypeOK
  <2>6. Explained' \in Nat
    <3>1. CASE backend' = "file"
      <4>1. \A n, m \in Nat : 2 * n + m \in Nat
        OBVIOUS
      <4> QED
        BY <2>5, <3>1, <4>1, Zenon DEF Explained
    <3>2. CASE backend' # "file"
      BY <2>5, <3>2 DEF Explained
    <3> QED
      BY <3>1, <3>2
  <2> QED
    BY <2>3, <2>4, <2>6
<1>01. /\ \A n, m \in Nat, d, c \in 0 .. 1, e, f \in Nat :
             n + d <= e /\ m <= n /\ c - d <= f - e => m + c <= f
       /\ \A n, m \in Nat, d, c \in 0 .. 1, e, f \in Nat :
             n + d <= e /\ m <= n + 1 /\ c - d + 1 <= f - e => m + c <= f
  OBVIOUS
<1>1. ASSUME Lost' \subseteq Lost, Debt' - Debt <= Explained' - Explained PROVE LossesExplained'
  <2>1. Cardinality(Lost') <= Cardinality(Lost)
    BY <1>0, <1>1, FS_Subset
  <2>2. Cardinality(Lost') + Debt' <= Explained'
    BY <1>0, <1>00, <1>01, <1>1, <2>1, Zenon DEF LossesExplained
  <2> QED
    BY <2>2, Zenon DEF LossesExplained
<1>2. ASSUME NEW p, Lost' \subseteq Lost \cup {p}, Debt' - Debt + 1 <= Explained' - Explained PROVE LossesExplained'
  <2>1. IsFiniteSet(Lost \cup {p}) /\ Cardinality(Lost \cup {p}) <= Cardinality(Lost) + 1
    <3> HIDE DEF Lost
    <3>1. /\ IsFiniteSet(Lost \cup {p})
          /\ Cardinality(Lost \cup {p}) = IF p \in Lost THEN Cardinality(Lost) ELSE Cardinality(Lost) + 1
      BY <1>0, FS_AddElement
    <3> QED
      BY <1>0, <3>1
  <2>2. Cardinality(Lost') <= Cardinality(Lost \cup {p})
    BY <2>1, <1>2, FS_Subset
  <2>3. Cardinality(Lost \cup {p}) \in Nat
    BY <2>1, FS_CardinalityType
  <2>4. Cardinality(Lost') <= Cardinality(Lost) + 1
    <3> HIDE DEF Lost
    <3>1. Cardinality(Lost) \in Nat /\ \A n, m, k \in Nat : n <= m /\ m <= k + 1 => n <= k + 1
      BY <1>0
    <3> QED
      BY <1>00, <2>1, <2>2, <2>3, <3>1, Zenon
  <2>5. Cardinality(Lost') + Debt' <= Explained'
    BY <1>0, <1>00, <1>01, <1>2, <2>4, Zenon DEF LossesExplained
  <2> QED
    BY <2>5, Zenon DEF LossesExplained
<1>3. ASSUME NEW r \in Requests, RequestStep(r), ~SaveOK(r), ~SaveFails(r) PROVE LossesExplained'
  <2>1. Lost' \subseteq Lost
    BY <1>0, <1>3, LostOfOne, LostOfOthers
  <2>2. torn' = torn /\ saveErrors' = saveErrors /\ crashes' = crashes
    BY <1>3 DEF RequestStep, Begin, Cancel, NextEvent, executeReplay, Publish, Stamp, Respond,
                runReplay, runReplayPublish, auditVars
  <2>3. Debt' = Debt /\ Explained' = Explained
    BY <2>2, <1>0, Zenon DEF Debt, Explained
  <2> HIDE DEF Debt, Explained, Lost
  <2> QED
    BY <2>1, <2>3, <1>0, <1>1
<1>4. ASSUME NEW r \in Requests, SaveOK(r) PROVE LossesExplained'
  <2>1. saveErrors' = saveErrors /\ crashes' = crashes /\ torn' = FALSE /\ AppendLine(rec[r])
    BY <1>4 DEF SaveOK, Return, AppendLine
  <2>2. Explained' = Explained /\ Debt' = 0
    BY <2>1, <1>0 DEF Explained, Debt
  <2>3. CASE torn
    <3>1. Debt = 1
      BY <2>3 DEF Debt
    <3>2. Lost' \subseteq Lost \cup {<<r, stage[r].event>>}
      BY <1>0, <1>4, LostBySave
    <3> HIDE DEF Lost, Debt, Explained
    <3> QED
      BY <3>1, <3>2, <2>2, <1>0, <1>2
  <2>4. CASE ~torn
    <3>1. rec[r] \in audit' /\ Debt = 0
      BY <2>1, <2>4 DEF AppendLine, Debt
    <3>2. Lost' \subseteq Lost
      BY <1>0, <1>4, <3>1, LostBySave
    <3> HIDE DEF Lost, Debt, Explained
    <3> QED
      BY <3>1, <3>2, <2>2, <1>0, <1>1
  <2> QED
    BY <2>3, <2>4
<1>5. ASSUME NEW r \in Requests, SaveFails(r) PROVE LossesExplained'
  <2>1. saveErrors' = saveErrors + 1 /\ crashes' = crashes
    BY <1>5 DEF SaveFails, Return
  <2>2. saveErrors \in Nat /\ crashes \in Nat /\ backend \in {"file", "postgres"}
    BY DEF TypeInv, TypeOK
  <2>3. Lost' \subseteq Lost \cup {<<r, stage[r].event>>}
    BY <1>0, <1>5, LostBySave
  <2>4. CASE backend = "file"
    <3>1. Explained' = Explained + 2
      BY <2>1, <2>2, <2>4, <1>0 DEF Explained
    <3>2. \A e, f \in Nat, d, c \in 0 .. 1 : f = e + 2 => c - d + 1 <= f - e
      OBVIOUS
    <3> HIDE DEF Lost, Debt, Explained
    <3> QED
      BY <3>1, <3>2, <2>3, <1>0, <1>00, <1>2, Zenon
  <2>5. CASE backend = "postgres"
    <3>1. Explained' = Explained + 1
      BY <2>1, <2>2, <2>5, <1>0 DEF Explained
    <3>2. Debt' = 0
      BY <2>5, <1>0 DEF Debt, TypeInv, TypeOK
    <3> HIDE DEF Lost, Debt, Explained
    <3> QED
      BY <3>1, <3>2, <2>3, <1>0, <1>2
  <2> QED
    BY <2>2, <2>4, <2>5
<1>6. CASE Aside
  <2>1. Lost' \subseteq Lost
    <3> SUFFICES ASSUME NEW p \in Lost' PROVE p \in Lost
      OBVIOUS
    <3>1. AtAudit' = AtAudit
      BY <1>6, AsideStays DEF AtAudit
    <3> QED
      BY <1>0, <1>6, <3>1, AsideStays, LostStays
  <2>2. Debt' = Debt /\ Explained' = Explained
    <3>1. torn' = torn /\ saveErrors' = saveErrors /\ crashes' = crashes
      BY <1>6, AsideStays
    <3> QED
      BY <3>1, <1>0, Zenon DEF Debt, Explained
  <2> HIDE DEF Lost, Debt, Explained
  <2> QED
    BY <2>1, <2>2, <1>0, <1>1
<1>7. CASE Crash
  <2>1. Lost' \subseteq Lost
    <3> SUFFICES ASSUME NEW p \in Lost' PROVE p \in Lost
      OBVIOUS
    <3>1. p[1] \in Requests
      BY DEF Lost, Missing
    <3>2. p[1] \in AtAudit => p[1] \in AtAudit'
      BY <1>7, <3>1, Crashed DEF AtAudit
    <3> QED
      BY <1>0, <1>7, <3>1, <3>2, Crashed, LostStays
  <2>2. saveErrors' = saveErrors /\ crashes' = crashes + 1
    BY <1>7 DEF Crash
  <2>3. saveErrors \in Nat /\ crashes \in Nat /\ backend \in {"file", "postgres"}
    BY DEF TypeInv, TypeOK
  <2>4. CASE backend = "file"
    <3>1. Explained' = Explained + 1
      BY <2>2, <2>3, <2>4, <1>0 DEF Explained
    <3>2. \A e, f \in Nat, d, c \in 0 .. 1 : f = e + 1 => c - d <= f - e
      OBVIOUS
    <3> HIDE DEF Lost, Debt, Explained
    <3> QED
      BY <3>1, <3>2, <2>1, <1>0, <1>00, <1>1, Zenon
  <2>5. CASE backend = "postgres"
    <3>1. Explained' = Explained
      BY <2>2, <2>3, <2>5, <1>0 DEF Explained
    <3>2. Debt' = 0
      BY <2>5, <1>0 DEF Debt, TypeInv, TypeOK
    <3> HIDE DEF Lost, Debt, Explained
    <3> QED
      BY <3>1, <3>2, <2>1, <1>0, <1>1
  <2> QED
    BY <2>3, <2>4, <2>5
<1> QED
  BY <1>3, <1>4, <1>5, <1>6, <1>7, NextCases

(* A request at its audit Save is about to record one event.                *)
LEMMA MissingBound ==
    ASSUME TypeInv
    PROVE  Cardinality(Missing) <= Cardinality(AtAudit) + Cardinality(Lost)
<1> DEFINE Rest == Missing \ Lost
           f == [p \in Rest |-> p[1]]
<1>1. IsFiniteSet(Missing) /\ IsFiniteSet(Lost) /\ IsFiniteSet(AtAudit) /\ Lost \subseteq Missing
  BY FiniteMissing DEF Lost
<1>2. \A p \in Rest : p[1] \in AtAudit /\ p = <<p[1], stage[p[1]].event>>
  BY DEF Lost, Missing
<1>3. f \in Injection(Rest, AtAudit)
  BY <1>2 DEF Injection, IsInjective
<1>4. IsFiniteSet(Rest) /\ Cardinality(Rest) <= Cardinality(AtAudit)
  BY <1>1, <1>3, FS_Injection
<1>5. Cardinality(Rest) = Cardinality(Missing) - Cardinality(Missing \cap Lost)
  BY <1>1, FS_Difference
<1>6. Missing \cap Lost = Lost
  BY <1>1
<1>7. Cardinality(Missing) \in Nat /\ Cardinality(Lost) \in Nat /\ Cardinality(AtAudit) \in Nat
  BY <1>1, FS_CardinalityType
<1>8. \A m, l, a \in Nat : \A x : x = m - l /\ x <= a => m <= a + l
  OBVIOUS
<1> HIDE DEF Rest
<1> QED
  BY <1>4, <1>5, <1>6, <1>7, <1>8, Zenon

(* A record of an accepted event in the audit is of an event the publisher  *)
(* took; an event the publisher took has its record, unless a Save is under *)
(* way, failed, was cut off by a crash, or was continued onto a part of a   *)
(* line: AuditMatchesPublishes.                                             *)
THEOREM AuditKeepsUp == Spec => []AuditMatchesPublishes
<1> DEFINE Inv == RecordsTrue /\ LossesExplained
<1>1. Init => Inv
  <2> SUFFICES ASSUME Init PROVE RecordsTrue /\ LossesExplained
    OBVIOUS
  <2>1. RecordsTrue
    BY DEF Init, RecordsTrue
  <2>2. Missing = {}
    <3>1. \A r \in Requests : Range(published[r]) = {}
      BY EmptyRange DEF Init
    <3> QED
      BY <3>1 DEF Missing
  <2>3. Lost = {}
    BY <2>2 DEF Lost
  <2>4. Debt = 0 /\ Explained = 0
    BY DEF Init, Debt, Explained
  <2>5. Cardinality(Lost) = 0
    BY <2>3, FS_EmptySet
  <2>6. Cardinality(Lost) + Debt <= Explained
    <3> HIDE DEF Lost, Debt, Explained
    <3> QED
      BY <2>4, <2>5
  <2> QED
    BY <2>1, <2>6, Zenon DEF LossesExplained
<1>2. TypeInv /\ TypeInv' /\ Inv /\ [Next]_vars => Inv'
  BY RecordsStayTrue, LossesStayExplained
<1>3. TypeInv /\ Inv => AuditMatchesPublishes
  <2> SUFFICES ASSUME TypeInv, Inv PROVE AuditMatchesPublishes
    OBVIOUS
  <2>1. Cardinality(Missing) <= Cardinality(AtAudit) + Cardinality(Lost)
    BY MissingBound
  <2>2. /\ Cardinality(Missing) \in Nat /\ Cardinality(Lost) \in Nat /\ Cardinality(AtAudit) \in Nat
        /\ Debt \in 0 .. 1 /\ Explained \in Nat
    BY FiniteMissing, FS_CardinalityType
  <2>3. \A m, n, k, e \in Nat, d \in 0 .. 1 : m <= n + k /\ k + d <= e => m <= n + e
    OBVIOUS
  <2>4. Cardinality(Missing) <= Cardinality(AtAudit) + Explained
    BY <2>1, <2>2, <2>3, Zenon DEF LossesExplained
  <2> QED
    BY <2>4, Zenon DEF AuditMatchesPublishes, RecordsTrue, Explained
<1> HIDE DEF Inv
<1> QED
  BY <1>1, <1>2, <1>3, TypesHold, PTL DEF Spec

-------------------------------------------------------------------------------
(* What a client is told *)

(* A request that is replaying events. *)
Working(r) == API(r) /\ pc[r] \in {"next", "load", "publish", "audit", "save", "respond"}

(* Its outcomes are counted once each, and what the publisher took is       *)
(* counted as accepted when its outcome has been.                           *)
CountsOK(r) ==
    /\ Len(results[r]) = Count(r, "validated") + Count(r, "accepted") + Count(r, "failed")
    /\ Len(published[r]) = Count(r, "accepted") + (IF Accepting(r) THEN 1 ELSE 0)

(* A dry run publishes nothing, and only a dry run validates. *)
DryOK(r) ==
    IF plan[r].dry
    THEN Count(r, "accepted") = 0 /\ pc[r] # "publish" /\ ~Accepting(r)
    ELSE Count(r, "validated") = 0 /\ (Recording(r) => stage[r].status # "validated")

(* While no event has failed, each of them is published or still to come;   *)
(* a batch stops with some still to come only when its context is over.     *)
CoversOK(r) ==
    /\ ~plan[r].dry /\ Count(r, "failed") = 0 =>
            Range(plan[r].ids) = Range(published[r]) \cup Range(todo[r])
    /\ plan[r].kind = "batch" /\ pc[r] = "respond" => todo[r] = <<>> \/ ended[r]

(* A single replay has one event. *)
SingleOK(r) ==
    plan[r].kind = "single" =>
        /\ pc[r] \in {"load", "publish"} => published[r] = <<>>
        /\ Recording(r) \/ pc[r] = "respond" => (stage[r].http = 202 <=> published[r] # <<>>)

Truthful(r) ==
    pc[r] = "done" /\ "status" \in DOMAIN reply[r] =>
        IF plan[r].kind = "single"
        THEN reply[r].http = 202 <=> published[r] # <<>>
        ELSE /\ reply[r].summary.published = Len(published[r])
             /\ reply[r].summary.processed = reply[r].summary.succeeded + reply[r].summary.failed
             /\ reply[r].status = "accepted" /\ ~ended[r] => Range(published[r]) = Range(plan[r].ids)

TellOK(r) ==
    /\ Working(r) => CountsOK(r) /\ DryOK(r) /\ CoversOK(r) /\ SingleOK(r)
    /\ Truthful(r)

TellInv == \A r \in Requests : TellOK(r)

LEMMA CountType ==
    ASSUME TypeOK, NEW r \in Requests
    PROVE  \A x \in Statuses : Count(r, x) \in Nat
<1>1. results[r] \in Seq(Statuses) /\ "failed" \in Statuses
  BY DEF TypeOK, Statuses
<1>2. ASSUME NEW x PROVE CountIn(results[r], x) \in Nat
  BY <1>1, CountAppend
<1> QED
  BY <1>2, Zenon DEF Count, CountIn

LEMMA Counted ==
    ASSUME TypeOK, NEW r \in Requests, NEW s \in Statuses, results'[r] = Append(results[r], s)
    PROVE  /\ Len(results'[r]) = Len(results[r]) + 1 /\ Len(results[r]) \in Nat
           /\ Count(r, s)' = Count(r, s) + 1
           /\ \A x \in Statuses \ {s} : Count(r, x)' = Count(r, x)
<1>1. results[r] \in Seq(Statuses) /\ Len(results[r]) \in Nat /\ Len(Append(results[r], s)) = Len(results[r]) + 1
  BY DEF TypeOK
<1>2. ASSUME NEW x
      PROVE  /\ s = x => Count(r, x)' = Count(r, x) + 1
             /\ s # x => Count(r, x)' = Count(r, x)
  <2> DEFINE A == CountIn(results[r], x)
             B == CountIn(Append(results[r], s), x)
  <2>1. (s = x => B = A + 1) /\ (s # x => B = A)
    BY <1>1, CountAppend
  <2>2. Count(r, x) = A /\ Count(r, x)' = B
    BY Zenon DEF Count, CountIn
  <2> QED
    BY <2>1, <2>2, Zenon
<1> QED
  BY <1>1, <1>2, Zenon

LEMMA SameCounts ==
    ASSUME NEW r \in Requests, results'[r] = results[r]
    PROVE  \A x : Count(r, x)' = Count(r, x)
BY Zenon DEF Count

(* A step that replays nothing: what it must still show is about the place  *)
(* it leads to.                                                             *)
LEMMA TellKept ==
    ASSUME NEW r \in Requests, TellOK(r), Working(r), Working(r)',
           plan'[r] = plan[r], results'[r] = results[r], published'[r] = published[r], todo'[r] = todo[r],
           Accepting(r)' <=> Accepting(r),
           plan[r].dry => pc'[r] # "publish",
           ~plan[r].dry /\ Recording(r)' => stage'[r].status # "validated",
           plan[r].kind = "batch" /\ pc'[r] = "respond" => todo[r] = <<>> \/ ended'[r],
           SingleOK(r)'
    PROVE  TellOK(r)'
<1>1. /\ Count(r, "validated")' = Count(r, "validated") /\ Count(r, "accepted")' = Count(r, "accepted")
      /\ Count(r, "failed")' = Count(r, "failed")
  BY SameCounts
<1>2. CountsOK(r) /\ DryOK(r) /\ CoversOK(r)
  BY DEF TellOK
<1>3. CountsOK(r)'
  BY <1>1, <1>2, Zenon DEF CountsOK
<1>4. DryOK(r)'
  <2> HIDE DEF Count
  <2>1. CASE plan[r].dry
    <3>1. Count(r, "accepted") = 0 /\ ~Accepting(r)
      BY <2>1, <1>2, Zenon DEF DryOK
    <3> QED
      BY <2>1, <3>1, <1>1, Zenon DEF DryOK
  <2>2. CASE ~plan[r].dry
    <3>1. Count(r, "validated") = 0
      BY <2>2, <1>2, Zenon DEF DryOK
    <3> QED
      BY <2>2, <3>1, <1>1, Zenon DEF DryOK
  <2> QED
    BY <2>1, <2>2
<1>5. CoversOK(r)'
  <2>1. ~plan[r].dry /\ Count(r, "failed") = 0 => Range(plan[r].ids) = Range(published[r]) \cup Range(todo[r])
    BY <1>2, Zenon DEF CoversOK
  <2>2. ~plan'[r].dry /\ Count(r, "failed")' = 0 =>
            Range(plan'[r].ids) = Range(published'[r]) \cup Range(todo'[r])
    BY <2>1, <1>1, Zenon
  <2>3. plan'[r].kind = "batch" /\ pc'[r] = "respond" => todo'[r] = <<>> \/ ended'[r]
    BY Zenon
  <2> QED
    BY <2>2, <2>3, Zenon DEF CoversOK
<1>6. Truthful(r)'
  BY DEF Working, Truthful
<1> QED
  BY <1>3, <1>4, <1>5, <1>6, Zenon DEF TellOK

LEMMA BeginTells ==
    ASSUME TypeInv, NEW r \in Requests, TellOK(r), Begin(r)
    PROVE  TellOK(r)'
<1> DEFINE ids == normalizeReplayEventIDs(plan[r].ids)
<1>1. plan[r] \in Plan /\ Phase(r) /\ (ids # <<>> => Range(ids) = Range(plan[r].ids))
  BY NormalizedIDs DEF TypeInv, TypeOK
<1> HIDE DEF ids
<1>2. CASE pc'[r] = "done"
  <2>1. \E status : reply'[r] = [http |-> status]
    <3>0. DOMAIN reply = Requests
      BY DEF TypeInv, TypeOK
    <3>1. CASE reply' = [reply EXCEPT ![r] = [http |-> 503]]
      BY <3>0, <3>1
    <3>2. CASE reply' = [reply EXCEPT ![r] = [http |-> 400]]
      BY <3>0, <3>2
    <3>3. \/ reply' = [reply EXCEPT ![r] = [http |-> 503]] \/ reply' = [reply EXCEPT ![r] = [http |-> 400]]
          \/ pc' = [pc EXCEPT ![r] = IF plan[r].kind = "batch" THEN "next" ELSE "load"]
      BY Zenon DEF Begin
    <3>4. pc \in [Requests -> Labels]
      BY DEF TypeInv, TypeOK
    <3>5. pc' # [pc EXCEPT ![r] = IF plan[r].kind = "batch" THEN "next" ELSE "load"]
      BY <1>2, <3>4
    <3> QED
      BY <3>1, <3>2, <3>3, <3>5, Zenon
  <2>2. "status" \notin DOMAIN reply'[r]
    BY <2>1
  <2> QED
    BY <1>2, <2>2 DEF TellOK, Truthful, Working
<1>3. CASE pc'[r] # "done"
  <2>1. /\ pc'[r] = IF plan[r].kind = "batch" THEN "next" ELSE "load"
        /\ todo'[r] = ids /\ ids # <<>>
        /\ plan' = plan /\ results' = results /\ published' = published
        /\ results[r] = <<>> /\ published[r] = <<>>
    BY <1>1, <1>3 DEF Begin, ids, TypeInv, TypeOK, Phase
  <2>2. /\ Count(r, "validated") = 0 /\ Count(r, "accepted") = 0 /\ Count(r, "failed") = 0
    <3>1. \A x : {i \in DOMAIN results[r] : results[r][i] = x} = {}
      BY <2>1
    <3> QED
      BY <3>1, FS_EmptySet DEF Count
  <2>3. /\ Count(r, "validated")' = 0 /\ Count(r, "accepted")' = 0 /\ Count(r, "failed")' = 0
    BY <2>1, <2>2, SameCounts
  <2>4. ~Recording(r)' /\ ~Accepting(r)' /\ pc'[r] \in {"next", "load"}
    BY <2>1 DEF Recording, Accepting
  <2> HIDE DEF Count
  <2>5. Len(results'[r]) = 0 /\ Len(published'[r]) = 0 /\ Range(published'[r]) = {}
    BY <2>1, EmptyRange
  <2>6. CountsOK(r)'
    BY <2>3, <2>4, <2>5 DEF CountsOK
  <2>7. DryOK(r)'
    BY <2>3, <2>4 DEF DryOK
  <2>8. CoversOK(r)'
    BY <1>1, <2>1, <2>4, <2>5 DEF CoversOK
  <2>9. SingleOK(r)'
    BY <2>1, <2>4 DEF SingleOK
  <2> QED
    BY <2>6, <2>7, <2>8, <2>9, <1>3 DEF TellOK, Truthful
<1> QED
  BY <1>2, <1>3

LEMMA LookTells ==
    ASSUME TypeInv, NEW r \in Requests, TellOK(r), Cancel(r) \/ NextEvent(r) \/ executeReplay(r) \/ Stamp(r)
    PROVE  TellOK(r)'
<1>0. /\ Phase(r) /\ API(r) /\ Working(r) /\ Working(r)' /\ SingleOK(r) /\ DryOK(r) /\ CoversOK(r)
      /\ plan' = plan /\ results' = results /\ published' = published /\ todo' = todo
  <2>1. Phase(r) /\ pc[r] \in Labels
    BY DEF TypeInv, TypeOK
  <2>2. API(r)
    BY <2>1 DEF Phase, Cancel, NextEvent, executeReplay, Stamp, Labels
  <2>3. Working(r)
    BY <2>1, <2>2 DEF Working, Cancel, NextEvent, executeReplay, Stamp, Labels
  <2>4. plan' = plan /\ results' = results /\ published' = published /\ todo' = todo
    BY DEF Cancel, NextEvent, executeReplay, Stamp
  <2>5. pc'[r] \in {pc[r], "respond", "load", "audit", "publish", "save"}
    BY DEF Cancel, NextEvent, executeReplay, Stamp, Outcome, TypeInv, TypeOK
  <2>6. Working(r)'
    BY <2>2, <2>3, <2>4, <2>5 DEF Working, API
  <2> QED
    BY <2>1, <2>2, <2>3, <2>4, <2>6 DEF TellOK
<1>1. CASE Cancel(r)
  <2>1. pc' = pc /\ stage' = stage /\ ended'[r] = TRUE
    BY <1>1 DEF Cancel, TypeInv, TypeOK
  <2>2. (Accepting(r)' <=> Accepting(r)) /\ (Recording(r)' <=> Recording(r)) /\ (SingleOK(r)' <=> SingleOK(r))
    BY <2>1, <1>0 DEF Accepting, Recording, SingleOK
  <2>3. plan[r].dry => pc'[r] # "publish"
    BY <2>1, <1>0, Zenon DEF DryOK
  <2>4. ~plan[r].dry /\ Recording(r)' => stage'[r].status # "validated"
    BY <2>1, <2>2, <1>0, Zenon DEF DryOK
  <2> QED
    BY <1>0, <2>1, <2>2, <2>3, <2>4, TellKept, Zenon
<1>2. CASE NextEvent(r)
  <2>1. /\ pc[r] = "next" /\ pc'[r] \in {"respond", "load"} /\ plan[r].kind = "batch" /\ ended' = ended
        /\ pc'[r] = "respond" => todo[r] = <<>> \/ ended[r]
    BY <1>2, <1>0 DEF NextEvent, TypeInv, TypeOK, Phase
  <2>2. ~Accepting(r)' /\ ~Accepting(r) /\ ~Recording(r)'
    BY <2>1 DEF Accepting, Recording
  <2>3. SingleOK(r)'
    BY <2>1, <1>0 DEF SingleOK, Recording
  <2> QED
    BY <1>0, <2>1, <2>2, <2>3, TellKept
<1>3. CASE executeReplay(r)
  <2>1. /\ pc[r] = "load"
        /\ \/ pc'[r] = "publish" /\ ~plan[r].dry
           \/ pc'[r] = "audit" /\ stage'[r].status = "failed" /\ stage'[r].http # 202
           \/ pc'[r] = "audit" /\ stage'[r].status = "validated" /\ stage'[r].http # 202 /\ plan[r].dry
    BY <1>3 DEF executeReplay, Outcome, TypeInv, TypeOK
  <2>2. ~Accepting(r)' /\ ~Accepting(r)
    BY <2>1 DEF Accepting, Recording
  <2>3. SingleOK(r)'
    BY <2>1, <1>0 DEF SingleOK, Recording
  <2>4. ~plan[r].dry /\ Recording(r)' => stage'[r].status # "validated"
    BY <2>1 DEF Recording
  <2> QED
    BY <1>0, <2>1, <2>2, <2>3, <2>4, TellKept
<1>4. CASE Stamp(r)
  <2>1. pc[r] = "audit" /\ pc'[r] = "save" /\ stage' = stage
    BY <1>4 DEF Stamp, TypeInv, TypeOK
  <2>2. (Accepting(r)' <=> Accepting(r)) /\ Recording(r)
    BY <2>1 DEF Accepting, Recording
  <2>3. SingleOK(r)'
    BY <2>1, <2>2, <1>0 DEF SingleOK, Recording
  <2>4. ~plan[r].dry /\ Recording(r)' => stage'[r].status # "validated"
    BY <2>1, <2>2, <1>0, Zenon DEF DryOK
  <2> QED
    BY <1>0, <2>1, <2>2, <2>3, <2>4, TellKept
<1> QED
  BY <1>1, <1>2, <1>3, <1>4

LEMMA PublishTells ==
    ASSUME TypeInv, NEW r \in Requests, TellOK(r), Publish(r)
    PROVE  TellOK(r)'
<1> DEFINE e == Head(todo[r])
<1>1. /\ Phase(r) /\ pc[r] = "publish" /\ pc'[r] = "audit" /\ todo' = todo /\ todo[r] # <<>>
      /\ plan' = plan /\ results' = results /\ ended' = ended
      /\ published[r] \in Seq(Events \cup {Blank}) /\ todo[r] \in Seq(Events)
      /\ \/ stage'[r].status = "failed" /\ published' = published /\ stage'[r].http # 202
         \/ /\ stage'[r].status = "accepted" /\ stage'[r].http = 202
            /\ published'[r] = Append(published[r], e)
  BY DEF Publish, Outcome, Phase, TypeInv, TypeOK
<1>2. API(r) /\ Working(r) /\ Working(r)' /\ CountsOK(r) /\ DryOK(r) /\ CoversOK(r) /\ SingleOK(r)
  <2>1. API(r)
    BY <1>1 DEF Phase
  <2>2. Working(r) /\ Working(r)'
    BY <1>1, <2>1 DEF Working, API
  <2> QED
    BY <2>1, <2>2 DEF TellOK
<1>3. ~plan[r].dry /\ Count(r, "validated") = 0
  BY <1>1, <1>2, Zenon DEF DryOK
<1>4. ~Accepting(r)
  BY <1>1 DEF Accepting, Recording
<1>5. CASE stage'[r].status = "failed" /\ published' = published /\ stage'[r].http # 202
  <2>1. ~Accepting(r)'
    BY <1>5 DEF Accepting
  <2>2. SingleOK(r)'
    BY <1>1, <1>2, <1>5 DEF SingleOK
  <2> QED
    BY <1>1, <1>2, <1>3, <1>4, <1>5, <2>1, <2>2, TellKept
<1>6. CASE stage'[r].status = "accepted" /\ stage'[r].http = 202 /\ published'[r] = Append(published[r], e)
  <2>1. Accepting(r)' /\ Recording(r)'
    BY <1>1, <1>6 DEF Accepting, Recording
  <2>2. e \in Events /\ e \in Range(todo[r])
    BY <1>1, TailRange
  <2> HIDE DEF e
  <2>3. /\ Len(published'[r]) = Len(published[r]) + 1 /\ published'[r] # <<>>
        /\ Range(published'[r]) = Range(published[r]) \cup {e}
    BY <1>1, <1>6, <2>2, AppendRange
  <2>4. /\ Count(r, "validated")' = Count(r, "validated") /\ Count(r, "accepted")' = Count(r, "accepted")
        /\ Count(r, "failed")' = Count(r, "failed")
    BY <1>1, SameCounts
  <2>5. Count(r, "accepted") \in Nat
    BY CountType DEF TypeInv, Statuses
  <2> HIDE DEF Count
  <2>6. CountsOK(r)'
    <3>1. Len(published[r]) = Count(r, "accepted")
      BY <1>2, <1>4, <2>5 DEF CountsOK
    <3>2. Len(published'[r]) = Count(r, "accepted")' + 1
      BY <3>1, <2>3, <2>4, Zenon
    <3>3. Len(results'[r]) = Count(r, "validated")' + Count(r, "accepted")' + Count(r, "failed")'
      BY <1>1, <1>2, <2>4, Zenon DEF CountsOK
    <3> QED
      BY <2>1, <3>2, <3>3, Zenon DEF CountsOK
  <2>7. DryOK(r)'
    BY <1>1, <1>3, <1>6, <2>4 DEF DryOK
  <2>8. CoversOK(r)'
    <3>1. Count(r, "failed") = 0 => Range(plan[r].ids) = Range(published[r]) \cup Range(todo[r])
      BY <1>2, <1>3, Zenon DEF CoversOK
    <3>2. Count(r, "failed") = 0 => Range(plan[r].ids) = Range(published'[r]) \cup Range(todo[r])
      BY <3>1, <2>2, <2>3
    <3> QED
      BY <3>2, <1>1, <2>4 DEF CoversOK
  <2>9. SingleOK(r)'
    BY <1>1, <1>6, <2>3 DEF SingleOK
  <2> QED
    BY <2>6, <2>7, <2>8, <2>9, <1>1 DEF TellOK, Truthful
<1> QED
  BY <1>1, <1>5, <1>6

LEMMA SaveTells ==
    ASSUME TypeInv, NEW r \in Requests, TellOK(r), SaveOK(r) \/ SaveFails(r)
    PROVE  TellOK(r)'
<1>1. pc[r] = "save" /\ Return(r) /\ Recording(r) /\ Phase(r) /\ plan[r].kind \in {"single", "batch"}
  <2>1. pc[r] = "save" /\ Return(r) /\ Recording(r)
    BY DEF SaveOK, SaveFails, Recording
  <2> QED
    BY <2>1, Returned DEF TypeInv, API
<1>0. PICK s \in Statuses : s = stage[r].status
  BY <1>1, Returned DEF Outcomes
<1>2. /\ todo[r] # <<>> /\ todo[r] \in Seq(Events) /\ stage[r] \in Outcomes
      /\ todo'[r] = Tail(todo[r]) /\ results'[r] = Append(results[r], s)
      /\ plan[r].kind = "batch" => pc'[r] = "next" /\ stage'[r] = None
      /\ plan[r].kind # "batch" => pc'[r] = "respond" /\ stage'[r] = stage[r]
      /\ plan' = plan /\ published' = published /\ ended' = ended
  BY <1>0, <1>1, Returned
<1>3. Working(r) /\ ~Recording(r)' /\ ~Accepting(r)' /\ pc'[r] \in {"next", "respond"}
  BY <1>1, <1>2 DEF Working, Recording, Accepting, API
<1>4. CountsOK(r) /\ DryOK(r) /\ CoversOK(r) /\ SingleOK(r) /\ (Accepting(r) <=> s = "accepted")
  BY <1>0, <1>1, <1>3 DEF TellOK, Accepting
<1>5. /\ Len(results'[r]) = Len(results[r]) + 1 /\ Len(results[r]) \in Nat
      /\ Count(r, s)' = Count(r, s) + 1
      /\ \A x \in Statuses \ {s} : Count(r, x)' = Count(r, x)
  <2>1. TypeOK
    BY DEF TypeInv
  <2> QED
    BY <2>1, <1>2, Counted, Zenon
<1>6. \A x \in Statuses : Count(r, x) \in Nat
  BY CountType DEF TypeInv
<1>7. s \in {"accepted", "validated", "failed"}
  BY DEF Statuses
<1>8. /\ Count(r, "accepted")' = Count(r, "accepted") + (IF s = "accepted" THEN 1 ELSE 0)
      /\ Count(r, "validated")' = Count(r, "validated") + (IF s = "validated" THEN 1 ELSE 0)
      /\ Count(r, "failed")' = Count(r, "failed") + (IF s = "failed" THEN 1 ELSE 0)
      /\ Count(r, "accepted") \in Nat /\ Count(r, "validated") \in Nat /\ Count(r, "failed") \in Nat
  <2> HIDE DEF Count
  <2>1. /\ Count(r, "accepted") \in Nat /\ Count(r, "validated") \in Nat /\ Count(r, "failed") \in Nat
    BY <1>6 DEF Statuses
  <2>2. \A n \in Nat : n + 0 = n
    OBVIOUS
  <2>3. ASSUME NEW x \in Statuses PROVE Count(r, x)' = Count(r, x) + (IF s = x THEN 1 ELSE 0)
    <3>1. CASE s = x
      BY <3>1, <1>5, Zenon
    <3>2. CASE s # x
      BY <3>2, <1>5, <1>6, <2>2, Zenon
    <3> QED
      BY <3>1, <3>2
  <2>4. "accepted" \in Statuses /\ "validated" \in Statuses /\ "failed" \in Statuses
    BY DEF Statuses
  <2> QED
    BY <2>1, <2>3, <2>4, Zenon
<1>9. Range(todo[r]) = {Head(todo[r])} \cup Range(Tail(todo[r]))
  BY <1>2, TailRange
<1> HIDE DEF Count
<1>10. CountsOK(r)'
  <2>1. Len(results[r]) = Count(r, "validated") + Count(r, "accepted") + Count(r, "failed")
    BY <1>4, Zenon DEF CountsOK
  <2>2. Len(published[r]) = Count(r, "accepted") + (IF s = "accepted" THEN 1 ELSE 0)
    BY <1>4, Zenon DEF CountsOK
  <2>3. Len(results'[r]) = Count(r, "validated")' + Count(r, "accepted")' + Count(r, "failed")'
    BY <2>1, <1>5, <1>7, <1>8
  <2>4. Len(published'[r]) = Count(r, "accepted")'
    BY <2>2, <1>2, <1>8, Zenon
  <2>5. Count(r, "accepted")' \in Nat
    BY <1>8
  <2>6. \A n \in Nat : n + 0 = n
    OBVIOUS
  <2>7. Len(published'[r]) = Count(r, "accepted")' + 0
    BY <2>4, <2>5, <2>6, Zenon
  <2> QED
    BY <2>3, <2>7, <1>3, Zenon DEF CountsOK
<1>11. DryOK(r)'
  <2>1. CASE plan[r].dry
    <3>1. Count(r, "accepted") = 0 /\ s # "accepted"
      BY <2>1, <1>4, Zenon DEF DryOK
    <3>2. Count(r, "accepted")' = 0
      BY <3>1, <1>8
    <3> QED
      BY <2>1, <3>2, <1>2, <1>3 DEF DryOK
  <2>2. CASE ~plan[r].dry
    <3>1. Count(r, "validated") = 0 /\ s # "validated"
      BY <2>2, <1>0, <1>1, <1>4, Zenon DEF DryOK
    <3>2. Count(r, "validated")' = 0
      BY <3>1, <1>8
    <3> QED
      BY <2>2, <3>2, <1>2, <1>3 DEF DryOK
  <2> QED
    BY <2>1, <2>2
<1>12. CoversOK(r)'
  <2>1. ASSUME ~plan[r].dry, Count(r, "failed")' = 0
        PROVE  Range(plan[r].ids) = Range(published[r]) \cup Range(Tail(todo[r]))
    <3>1. Count(r, "failed") = 0 /\ s # "failed"
      BY <2>1, <1>8
    <3>2. Range(plan[r].ids) = Range(published[r]) \cup Range(todo[r])
      BY <2>1, <3>1, <1>4, Zenon DEF CoversOK
    <3>3. s # "validated"
      BY <2>1, <1>0, <1>1, <1>4, Zenon DEF DryOK
    <3>4. Accepting(r)
      BY <3>1, <3>3, <1>4, <1>7
    <3>5. Head(todo[r]) \in Range(published[r])
      BY <3>4, <1>1 DEF Phase
    <3> QED
      BY <3>2, <3>5, <1>9
  <2>2. ~(plan'[r].kind = "batch" /\ pc'[r] = "respond")
    BY <1>2
  <2> QED
    BY <2>1, <2>2, <1>2 DEF CoversOK
<1>13. SingleOK(r)'
  BY <1>1, <1>2, <1>3, <1>4 DEF SingleOK
<1>14. Truthful(r)'
  BY <1>3 DEF Truthful
<1> QED
  BY <1>10, <1>11, <1>12, <1>13, <1>14 DEF TellOK

LEMMA RespondTells ==
    ASSUME TypeInv, NEW r \in Requests, TellOK(r), Respond(r)
    PROVE  TellOK(r)'
<1> DEFINE sum == Summary(r)
<1>1. /\ Phase(r) /\ API(r) /\ Working(r) /\ pc[r] = "respond" /\ pc'[r] = "done" /\ plan[r].kind \in {"single", "batch"}
      /\ UNCHANGED <<plan, ended, todo, stage, results, published>>
      /\ ~Accepting(r)
  BY DEF Respond, TypeInv, TypeOK, Phase, API, Working, Accepting, Recording
<1>2. CountsOK(r) /\ DryOK(r) /\ CoversOK(r) /\ SingleOK(r)
  BY <1>1 DEF TellOK
<1>3. ~Working(r)'
  BY <1>1 DEF Working
<1>4. CASE plan[r].kind = "single"
  <2>1. reply'[r] = [http |-> stage[r].http, status |-> stage[r].status]
    BY <1>4 DEF Respond, TypeInv, TypeOK
  <2>2. stage[r].http = 202 <=> published[r] # <<>>
    BY <1>1, <1>2, <1>4 DEF SingleOK
  <2>3. Truthful(r)'
    BY <2>1, <2>2, <1>1, <1>4 DEF Truthful
  <2> QED
    BY <2>3, <1>3 DEF TellOK
<1>5. CASE plan[r].kind = "batch"
  <2>1. /\ Count(r, "accepted") \in Nat /\ Count(r, "validated") \in Nat /\ Count(r, "failed") \in Nat
    BY CountType DEF TypeInv, Statuses
  <2> HIDE DEF Count
  <2>2. /\ sum.processed = Len(results[r]) /\ sum.published = Count(r, "accepted")
        /\ sum.succeeded = Count(r, "validated") + Count(r, "accepted") /\ sum.failed = Count(r, "failed")
    BY DEF Summary
  <2> HIDE DEF sum
  <2>3. reply'[r].summary = sum /\ reply'[r].status = batchReplayStatus(sum)
    BY <1>5 DEF Respond, TypeInv, TypeOK, sum
  <2>4. sum.published = Len(published[r])
    BY <1>1, <1>2, <2>1, <2>2 DEF CountsOK
  <2>5. sum.processed = sum.succeeded + sum.failed
    BY <1>2, <2>1, <2>2 DEF CountsOK
  <2>6. ASSUME batchReplayStatus(sum) = "accepted", ~ended[r]
        PROVE  Range(published[r]) = Range(plan[r].ids)
    <3>1. sum.failed = 0 /\ sum.published > 0
      BY <2>6 DEF batchReplayStatus
    <3>2. Count(r, "failed") = 0 /\ Count(r, "accepted") # 0
      BY <3>1, <2>2, <2>1
    <3>3. ~plan[r].dry
      BY <3>2, <1>2, Zenon DEF DryOK
    <3>4. Range(plan[r].ids) = Range(published[r]) \cup Range(todo[r]) /\ todo[r] = <<>>
      BY <3>2, <3>3, <1>1, <1>2, <1>5, <2>6, Zenon DEF CoversOK
    <3>5. Range(todo[r]) = {}
      BY <3>4, EmptyRange, Zenon
    <3> QED
      BY <3>4, <3>5
  <2>7. Truthful(r)'
    <3>1. plan'[r].kind # "single" /\ published' = published /\ ended' = ended /\ plan' = plan
      BY <1>1, <1>5
    <3>2. reply'[r].summary.published = Len(published'[r])
      BY <2>3, <2>4, <3>1
    <3>3. reply'[r].summary.processed = reply'[r].summary.succeeded + reply'[r].summary.failed
      BY <2>3, <2>5
    <3>4. reply'[r].status = "accepted" /\ ~ended'[r] => Range(published'[r]) = Range(plan'[r].ids)
      BY <2>3, <2>6, <3>1, Zenon
    <3> QED
      BY <3>1, <3>2, <3>3, <3>4, Zenon DEF Truthful
  <2> QED
    BY <2>7, <1>3 DEF TellOK
<1> QED
  BY <1>1, <1>4, <1>5

LEMMA CommandTells ==
    ASSUME TypeInv, NEW r \in Requests, TellOK(r), runReplay(r) \/ runReplayPublish(r)
    PROVE  TellOK(r)'
<1>1. Phase(r) /\ plan' = plan /\ pc[r] \in {"new", "cli"} /\ pc'[r] \in {"cli", "done"} /\ ~API(r)
  BY DEF runReplay, runReplayPublish, Exit, TypeInv, TypeOK, Phase, API
<1>2. pc'[r] = "done" => \E code : reply'[r] = [exit |-> code]
  <2>1. DOMAIN reply = Requests /\ pc \in [Requests -> Labels]
    BY DEF TypeInv, TypeOK
  <2>2. CASE Exit(r, 0)
    BY <2>1, <2>2 DEF Exit
  <2>3. CASE Exit(r, 1)
    BY <2>1, <2>3 DEF Exit
  <2>4. CASE pc' = [pc EXCEPT ![r] = "cli"]
    BY <2>1, <2>4
  <2>5. Exit(r, 0) \/ Exit(r, 1) \/ pc' = [pc EXCEPT ![r] = "cli"]
    BY Zenon DEF runReplay, runReplayPublish
  <2> QED
    BY <2>2, <2>3, <2>4, <2>5
<1>3. pc'[r] = "done" => "status" \notin DOMAIN reply'[r]
  <2>1. ASSUME NEW code, reply'[r] = [exit |-> code] PROVE "status" \notin DOMAIN reply'[r]
    BY <2>1
  <2> QED
    BY <2>1, <1>2, Zenon
<1>4. ~Working(r)'
  BY <1>1 DEF Working, API
<1> QED
  BY <1>3, <1>4 DEF TellOK, Truthful

(* What the others do, and a crash, leave what a request will tell. *)
LEMMA TellStays ==
    ASSUME NEW r \in Requests, TellOK(r), pc'[r] = pc[r] \/ pc'[r] = "dead",
           UNCHANGED <<plan[r], ended[r], todo[r], stage[r], results[r], reply[r], published[r]>>
    PROVE  TellOK(r)'
<1>1. CASE pc'[r] = "dead"
  BY <1>1 DEF TellOK, Working, Truthful
<1>2. CASE pc'[r] = pc[r]
  <2>1. /\ plan'[r] = plan[r] /\ ended'[r] = ended[r] /\ todo'[r] = todo[r] /\ stage'[r] = stage[r]
        /\ results'[r] = results[r] /\ reply'[r] = reply[r] /\ published'[r] = published[r]
    OBVIOUS
  <2>2. (Recording(r)' <=> Recording(r)) /\ (Accepting(r)' <=> Accepting(r)) /\ (Working(r)' <=> Working(r))
    BY <1>2, <2>1, Zenon DEF Recording, Accepting, Working, API
  <2>3. /\ Count(r, "validated")' = Count(r, "validated") /\ Count(r, "accepted")' = Count(r, "accepted")
        /\ Count(r, "failed")' = Count(r, "failed")
    BY <2>1, SameCounts
  <2> HIDE DEF Count
  <2>4. CountsOK(r) => CountsOK(r)'
    BY <2>1, <2>2, <2>3, Zenon DEF CountsOK
  <2>5. DryOK(r) => DryOK(r)'
    BY <1>2, <2>1, <2>2, <2>3, Zenon DEF DryOK
  <2>6. CoversOK(r) => CoversOK(r)'
    BY <1>2, <2>1, <2>3, Zenon DEF CoversOK
  <2>7. SingleOK(r) => SingleOK(r)'
    BY <1>2, <2>1, <2>2 DEF SingleOK
  <2>8. Truthful(r) => Truthful(r)'
    BY <1>2, <2>1 DEF Truthful
  <2> QED
    BY <2>2, <2>4, <2>5, <2>6, <2>7, <2>8, Zenon DEF TellOK
<1> QED
  BY <1>1, <1>2

(* ReplyTruthful: 202 for a single event means the publisher took it; the   *)
(* summary of a batch counts what was published; "accepted" for a batch     *)
(* that was not cut short means that all it names was.                      *)
THEOREM RepliesAreTrue == Spec => []ReplyTruthful
<1>1. Init => TellInv
  <2> SUFFICES ASSUME Init, NEW r \in Requests PROVE TellOK(r)
    BY DEF TellInv
  <2>1. pc[r] = "new"
    BY DEF Init
  <2> QED
    BY <2>1 DEF TellOK, Working, Truthful
<1>2. ASSUME TypeInv, TellInv, [Next]_vars PROVE TellInv'
  <2> SUFFICES ASSUME NEW s \in Requests PROVE TellOK(s)'
    BY DEF TellInv
  <2>1. TellOK(s)
    BY <1>2 DEF TellInv
  <2>2. ASSUME NEW r \in Requests, RequestStep(r) PROVE TellOK(s)'
    <3>1. CASE s = r
      BY <1>2, <2>1, <2>2, <3>1, BeginTells, LookTells, PublishTells, SaveTells, RespondTells, CommandTells
         DEF RequestStep
    <3>2. CASE s # r
      <4>1. Untouched(s)
        BY <1>2, <2>2, <3>2, OthersUntouched DEF TypeInv
      <4> QED
        BY <2>1, <4>1, TellStays DEF Untouched
    <3> QED
      BY <3>1, <3>2
  <2>3. CASE Aside
    BY <2>1, <2>3, AsideStays, TellStays
  <2>4. CASE Crash
    BY <1>2, <2>1, <2>4, Crashed, TellStays
  <2> QED
    BY <1>2, <2>2, <2>3, <2>4, NextCases
<1>3. TellInv => ReplyTruthful
  BY Zenon DEF TellInv, TellOK, Truthful, ReplyTruthful
<1> QED
  BY <1>1, <1>2, <1>3, TypesHold, PTL DEF Spec

-------------------------------------------------------------------------------
(* Reading the audit page by page *)

Recs == Earlier \cup AuditRecord

(* Records that can be put in order: no two have the same id. *)
Orderly(S) == S \subseteq Recs /\ IsFiniteSet(S) /\ \A a, b \in S : a.id = b.id => a = b

(* No record in the audit, and no other that is being saved, has the id of  *)
(* a record that is being saved.                                            *)
Saving(r) == pc[r] = "save"

IdsOK ==
    /\ Orderly(audit)
    /\ \A r \in Requests : Saving(r) => \A a \in audit : a.id # rec[r].id
    /\ \A r, s \in Requests : Saving(r) /\ Saving(s) /\ r # s => rec[r].id # rec[s].id

(* The pages so far are in order, what was there when the reading began is  *)
(* still there, and is in the pages or comes after the cursor: the last     *)
(* record of the pages, which is still there too.                           *)
Browsing(b, records) ==
    /\ b \in [state: {"paging", "end"}, query: Queries, cursor: Recs \cup {NoCursor}, got: Seq(Recs),
              there: SUBSET Recs]
    /\ \A i \in 1 .. Len(b.got) - 1 : Before(b.got[i], b.got[i + 1], b.query.sort)
    /\ b.there \subseteq Matching(records, b.query)

Underway(b, records) ==
    /\ b.got # <<>> /\ b.cursor = b.got[Len(b.got)] /\ b.cursor \in Matching(records, b.query)
    /\ \A x \in b.there : x \in Range(b.got) \/ Before(b.cursor, x, b.query.sort)

Starting(b) == b.got = <<>> /\ b.cursor = NoCursor

BrowseOK ==
    browser # Idle =>
        /\ Browsing(browser, audit)
        /\ browser.state = "end" => browser.there \subseteq Range(browser.got)
        /\ browser.state = "paging" => Underway(browser, audit)

LEMMA RecsNumbered == \A a \in Recs : a.id \in Nat /\ a.at \in Nat /\ a # NoCursor
<1>1. \A a \in AuditRecord : a.id \in AuditIDs /\ a.at \in 0 .. MaxClock
  BY DEF AuditRecord
<1>2. ASSUME NEW a \in AuditRecord PROVE a.id \in Nat /\ a.at \in Nat
  <2>1. AuditIDs \subseteq Nat \ {0}
    BY ReplayAssumption, Zenon
  <2>2. \A n \in Nat : 0 .. n \subseteq Nat
    OBVIOUS
  <2>3. MaxClock \in Nat
    BY ReplayAssumption, Zenon
  <2> QED
    BY <1>1, <2>1, <2>2, <2>3, Zenon
<1>3. \A a \in Earlier : a.id \in Nat /\ a.at \in Nat
  BY ReplayAssumption
<1>4. NoCursor \notin Recs
  BY ReplayAssumption, Zenon DEF Recs
<1> QED
  BY <1>2, <1>3, <1>4 DEF Recs

(* In both directions the order of a query is strict and total. *)
LEMMA BeforeOrders ==
    ASSUME NEW S, Orderly(S), NEW order
    PROVE  /\ \A a \in S : ~Before(a, a, order)
           /\ \A a, b \in S : a # b => Before(a, b, order) \/ Before(b, a, order)
           /\ \A a, b, c \in S : Before(a, b, order) /\ Before(b, c, order) => Before(a, c, order)
<1>1. \A a \in S : a.id \in Nat /\ a.at \in Nat
  BY RecsNumbered DEF Orderly
<1>2. \A a, b \in S : a # b => a.id # b.id
  BY DEF Orderly
<1>3. CASE order = "asc"
  BY <1>1, <1>2, <1>3 DEF Before
<1>4. CASE order # "asc"
  BY <1>1, <1>2, <1>4 DEF Before
<1> QED
  BY <1>3, <1>4

InOrder(s, order) == \A i, j \in DOMAIN s : i < j <=> Before(s[i], s[j], order)

(* sortRecords gives all the records, in order. *)
LEMMA Sorted ==
    ASSUME NEW S, Orderly(S), NEW order
    PROVE  /\ sortRecords(S, order) \in Seq(S) /\ Range(sortRecords(S, order)) = S
           /\ InOrder(sortRecords(S, order), order)
<1> DEFINE n == Cardinality(S)
           prior == [x \in S |-> {a \in S : Before(a, x, order)}]
           place(k) == CHOOSE x \in S : Cardinality({a \in S : Before(a, x, order)}) = k - 1
           s == sortRecords(S, order)
<1>1. IsFiniteSet(S) /\ n \in Nat
  BY FS_CardinalityType DEF Orderly
<1>2. prior \in [S -> SUBSET S] /\ \A x \in S : prior[x] = {a \in S : Before(a, x, order)}
  OBVIOUS
<1>3. /\ \A x \in S : x \notin prior[x]
      /\ \A x, y \in S : x # y => x \in prior[y] \/ y \in prior[x]
      /\ \A x, y \in S : x \in prior[y] => prior[x] \subseteq prior[y]
      /\ \A x, y \in S : x \in prior[y] <=> Before(x, y, order)
  <2> HIDE DEF prior
  <2> QED
    BY <1>2, BeforeOrders
<1>4. /\ \A x \in S : Cardinality(prior[x]) \in 0 .. n - 1
      /\ \A k \in 1 .. n : \E x \in S : Cardinality(prior[x]) = k - 1
      /\ \A x, y \in S : x \in prior[y] <=> Cardinality(prior[x]) < Cardinality(prior[y])
  <2> HIDE DEF prior
  <2> QED
    BY <1>1, <1>2, <1>3, Ranks
<1>5. ASSUME NEW k \in 1 .. n PROVE place(k) \in S /\ Cardinality(prior[place(k)]) = k - 1
  <2>1. \E x \in S : Cardinality({a \in S : Before(a, x, order)}) = k - 1
    BY <1>2, <1>4
  <2>2. place(k) \in S /\ Cardinality({a \in S : Before(a, place(k), order)}) = k - 1
    BY <2>1
  <2> QED
    BY <2>2, <1>2
<1>6. s = [k \in 1 .. n |-> place(k)]
  BY Zenon DEF sortRecords
<1>7. s \in Seq(S) /\ DOMAIN s = 1 .. n /\ \A k \in 1 .. n : s[k] \in S /\ Cardinality(prior[s[k]]) = k - 1
  <2> HIDE DEF place, n, prior
  <2> QED
    BY <1>1, <1>5, <1>6, SeqDef
<1> HIDE DEF s, place, prior
<1>8. InOrder(s, order)
  <2> SUFFICES ASSUME NEW i \in 1 .. n, NEW j \in 1 .. n PROVE i < j <=> Before(s[i], s[j], order)
    BY <1>7 DEF InOrder
  <2>1. Before(s[i], s[j], order) <=> Cardinality(prior[s[i]]) < Cardinality(prior[s[j]])
    BY <1>3, <1>4, <1>7
  <2>2. i - 1 < j - 1 <=> i < j
    BY <1>1
  <2> QED
    BY <2>1, <2>2, <1>7
<1>9. ASSUME NEW x \in S PROVE x \in Range(s)
  <2>1. PICK k \in 1 .. n : k - 1 = Cardinality(prior[x])
    <3>1. Cardinality(prior[x]) + 1 \in 1 .. n /\ (Cardinality(prior[x]) + 1) - 1 = Cardinality(prior[x])
      BY <1>1, <1>4
    <3> QED
      BY <3>1
  <2>2. s[k] \in S /\ Cardinality(prior[s[k]]) = Cardinality(prior[x]) /\ Cardinality(prior[x]) \in Int
    BY <2>1, <1>1, <1>4, <1>7
  <2>3. ~(Cardinality(prior[s[k]]) < Cardinality(prior[x])) /\ ~(Cardinality(prior[x]) < Cardinality(prior[s[k]]))
    BY <2>2
  <2>4. s[k] = x
    BY <2>2, <2>3, <1>3, <1>4
  <2> QED
    BY <2>4, <1>7 DEF Range
<1>10. \A x \in Range(s) : x \in S
  BY <1>7 DEF Range
<1> QED
  BY <1>7, <1>8, <1>9, <1>10 DEF s

(* A page is a stretch of a list in order: nothing of the list from its     *)
(* start on is left out or repeated by the page and what follows it.        *)
Stretch(p, S, all, order, start, end) ==
    /\ p.found /\ p.records \in Seq(Recs)
    /\ \A x \in Range(p.records) : \E i \in start + 1 .. end : x = all[i]
    /\ \A i \in 1 .. Len(p.records) - 1 : Before(p.records[i], p.records[i + 1], order)
    /\ p.next = NoCursor => \A i \in start + 1 .. Len(all) : all[i] \in Range(p.records)
    /\ p.next # NoCursor =>
        /\ p.records # <<>> /\ p.next = p.records[Len(p.records)] /\ p.next \in S
        /\ \A i \in start + 1 .. Len(all) : all[i] \in Range(p.records) \/ Before(p.next, all[i], order)

LEMMA PageCut ==
    ASSUME NEW S, S \subseteq Recs, NEW all \in Seq(S), NEW order, InOrder(all, order),
           NEW start \in 0 .. Len(all), NEW end \in start .. Len(all),
           start < Len(all) => start < end,
           NEW more \in BOOLEAN, more <=> end < Len(all),
           NEW page, page = SubSeq(all, start + 1, end),
           NEW p, p = Page(page, more)
    PROVE  Stretch(p, S, all, order, start, end)
<1>1. /\ Len(all) \in Nat /\ start \in Nat /\ end \in Nat /\ start <= end /\ end <= Len(all)
      /\ DOMAIN all = 1 .. Len(all) /\ \A i \in 1 .. Len(all) : all[i] \in S
  OBVIOUS
<1>2. /\ page \in Seq(S) /\ Len(page) = end - start /\ DOMAIN page = 1 .. end - start
      /\ \A i \in 1 .. end - start : page[i] = all[start + i]
  <2>1. start + 1 \in Int /\ end \in Int /\ \A i \in start + 1 .. end : all[i] \in S
    BY <1>1
  <2>2. /\ page \in Seq(S)
        /\ Len(page) = IF start + 1 <= end THEN end - (start + 1) + 1 ELSE 0
        /\ \A i \in 1 .. end - (start + 1) + 1 : page[i] = all[start + 1 + i - 1]
    BY <2>1, SubSeqProperties
  <2>3. Len(page) = end - start
    BY <2>2, <1>1
  <2>4. ASSUME NEW i \in 1 .. end - start PROVE page[i] = all[start + i]
    <3>1. i \in 1 .. end - (start + 1) + 1 /\ start + 1 + i - 1 = start + i
      BY <1>1
    <3> QED
      BY <3>1, <2>2
  <2>5. DOMAIN page = 1 .. Len(page)
    BY <2>2
  <2> QED
    BY <2>2, <2>3, <2>4, <2>5
<1>3. /\ p.found /\ p.records = page
      /\ p.next = IF end < Len(all) /\ page # <<>> THEN page[Len(page)] ELSE NoCursor
  BY DEF Page, Last
<1>4. page \in Seq(Recs)
  BY <1>2
<1>5. \A x \in Range(page) : \E i \in start + 1 .. end : x = all[i]
  <2> SUFFICES ASSUME NEW k \in 1 .. end - start PROVE \E i \in start + 1 .. end : page[k] = all[i]
    BY <1>2 DEF Range
  <2>1. start + k \in start + 1 .. end
    BY <1>1
  <2> QED
    BY <2>1, <1>2
<1>6. ASSUME NEW i \in start + 1 .. end PROVE all[i] \in Range(page)
  <2>1. i - start \in 1 .. end - start /\ start + (i - start) = i
    BY <1>1
  <2>2. page[i - start] = all[i] /\ i - start \in DOMAIN page
    BY <2>1, <1>2
  <2> QED
    BY <2>2 DEF Range
<1>7. ASSUME NEW i \in 1 .. Len(page) - 1 PROVE Before(page[i], page[i + 1], order)
  <2>1. /\ i \in 1 .. end - start /\ i + 1 \in 1 .. end - start
        /\ start + i \in DOMAIN all /\ start + (i + 1) \in DOMAIN all /\ start + i < start + (i + 1)
    <3>1. i \in Nat /\ 1 <= i /\ i + 1 <= end - start
      BY <1>1, <1>2
    <3> QED
      BY <1>1, <3>1
  <2>2. Before(all[start + i], all[start + (i + 1)], order)
    BY <2>1 DEF InOrder
  <2> QED
    BY <2>1, <2>2, <1>2
<1>8. \A x \in S : x # NoCursor
  BY RecsNumbered
<1>9. CASE end < Len(all)
  <2>1. start < end /\ page # <<>> /\ Len(page) \in 1 .. end - start /\ start + Len(page) = end
    <3>1. start < end /\ Len(page) # 0
      BY <1>1, <1>2, <1>9
    <3> QED
      BY <3>1, <1>1, <1>2
  <2>2. p.next = page[Len(page)] /\ p.next = all[end] /\ p.next \in S /\ p.next # NoCursor
    <3>1. p.next = page[Len(page)]
      BY <2>1, <1>3, <1>9
    <3>2. page[Len(page)] = all[end] /\ end \in 1 .. Len(all)
      BY <2>1, <1>1, <1>2
    <3> QED
      BY <3>1, <3>2, <1>1, <1>8
  <2>3. ASSUME NEW i \in start + 1 .. Len(all) PROVE all[i] \in Range(page) \/ Before(p.next, all[i], order)
    <3>1. CASE i <= end
      <4>1. i \in start + 1 .. end
        BY <3>1, <1>1
      <4> QED
        BY <4>1, <1>6
    <3>2. CASE end < i
      <4>1. end \in DOMAIN all /\ i \in DOMAIN all
        BY <2>1, <1>1
      <4> QED
        BY <3>2, <4>1, <2>2 DEF InOrder
    <3> QED
      BY <3>1, <3>2, <1>1
  <2> QED
    BY <2>1, <2>2, <2>3, <1>3, <1>4, <1>5, <1>7 DEF Stretch
<1>10. CASE ~(end < Len(all))
  <2>1. end = Len(all) /\ p.next = NoCursor
    BY <1>1, <1>3, <1>10
  <2> QED
    BY <2>1, <1>3, <1>4, <1>5, <1>6, <1>7 DEF Stretch
<1> QED
  BY <1>9, <1>10

(* The records a page may take from: those of the query after the cursor. *)
After(records, q, cursor) ==
    {x \in Matching(records, q) : cursor = NoCursor \/ Before(cursor, x, q.sort)}

PageFits(p, records, q, cursor) ==
    /\ p.found /\ p.records \in Seq(Recs)
    /\ Range(p.records) \subseteq After(records, q, cursor)
    /\ \A i \in 1 .. Len(p.records) - 1 : Before(p.records[i], p.records[i + 1], q.sort)
    /\ p.next = NoCursor => After(records, q, cursor) \subseteq Range(p.records)
    /\ p.next # NoCursor =>
        /\ p.records # <<>> /\ p.next = p.records[Len(p.records)] /\ p.next \in Matching(records, q)
        /\ \A x \in After(records, q, cursor) : x \in Range(p.records) \/ Before(p.next, x, q.sort)

LEMMA MatchingOrderly ==
    ASSUME NEW records, Orderly(records), NEW q
    PROVE  Matching(records, q) \subseteq records /\ Orderly(Matching(records, q))
<1>1. Matching(records, q) \in SUBSET records
  BY DEF Matching
<1>2. IsFiniteSet(Matching(records, q))
  BY <1>1, FS_Subset DEF Orderly
<1> QED
  BY <1>1, <1>2 DEF Orderly

(* The bounds of a page: its end, and that it is not empty when there is    *)
(* something to put on it.                                                  *)
LEMMA PageEnd ==
    ASSUME NEW n \in Nat, NEW start \in 0 .. n, NEW limit \in Nat \ {0}, NEW end,
           end = IF start + limit > n THEN n ELSE start + limit
    PROVE  end \in start .. n /\ (start < n => start < end) /\ (end < n <=> start + limit < n)
<1>1. CASE start + limit > n
  BY <1>1
<1>2. CASE ~(start + limit > n)
  BY <1>2
<1> QED
  BY <1>1, <1>2

LEMMA FilePages ==
    ASSUME NEW records, Orderly(records), NEW q \in Queries, NEW cursor \in Matching(records, q) \cup {NoCursor}
    PROVE  PageFits(FileList(records, q, cursor), records, q, cursor)
<1> DEFINE M     == Matching(records, q)
           all   == sortRecords(M, q.sort)
           found == {i \in DOMAIN all : cursor # NoCursor /\ all[i].id = cursor.id}
           start == IF found = {} THEN 0 ELSE CHOOSE i \in found : TRUE
           end   == IF start + q.limit > Len(all) THEN Len(all) ELSE start + q.limit
           p     == FileList(records, q, cursor)
<1>1. Orderly(M) /\ q.limit \in Nat \ {0} /\ M \subseteq Recs
  BY MatchingOrderly, ReplayAssumption DEF Orderly
<1>2. all \in Seq(M) /\ Range(all) = M /\ InOrder(all, q.sort) /\ DOMAIN all = 1 .. Len(all) /\ Len(all) \in Nat
  BY <1>1, Sorted
<1>3. p = IF cursor # NoCursor /\ found = {} THEN NotFound ELSE Page(SubSeq(all, start + 1, end), end < Len(all))
  BY Zenon DEF FileList
<1> HIDE DEF all, p
<1>4. /\ start \in 0 .. Len(all) /\ ~(cursor # NoCursor /\ found = {})
      /\ cursor = NoCursor => start = 0
      /\ cursor # NoCursor => start \in DOMAIN all /\ all[start] = cursor
  <2>1. CASE cursor = NoCursor
    BY <2>1, <1>2
  <2>2. CASE cursor # NoCursor
    <3>1. cursor \in M
      BY <2>2
    <3>2. PICK c \in DOMAIN all : all[c] = cursor
      BY <3>1, <1>2 DEF Range
    <3>3. c \in found
      BY <2>2, <3>2
    <3>4. start \in found
      BY <3>3
    <3>5. start \in DOMAIN all /\ all[start].id = cursor.id /\ all[start] \in M
      BY <3>4, <1>2
    <3>6. all[start] = cursor
      BY <3>1, <3>5, <1>1 DEF Orderly
    <3> HIDE DEF start, found
    <3> QED
      BY <2>2, <3>3, <3>5, <3>6, <1>2
  <2> QED
    BY <2>1, <2>2
<1>5. end \in start .. Len(all) /\ (start < Len(all) => start < end)
  <2> HIDE DEF start
  <2> QED
    BY <1>1, <1>2, <1>4, PageEnd
<1>6. p = Page(SubSeq(all, start + 1, end), end < Len(all))
  BY <1>3, <1>4, Zenon
<1>7. After(records, q, cursor) = {all[i] : i \in start + 1 .. Len(all)}
  <2> HIDE DEF start, found, M
  <2>1. ASSUME NEW x \in M, cursor = NoCursor \/ Before(cursor, x, q.sort)
        PROVE  \E i \in start + 1 .. Len(all) : x = all[i]
    <3>1. PICK i \in DOMAIN all : x = all[i]
      BY <1>2 DEF Range
    <3>2. start < i
      <4>1. CASE cursor = NoCursor
        BY <4>1, <1>2, <1>4
      <4>2. CASE cursor # NoCursor
        BY <4>2, <2>1, <3>1, <1>2, <1>4 DEF InOrder
      <4> QED
        BY <4>1, <4>2
    <3>3. i \in start + 1 .. Len(all)
      BY <3>2, <1>2, <1>4
    <3> QED
      BY <3>1, <3>3
  <2>2. ASSUME NEW i \in start + 1 .. Len(all)
        PROVE  all[i] \in M /\ (cursor = NoCursor \/ Before(cursor, all[i], q.sort))
    <3>1. i \in DOMAIN all /\ start < i
      BY <1>2, <1>4
    <3>2. all[i] \in M
      BY <3>1, <1>2 DEF Range
    <3>3. cursor # NoCursor => Before(cursor, all[i], q.sort)
      BY <3>1, <1>2, <1>4 DEF InOrder
    <3> QED
      BY <3>2, <3>3
  <2> QED
    BY <2>1, <2>2 DEF After, M
<1> HIDE DEF start, end, found, M
<1>8. Stretch(p, M, all, q.sort, start, end)
  <2>1. /\ M \subseteq Recs /\ all \in Seq(M) /\ InOrder(all, q.sort)
        /\ start \in 0 .. Len(all) /\ end \in start .. Len(all) /\ (start < Len(all) => start < end)
    BY <1>1, <1>2, <1>4, <1>5, Zenon
  <2> DEFINE page == SubSeq(all, start + 1, end)
             more == end < Len(all)
  <2>2. more \in BOOLEAN /\ (more <=> end < Len(all)) /\ page = SubSeq(all, start + 1, end) /\ p = Page(page, more)
    BY <1>6
  <2> HIDE DEF page, more
  <2> QED
    BY <2>1, <2>2, PageCut
<1>9. start + 1 .. end \subseteq start + 1 .. Len(all)
  BY <1>2, <1>4, <1>5
<1> QED
  BY <1>7, <1>8, <1>9 DEF PageFits, M, p, Stretch

LEMMA PostgresPages ==
    ASSUME NEW records, Orderly(records), NEW q \in Queries, NEW cursor \in Matching(records, q) \cup {NoCursor}
    PROVE  PageFits(PostgresList(records, q, cursor), records, q, cursor)
<1> DEFINE A    == After(records, q, cursor)
           rows == sortRecords(A, q.sort)
           n    == Len(rows)
           read == SubSeq(rows, 1, IF n < q.limit + 1 THEN n ELSE q.limit + 1)
           more == Len(read) > q.limit
           end  == IF 0 + q.limit > n THEN n ELSE 0 + q.limit
           p    == PostgresList(records, q, cursor)
<1>1. q.limit \in Nat \ {0} /\ Orderly(A) /\ A \subseteq Recs /\ A \subseteq Matching(records, q)
  <2>1. A \in SUBSET Matching(records, q) /\ Orderly(Matching(records, q))
    BY MatchingOrderly DEF After
  <2>2. IsFiniteSet(A)
    BY <2>1, FS_Subset DEF Orderly
  <2> QED
    BY <2>1, <2>2, ReplayAssumption DEF Orderly
<1>2. rows \in Seq(A) /\ Range(rows) = A /\ InOrder(rows, q.sort) /\ DOMAIN rows = 1 .. n /\ n \in Nat
  BY <1>1, Sorted
<1>3. p = Page(IF more THEN SubSeq(read, 1, q.limit) ELSE read, more)
  BY Zenon DEF PostgresList, After
<1> HIDE DEF A, rows, p
<1>4. end \in 0 .. n /\ (0 < n => 0 < end) /\ (end < n <=> q.limit < n) /\ 0 \in 0 .. n
  BY <1>1, <1>2, PageEnd
<1>5. \A i \in 1 .. n : rows[i] \in A
  BY <1>2
<1>6. ASSUME q.limit < n PROVE p = Page(SubSeq(rows, 0 + 1, end), end < n)
  <2>1. end = q.limit /\ read = SubSeq(rows, 1, q.limit + 1)
    BY <1>1, <1>2, <1>6
  <2>2. Len(read) = q.limit + 1
    <3>1. \A i \in 1 .. q.limit + 1 : rows[i] \in A
      BY <1>1, <1>2, <1>5, <1>6
    <3> HIDE DEF read, n
    <3>2. Len(SubSeq(rows, 1, q.limit + 1)) = IF 1 <= q.limit + 1 THEN q.limit + 1 - 1 + 1 ELSE 0
      BY <1>1, <3>1, SubSeqProperties
    <3> QED
      BY <2>1, <3>2, <1>1
  <2>3. SubSeq(read, 1, q.limit) = SubSeq(rows, 1, q.limit)
    <3>1. /\ 1 \in 1 .. n /\ q.limit + 1 \in 1 .. n
          /\ 1 \in 1 .. q.limit + 1 - 1 + 1 /\ q.limit \in 1 .. q.limit + 1 - 1 + 1
          /\ 1 + 1 - 1 = 1 /\ 1 + q.limit - 1 = q.limit
      BY <1>1, <1>2, <1>6
    <3> HIDE DEF read
    <3>2. SubSeq(SubSeq(rows, 1, q.limit + 1), 1, q.limit) = SubSeq(rows, 1 + 1 - 1, 1 + q.limit - 1)
      BY <1>2, <3>1, SubSeqOfSubSeq
    <3> QED
      BY <2>1, <3>1, <3>2
  <2>4. more
    <3> HIDE DEF read
    <3> QED
      BY <2>2, <1>1
  <2>5. p = Page(SubSeq(rows, 0 + 1, end), end < n)
    <3>1. 0 + 1 = 1 /\ end < n
      BY <1>4, <1>6
    <3> HIDE DEF read, more, end, n
    <3> QED
      BY <1>3, <2>1, <2>3, <2>4, <3>1
  <2> QED
    BY <2>5
<1>7. ASSUME ~(q.limit < n) PROVE p = Page(SubSeq(rows, 0 + 1, end), end < n)
  <2>1. end = n
    BY <1>1, <1>2, <1>7
  <2>2. read = SubSeq(rows, 1, n)
    BY <1>1, <1>2, <1>7
  <2>3. read = rows
    <3> HIDE DEF read
    <3> QED
      BY <2>2, <1>2, SubSeqFull
  <2> HIDE DEF read
  <2>4. ~more
    BY <2>3, <1>1, <1>2, <1>7
  <2>5. p = Page(SubSeq(rows, 0 + 1, end), end < n)
    <3>1. 0 + 1 = 1 /\ (end < n) = FALSE /\ more = FALSE
      BY <2>1, <2>4, <1>2
    <3> HIDE DEF more, end, n
    <3>2. p = Page(read, FALSE)
      BY <1>3, <2>4, <3>1, Zenon
    <3> QED
      BY <2>1, <2>2, <3>1, <3>2, Zenon
  <2> QED
    BY <2>5
<1>8. p = Page(SubSeq(rows, 0 + 1, end), end < n)
  BY <1>6, <1>7
<1> HIDE DEF end, n
<1>9. Stretch(p, A, rows, q.sort, 0, end)
  <2>1. end \in 0 .. Len(rows) /\ (0 < Len(rows) => 0 < end) /\ 0 \in 0 .. Len(rows) /\ rows \in Seq(A)
        /\ A \subseteq Recs /\ InOrder(rows, q.sort)
    BY <1>1, <1>2, <1>4 DEF n
  <2> DEFINE page == SubSeq(rows, 0 + 1, end)
             over == end < Len(rows)
  <2>2. over \in BOOLEAN /\ (over <=> end < Len(rows)) /\ page = SubSeq(rows, 0 + 1, end) /\ p = Page(page, over)
    BY <1>8 DEF n
  <2> HIDE DEF page, over
  <2> QED
    BY <2>1, <2>2, PageCut
<1>10. 0 + 1 .. n = DOMAIN rows /\ 0 + 1 .. end \subseteq DOMAIN rows
  BY <1>2, <1>4
<1>11. A = {rows[i] : i \in DOMAIN rows}
  BY <1>2 DEF Range
<1>12. Range(p.records) \subseteq A
  BY <1>9, <1>10, <1>11 DEF Stretch, n
<1>13. p.next = NoCursor => A \subseteq Range(p.records)
  BY <1>9, <1>10, <1>11 DEF Stretch, n
<1>14. p.next # NoCursor => \A x \in A : x \in Range(p.records) \/ Before(p.next, x, q.sort)
  BY <1>9, <1>10, <1>11 DEF Stretch, n
<1> QED
  BY <1>1, <1>9, <1>12, <1>13, <1>14 DEF PageFits, A, p, Stretch

LEMMA ConcatRange ==
    ASSUME NEW S, NEW s \in Seq(S), NEW t \in Seq(S)
    PROVE  /\ s \o t \in Seq(S) /\ Len(s \o t) = Len(s) + Len(t)
           /\ \A i \in 1 .. Len(s) : (s \o t)[i] = s[i]
           /\ \A i \in 1 .. Len(t) : (s \o t)[Len(s) + i] = t[i]
           /\ Range(s \o t) = Range(s) \cup Range(t)
<1>1. /\ s \o t \in Seq(S) /\ Len(s \o t) = Len(s) + Len(t)
      /\ DOMAIN (s \o t) = 1 .. Len(s) + Len(t) /\ DOMAIN s = 1 .. Len(s) /\ DOMAIN t = 1 .. Len(t)
      /\ Len(s) \in Nat /\ Len(t) \in Nat
      /\ \A i \in 1 .. Len(s) + Len(t) : (s \o t)[i] = IF i <= Len(s) THEN s[i] ELSE t[i - Len(s)]
  <2>1. /\ s \o t \in Seq(S) /\ Len(s \o t) = Len(s) + Len(t)
        /\ \A i \in 1 .. Len(s) + Len(t) : (s \o t)[i] = IF i <= Len(s) THEN s[i] ELSE t[i - Len(s)]
    BY ConcatProperties, Zenon
  <2>2. Len(s) \in Nat /\ Len(t) \in Nat /\ DOMAIN s = 1 .. Len(s) /\ DOMAIN t = 1 .. Len(t)
    OBVIOUS
  <2>3. DOMAIN (s \o t) = 1 .. Len(s \o t)
    BY <2>1
  <2> QED
    BY <2>1, <2>2, <2>3, Zenon
<1>2. \A i \in 1 .. Len(s) : (s \o t)[i] = s[i] /\ i \in DOMAIN (s \o t)
  BY <1>1
<1>3. ASSUME NEW i \in 1 .. Len(t) PROVE (s \o t)[Len(s) + i] = t[i] /\ Len(s) + i \in DOMAIN (s \o t)
  <2>1. Len(s) + i \in 1 .. Len(s) + Len(t) /\ ~(Len(s) + i <= Len(s)) /\ Len(s) + i - Len(s) = i
    BY <1>1
  <2> QED
    BY <2>1, <1>1
<1>4. ASSUME NEW x \in Range(s \o t) PROVE x \in Range(s) \cup Range(t)
  <2>1. PICK i \in 1 .. Len(s) + Len(t) : x = (s \o t)[i]
    BY <1>1 DEF Range
  <2>2. CASE i <= Len(s)
    <3>1. i \in DOMAIN s /\ x = s[i]
      BY <2>1, <2>2, <1>1
    <3> QED
      BY <3>1 DEF Range
  <2>3. CASE ~(i <= Len(s))
    <3>1. i - Len(s) \in DOMAIN t /\ x = t[i - Len(s)]
      BY <2>1, <2>3, <1>1
    <3> QED
      BY <3>1 DEF Range
  <2> QED
    BY <2>2, <2>3
<1>5. ASSUME NEW x \in Range(s) PROVE x \in Range(s \o t)
  <2>1. PICK i \in DOMAIN s : x = s[i]
    BY DEF Range
  <2>2. i \in DOMAIN (s \o t) /\ x = (s \o t)[i]
    BY <2>1, <1>1, <1>2
  <2> QED
    BY <2>2 DEF Range
<1>6. ASSUME NEW x \in Range(t) PROVE x \in Range(s \o t)
  <2>1. PICK i \in 1 .. Len(t) : x = t[i]
    BY <1>1 DEF Range
  <2>2. Len(s) + i \in DOMAIN (s \o t) /\ x = (s \o t)[Len(s) + i]
    BY <2>1, <1>3
  <2> QED
    BY <2>2 DEF Range
<1>7. Range(s \o t) = Range(s) \cup Range(t)
  BY <1>4, <1>5, <1>6
<1> QED
  BY <1>1, <1>2, <1>3, <1>7

(* A page that fits continues the pages before it. *)
LEMMA TurnPage ==
    ASSUME Orderly(audit), NEW b, Browsing(b, audit), NEW p, PageFits(p, audit, b.query, b.cursor),
           Starting(b) \/ Underway(b, audit)
    PROVE  /\ Browsing(Turn(b, p), audit)
           /\ Turn(b, p).state = "end" => Turn(b, p).there \subseteq Range(Turn(b, p).got)
           /\ Turn(b, p).state = "paging" => Underway(Turn(b, p), audit)
<1> DEFINE c == Turn(b, p)
           q == b.query
           m == Len(b.got)
           n == Len(p.records)
<1>1. /\ p.found /\ p.records \in Seq(Recs) /\ Range(p.records) \subseteq After(audit, q, b.cursor)
      /\ \A i \in 1 .. n - 1 : Before(p.records[i], p.records[i + 1], q.sort)
      /\ p.next = NoCursor => After(audit, q, b.cursor) \subseteq Range(p.records)
      /\ p.next # NoCursor =>
            /\ p.records # <<>> /\ p.next = p.records[n] /\ p.next \in Matching(audit, q)
            /\ \A x \in After(audit, q, b.cursor) : x \in Range(p.records) \/ Before(p.next, x, q.sort)
  BY Zenon DEF PageFits
<1>2. /\ b.got \in Seq(Recs) /\ b.there \subseteq Recs /\ b.there \subseteq Matching(audit, q) /\ q \in Queries
      /\ m \in Nat /\ n \in Nat /\ Matching(audit, q) \subseteq Recs
      /\ DOMAIN p.records = 1 .. n /\ m = Len(b.got) /\ n = Len(p.records) /\ q = b.query
  BY <1>1, MatchingOrderly DEF Browsing, Orderly
<1>3. c = [b EXCEPT !.got = b.got \o p.records, !.cursor = p.next,
                    !.state = IF p.next = NoCursor THEN "end" ELSE "paging"]
  BY <1>1 DEF Turn
<1>4. p.next \in Recs \cup {NoCursor}
  BY <1>1, <1>2
<1>5. /\ b.got \o p.records \in Seq(Recs) /\ Len(b.got \o p.records) = m + n
      /\ \A i \in 1 .. m : (b.got \o p.records)[i] = b.got[i]
      /\ \A i \in 1 .. n : (b.got \o p.records)[m + i] = p.records[i]
      /\ Range(b.got \o p.records) = Range(b.got) \cup Range(p.records)
  <2>1. b.got \in Seq(Recs) /\ p.records \in Seq(Recs)
    BY <1>1, <1>2
  <2>2. b.got \o p.records \in Seq(Recs) /\ Len(b.got \o p.records) = m + n
    BY <2>1, ConcatRange
  <2>3. Range(b.got \o p.records) = Range(b.got) \cup Range(p.records)
    BY <2>1, ConcatRange
  <2>4. \A j \in 1 .. m + n :
            (b.got \o p.records)[j] = IF j <= m THEN b.got[j] ELSE p.records[j - m]
    BY <2>1, ConcatProperties, Zenon
  <2> DEFINE all == b.got \o p.records
  <2>5. \A j \in 1 .. m + n : all[j] = IF j <= m THEN b.got[j] ELSE p.records[j - m]
    BY <2>4, Zenon
  <2> HIDE DEF all, m, n
  <2>6. m \in Nat /\ n \in Nat
    BY <1>2, Zenon
  <2>7. \A i \in 1 .. m : all[i] = b.got[i]
    BY <2>5, <2>6
  <2>8. \A i \in 1 .. n : all[m + i] = p.records[i]
    BY <2>5, <2>6
  <2> QED
    BY <2>2, <2>3, <2>7, <2>8, Zenon DEF all
<1>6. /\ c \in [state: {"paging", "end"}, query: Queries, cursor: Recs \cup {NoCursor}, got: Seq(Recs),
                there: SUBSET Recs]
      /\ c.got = b.got \o p.records /\ c.cursor = p.next /\ c.query = q /\ c.there = b.there
      /\ c.state = IF p.next = NoCursor THEN "end" ELSE "paging"
  BY <1>3, <1>4, <1>5 DEF Browsing
<1> HIDE DEF c, m, n, q
<1>20. m \in Nat /\ n \in Nat
  BY <1>2
<1>21. \A i \in 1 .. n : c.got[m + i] = p.records[i]
  BY <1>5, <1>6, Zenon
<1>22. Len(c.got) = m + n
  BY <1>5, <1>6, Zenon
<1>7. ASSUME NEW i \in 1 .. m + n - 1 PROVE Before(c.got[i], c.got[i + 1], q.sort)
  <2>1. CASE i < m
    <3>1. i \in 1 .. m - 1 /\ i \in 1 .. m /\ i + 1 \in 1 .. m
      BY <2>1, <1>2
    <3>2. Before(b.got[i], b.got[i + 1], q.sort)
      BY <3>1, <1>2 DEF Browsing
    <3> QED
      BY <3>1, <3>2, <1>5, <1>6
  <2>2. CASE i = m
    <3>1. m \in 1 .. m /\ 1 \in 1 .. n /\ b.got # <<>>
      BY <2>2, <1>2
    <3>2. Underway(b, audit)
      BY <3>1 DEF Starting
    <3>3. b.cursor = b.got[m] /\ b.cursor \in Recs
      BY <3>2, <1>2 DEF Underway
    <3>4. p.records[1] \in After(audit, q, b.cursor) /\ b.cursor # NoCursor
      BY <3>1, <3>3, <1>1, <1>2, RecsNumbered DEF Range
    <3>5. Before(b.got[m], p.records[1], q.sort)
      BY <3>3, <3>4 DEF After
    <3>6. c.got[m] = b.got[m] /\ c.got[m + 1] = p.records[1]
      BY <3>1, <1>5, <1>6
    <3> QED
      BY <2>2, <3>5, <3>6
  <2>3. CASE m < i
    <3>1. i - m \in 1 .. n - 1 /\ i - m \in 1 .. n /\ i - m + 1 \in 1 .. n /\ m + (i - m) = i /\ m + (i - m + 1) = i + 1
      <4>1. m \in Nat /\ n \in Nat /\ i \in Int /\ i <= m + n - 1
        BY <1>20
      <4> QED
        BY <4>1, <2>3
    <3>2. Before(p.records[i - m], p.records[i - m + 1], q.sort)
      BY <3>1, <1>1
    <3>3. c.got[i] = p.records[i - m] /\ c.got[i + 1] = p.records[i - m + 1]
      <4>1. (b.got \o p.records)[m + (i - m)] = p.records[i - m]
        BY <3>1, <1>5, Zenon
      <4>2. (b.got \o p.records)[m + (i - m + 1)] = p.records[i - m + 1]
        BY <3>1, <1>5, Zenon
      <4> QED
        BY <3>1, <4>1, <4>2, <1>6, Zenon
    <3> QED
      BY <3>2, <3>3
  <2> QED
    BY <2>1, <2>2, <2>3, <1>2
<1>8. Browsing(c, audit)
  <2>1. \A i \in 1 .. Len(c.got) - 1 : Before(c.got[i], c.got[i + 1], c.query.sort)
    <3> SUFFICES ASSUME NEW i \in 1 .. Len(c.got) - 1 PROVE Before(c.got[i], c.got[i + 1], c.query.sort)
      OBVIOUS
    <3>1. i \in 1 .. m + n - 1
      <4>1. Len(c.got) - 1 = m + n - 1
        BY <1>20, <1>22
      <4>2. i \in 1 .. Len(c.got) - 1
        OBVIOUS
      <4> QED
        BY <4>1, <4>2, Zenon
    <3>2. c.query = q
      BY <1>6
    <3> QED
      BY <3>1, <3>2, <1>7, Zenon
  <2> QED
    BY <2>1, <1>2, <1>6, Zenon DEF Browsing
<1>9. ASSUME NEW x \in b.there PROVE x \in Range(b.got) \/ x \in After(audit, q, b.cursor)
  <2>1. x \in Matching(audit, q)
    BY <1>2
  <2> QED
    BY <2>1, <1>2 DEF Starting, Underway, After
<1>10. c.state = "end" => c.there \subseteq Range(c.got)
  BY <1>1, <1>5, <1>6, <1>9
<1>11. c.state = "paging" => Underway(c, audit)
  <2> SUFFICES ASSUME c.state = "paging" PROVE Underway(c, audit)
    OBVIOUS
  <2>1. p.next # NoCursor
    BY <1>6
  <2>2. n \in 1 .. n /\ m + n = Len(c.got) /\ m + n # 0
    <3>1. p.records # <<>> /\ p.records \in Seq(Recs)
      BY <2>1, <1>1
    <3>2. Len(p.records) # 0
      BY <3>1
    <3>3. m \in Nat /\ n \in Nat /\ n # 0 /\ Len(c.got) = m + n
      BY <3>2, <1>2, <1>5, <1>6
    <3> QED
      BY <3>3
  <2>3. c.got # <<>> /\ c.got[Len(c.got)] = p.next
    <3>1. c.got[m + n] = p.records[n]
      BY <2>2, <1>21
    <3>2. Len(c.got) # 0
      BY <2>2
    <3> QED
      BY <3>1, <3>2, <2>1, <2>2, <1>1
  <2>4. \A x \in c.there : x \in Range(c.got) \/ Before(c.cursor, x, c.query.sort)
    BY <2>1, <1>1, <1>5, <1>6, <1>9
  <2> QED
    BY <2>1, <2>3, <2>4, <1>1, <1>6 DEF Underway
<1> QED
  BY <1>8, <1>10, <1>11 DEF c

(* A step that starts no Save, and puts no record in the audit but one      *)
(* whose Save it ends.                                                      *)
LEMMA IdsKept ==
    ASSUME TypeInv, IdsOK,
           \A s \in Requests : Saving(s)' => Saving(s) /\ rec'[s] = rec[s],
           audit' = audit \/ \E r \in Requests : Saving(r) /\ ~Saving(r)' /\ audit' = audit \cup {rec[r]}
    PROVE  IdsOK'
<1>1. CASE audit' = audit
  <2>1. Orderly(audit')
    BY <1>1, Zenon DEF IdsOK
  <2> QED
    BY <2>1, <1>1 DEF IdsOK
<1>2. ASSUME NEW r \in Requests, Saving(r), ~Saving(r)', audit' = audit \cup {rec[r]} PROVE IdsOK'
  <2>1. rec[r] \in AuditRecord
    BY <1>2 DEF TypeInv, Phase, Saving
  <2>2. /\ audit \subseteq Recs /\ IsFiniteSet(audit) /\ \A a, b \in audit : a.id = b.id => a = b
        /\ \A a \in audit : a.id # rec[r].id
    BY <1>2 DEF IdsOK, Orderly
  <2>3. IsFiniteSet(audit')
    BY <2>2, <1>2, FS_AddElement
  <2>4. Orderly(audit')
    BY <2>1, <2>2, <2>3, <1>2 DEF Orderly, Recs
  <2>5. ASSUME NEW s \in Requests, Saving(s)' PROVE \A a \in audit' : a.id # rec'[s].id
    <3>1. Saving(s) /\ rec'[s] = rec[s] /\ s # r
      BY <2>5, <1>2
    <3>2. rec[s].id # rec[r].id /\ \A a \in audit : a.id # rec[s].id
      BY <3>1, <1>2 DEF IdsOK
    <3> QED
      BY <3>1, <3>2, <1>2
  <2>6. ASSUME NEW s \in Requests, NEW t \in Requests, Saving(s)', Saving(t)', s # t PROVE rec'[s].id # rec'[t].id
    BY <2>6 DEF IdsOK
  <2> QED
    BY <2>4, <2>5, <2>6 DEF IdsOK
<1> QED
  BY <1>1, <1>2

LEMMA IdsStay ==
    ASSUME TypeInv, IdsOK, [Next]_vars
    PROVE  IdsOK'
<1>1. ASSUME NEW r \in Requests, Stamp(r) PROVE IdsOK'
  <2>1. PICK id \in AuditIDs : /\ id \notin {a.id : a \in audit \cup Range(rec)}
                               /\ rec' = [rec EXCEPT ![r] = [id |-> id, at |-> clock, who |-> r,
                                                             event |-> stage[r].event, result |-> stage[r].status]]
    BY <1>1 DEF Stamp
  <2>2. audit' = audit /\ DOMAIN rec = Requests /\ rec'[r].id = id /\ \A s \in Requests \ {r} : rec'[s] = rec[s]
    BY <1>1, <2>1 DEF Stamp, TypeInv, TypeOK
  <2>3. \A s \in Requests \ {r} : Saving(s)' <=> Saving(s)
    BY <1>1 DEF Stamp, TypeInv, TypeOK, Saving
  <2>4. \A s \in Requests : rec[s].id # id
    BY <2>1, <2>2 DEF Range
  <2>5. \A a \in audit : a.id # id
    BY <2>1
  <2>6. Orderly(audit')
    BY <2>2, Zenon DEF IdsOK
  <2>7. ASSUME NEW s \in Requests, Saving(s)' PROVE \A a \in audit' : a.id # rec'[s].id
    <3>1. CASE s = r
      BY <3>1, <2>2, <2>5
    <3>2. CASE s # r
      BY <3>2, <2>2, <2>3, <2>7 DEF IdsOK
    <3> QED
      BY <3>1, <3>2
  <2>8. ASSUME NEW s \in Requests, NEW t \in Requests, Saving(s)', Saving(t)', s # t PROVE rec'[s].id # rec'[t].id
    <3>1. CASE s = r
      BY <3>1, <2>2, <2>4, <2>8
    <3>2. CASE t = r
      BY <3>2, <2>2, <2>4, <2>8
    <3>3. CASE s # r /\ t # r
      BY <3>3, <2>2, <2>3, <2>8 DEF IdsOK
    <3> QED
      BY <3>1, <3>2, <3>3
  <2> QED
    BY <2>6, <2>7, <2>8 DEF IdsOK
<1>2. ASSUME NEW r \in Requests, SaveOK(r) \/ SaveFails(r) PROVE IdsOK'
  <2>1. pc[r] = "save" /\ Return(r) /\ pc'[r] \in {"next", "respond"}
    <3>1. pc[r] = "save" /\ Return(r)
      BY <1>2 DEF SaveOK, SaveFails
    <3> QED
      BY <3>1, Returned
  <2>2. Saving(r) /\ ~Saving(r)'
    BY <2>1 DEF Saving
  <2>3. audit' = audit \/ audit' = audit \cup {rec[r]}
    <3>1. AppendLine(rec[r]) => audit' = audit \/ audit' = audit \cup {rec[r]}
      BY DEF AppendLine
    <3> QED
      BY <1>2, <3>1 DEF SaveOK, SaveFails
  <2>4. ASSUME NEW s \in Requests, Saving(s)' PROVE Saving(s) /\ rec'[s] = rec[s]
    <3>1. s # r
      BY <2>2, <2>4
    <3>2. Untouched(s)
      BY <1>2, <3>1, OthersUntouched DEF TypeInv, RequestStep
    <3> QED
      BY <3>2, <2>4 DEF Untouched, Saving
  <2> QED
    BY <2>2, <2>3, <2>4, IdsKept
<1>3. ASSUME NEW r \in Requests, RequestStep(r), ~Stamp(r), ~SaveOK(r), ~SaveFails(r) PROVE IdsOK'
  <2>1. audit' = audit /\ rec' = rec
    BY <1>3 DEF RequestStep, Begin, Cancel, NextEvent, executeReplay, Publish, Respond, runReplay,
                runReplayPublish, auditVars
  <2>2. pc'[r] = "save" => pc[r] = "save"
    BY <1>3 DEF RequestStep, Begin, Cancel, NextEvent, executeReplay, Publish, Outcome, Respond, runReplay,
                runReplayPublish, Exit, TypeInv, TypeOK
  <2>3. ASSUME NEW s \in Requests, Saving(s)' PROVE Saving(s) /\ rec'[s] = rec[s]
    <3>1. CASE s = r
      BY <3>1, <2>1, <2>2, <2>3 DEF Saving
    <3>2. CASE s # r
      <4>1. Untouched(s)
        BY <1>3, <3>2, OthersUntouched DEF TypeInv
      <4> QED
        BY <4>1, <2>3 DEF Untouched, Saving
    <3> QED
      BY <3>1, <3>2
  <2> QED
    BY <2>1, <2>3, IdsKept
<1>4. CASE Aside
  <2>1. \A s \in Requests : Saving(s)' => Saving(s) /\ rec'[s] = rec[s]
    BY <1>4, AsideStays DEF Saving
  <2>2. audit' = audit
    BY <1>4, AsideStays
  <2> QED
    BY <2>1, <2>2, IdsKept
<1>5. CASE Crash
  <2>1. \A s \in Requests : ~Saving(s)'
    BY <1>5, Crashed DEF Saving
  <2>2. audit' = audit \/ \E r \in Requests : Saving(r) /\ audit' = audit \cup {rec[r]}
    BY <1>5 DEF Crash, AppendLine, Saving
  <2> QED
    BY <2>1, <2>2, IdsKept
<1> QED
  BY <1>1, <1>2, <1>3, <1>4, <1>5, NextCases

LEMMA PagesFit ==
    ASSUME TypeInv, Orderly(audit), NEW q \in Queries, NEW cursor \in Matching(audit, q) \cup {NoCursor}
    PROVE  PageFits(List(backend, audit, q, cursor), audit, q, cursor)
<1>1. PageFits(FileList(audit, q, cursor), audit, q, cursor)
  BY FilePages
<1>2. PageFits(PostgresList(audit, q, cursor), audit, q, cursor)
  BY PostgresPages
<1>3. CASE backend = "file"
  BY <1>1, <1>3, Zenon DEF List
<1>4. CASE backend # "file"
  BY <1>2, <1>4, Zenon DEF List
<1> QED
  BY <1>3, <1>4

LEMMA BrowseStays ==
    ASSUME TypeInv, IdsOK, BrowseOK, [Next]_vars
    PROVE  BrowseOK'
<1>0. audit \subseteq audit' /\ Orderly(audit)
  BY AuditGrows DEF IdsOK
<1>1. CASE browser' = browser
  <2> SUFFICES ASSUME browser # Idle
               PROVE  /\ Browsing(browser, audit')
                      /\ browser.state = "end" => browser.there \subseteq Range(browser.got)
                      /\ browser.state = "paging" => Underway(browser, audit')
    BY <1>1, Zenon DEF BrowseOK
  <2>1. /\ Browsing(browser, audit)
        /\ browser.state = "end" => browser.there \subseteq Range(browser.got)
        /\ browser.state = "paging" => Underway(browser, audit)
    BY DEF BrowseOK
  <2>2. Matching(audit, browser.query) \subseteq Matching(audit', browser.query)
    BY <1>0 DEF Matching
  <2>3. Browsing(browser, audit')
    BY <2>1, <2>2 DEF Browsing
  <2>4. Underway(browser, audit) => Underway(browser, audit')
    BY <2>2 DEF Underway
  <2> QED
    BY <2>1, <2>3, <2>4
<1>2. ASSUME NEW b, Browsing(b, audit), Starting(b) \/ Underway(b, audit),
             browser' = Turn(b, List(backend, audit, b.query, b.cursor)), audit' = audit
      PROVE  BrowseOK'
  <2>1. b.query \in Queries /\ b.cursor \in Matching(audit, b.query) \cup {NoCursor}
    BY <1>2 DEF Browsing, Starting, Underway
  <2>2. PageFits(List(backend, audit, b.query, b.cursor), audit, b.query, b.cursor)
    BY <1>0, <2>1, PagesFit
  <2>3. /\ Browsing(browser', audit)
        /\ browser'.state = "end" => browser'.there \subseteq Range(browser'.got)
        /\ browser'.state = "paging" => Underway(browser', audit)
    BY <1>0, <1>2, <2>2, TurnPage, Zenon
  <2> QED
    BY <2>3, <1>2, Zenon DEF BrowseOK
<1>3. ASSUME NEW q \in Queries, FirstPage(q) PROVE BrowseOK'
  <2> DEFINE b == [state |-> "paging", query |-> q, cursor |-> NoCursor, got |-> <<>>, there |-> Matching(audit, q)]
  <2>1. browser' = Turn(b, List(backend, audit, q, NoCursor)) /\ audit' = audit
    BY <1>3, Zenon DEF FirstPage, auditVars
  <2>2. b.query = q /\ b.cursor = NoCursor /\ b.got = <<>> /\ b.there = Matching(audit, q)
    OBVIOUS
  <2>3. Matching(audit, q) \subseteq Recs
    BY <1>0, MatchingOrderly DEF Orderly
  <2>4. Browsing(b, audit)
    <3>1. <<>> \in Seq(Recs) /\ Len(<<>>) = 0
      OBVIOUS
    <3> QED
      BY <2>3, <3>1 DEF Browsing
  <2>5. Starting(b)
    BY DEF Starting
  <2> HIDE DEF b
  <2> QED
    BY <2>1, <2>2, <2>4, <2>5, <1>2, Zenon
<1>4. CASE NextPage
  <2>1. /\ browser.state = "paging" /\ audit' = audit
        /\ browser' = Turn(browser, List(backend, audit, browser.query, browser.cursor))
    BY <1>4, Zenon DEF NextPage, auditVars
  <2>2. browser # Idle
    BY <2>1 DEF Idle
  <2>3. Browsing(browser, audit) /\ Underway(browser, audit)
    BY <2>1, <2>2, Zenon DEF BrowseOK
  <2> QED
    BY <2>1, <2>3, <1>2, Zenon
<1>5. browser' = browser \/ (\E q \in Queries : FirstPage(q)) \/ NextPage
  <2>1. ASSUME NEW r \in Requests, RequestStep(r) PROVE browser' = browser
    BY <2>1 DEF RequestStep, Begin, Cancel, NextEvent, executeReplay, Publish, Stamp, SaveOK, SaveFails, Return,
                Respond, runReplay, runReplayPublish
  <2>2. Crash => browser' = browser
    BY Zenon DEF Crash
  <2>3. Aside => browser' = browser \/ (\E q \in Queries : FirstPage(q)) \/ NextPage
    BY Zenon DEF Aside, StoreChanges, Tick, vars
  <2> QED
    BY <2>1, <2>2, <2>3, NextCases
<1> QED
  BY <1>1, <1>3, <1>4, <1>5

(* PagingExact: reading the audit to its end, page by page, gives every     *)
(* record that was there when the reading began, in order and once, from    *)
(* either store, whatever is saved between the pages.                       *)
THEOREM PagesAreExact == Spec => []PagingExact
<1> DEFINE Inv == IdsOK /\ BrowseOK
<1>1. Init => Inv
  <2> SUFFICES ASSUME Init PROVE IdsOK /\ BrowseOK
    OBVIOUS
  <2>1. Orderly(audit)
    <3>1. audit = Earlier
      BY DEF Init
    <3>2. IsFiniteSet(Earlier) /\ \A a, b \in Earlier : a.id = b.id => a = b
      BY ReplayAssumption, Zenon
    <3> QED
      BY <3>1, <3>2 DEF Orderly, Recs
  <2>2. \A r \in Requests : ~Saving(r)
    BY DEF Init, Saving
  <2>3. BrowseOK
    BY DEF Init, BrowseOK
  <2> QED
    BY <2>1, <2>2, <2>3 DEF IdsOK
<1>2. TypeInv /\ Inv /\ [Next]_vars => Inv'
  BY IdsStay, BrowseStays
<1>3. Inv => PagingExact
  <2> SUFFICES ASSUME IdsOK, BrowseOK, browser # Idle
               PROVE  /\ browser.state # "refused"
                      /\ \A i \in 1 .. Len(browser.got) - 1 :
                            Before(browser.got[i], browser.got[i + 1], browser.query.sort)
                      /\ browser.state = "end" => browser.there \subseteq Range(browser.got)
    BY DEF PagingExact
  <2>1. Browsing(browser, audit) /\ (browser.state = "end" => browser.there \subseteq Range(browser.got))
    BY DEF BrowseOK
  <2>2. browser.state \in {"paging", "end"}
    BY <2>1 DEF Browsing
  <2> QED
    BY <2>1, <2>2 DEF Browsing
<1> HIDE DEF Inv
<1> QED
  BY <1>1, <1>2, <1>3, TypesHold, PTL DEF Spec

===============================================================================
