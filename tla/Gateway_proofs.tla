--------------------------- MODULE Gateway_proofs ---------------------------
(***************************************************************************)
(* Proofs about Gateway.                                                   *)
(*                                                                         *)
(* How often a key was admitted in a window cannot be read off its counter *)
(* alone: counters are begun again, swept, expire and are lost. The        *)
(* inductive invariant says, for each limiter, what a counter that is      *)
(* there, and one that is not, still leave to be admitted in each window.  *)
(*                                                                         *)
(* What is missing from the security audit is counted against the Saves    *)
(* that failed, with part of a line at the end of the file as a debt.      *)
(***************************************************************************)
EXTENDS Gateway, FiniteSetTheorems, TLAPS

Windows == 0 .. MaxClock

(* What late calls, restarts and an unreachable Redis add to the limit. *)
Lost(key) == IF limiter = "memory" \/ key[1] = "ui" THEN restarts ELSE 0
Extra(key) == LimitOf(key) * (late[key] + Lost(key)) + failedOpen

(* In these, used counts the admissions of one key by window, extra is what *)
(* may come on top of limit, and now the time.                              *)

(* The limiter in memory: no window after the one being counted has used    *)
(* anything of the limit; without a counter, none that may still be on time *)
(* has.                                                                     *)
MemoryHolds(used, extra, limit, counters, key, now) ==
    /\ \A w \in Windows : used[w] <= extra + limit
    /\ key \in DOMAIN counters =>
        /\ counters[key].start \in 0 .. windowStart(now)
        /\ counters[key].count \in 1 .. limit
        /\ used[counters[key].start] <= extra + counters[key].count
        /\ counters[key].count <= used[counters[key].start]
        /\ \A w \in Windows : w > counters[key].start => used[w] <= extra
    /\ key \notin DOMAIN counters => \A w \in Windows : w > now - WindowSec => used[w] <= extra

Least(a, b) == IF a <= b THEN a ELSE b

(* The limiter in Redis, for one window: its counter was made when or after *)
(* the window began, and lives until the window is over.                    *)
RedisHolds(used, extra, limit, counters, key, w, now) ==
    /\ used <= extra + limit
    /\ <<key, w>> \in DOMAIN counters =>
        /\ counters[<<key, w>>].made \in w .. now
        /\ counters[<<key, w>>].count \in Nat \ {0}
        /\ used <= extra + Least(counters[<<key, w>>].count, limit)
        /\ Least(counters[<<key, w>>].count, limit) <= used
    /\ <<key, w>> \notin DOMAIN counters /\ w > now - WindowSec => used <= extra

(* The limiter of the smoke tests: a period of WindowSec that began with a  *)
(* call overlaps two windows, and a window two periods.                     *)
Overlap == IF WindowSec = 1 THEN 0 ELSE uiSmokeMaxRequestsPerMinute

UIHolds(used, extra, entries, ip, now) ==
    /\ \A w \in Windows : used[w] <= extra + uiSmokeMaxRequestsPerMinute + Overlap
    /\ ip \in DOMAIN entries =>
        /\ entries[ip] \in [start : 0 .. now, count : 1 .. uiSmokeMaxRequestsPerMinute]
        /\ \A w \in Windows :
            /\ w >= entries[ip].start + WindowSec => used[w] <= extra
            /\ entries[ip].start < w /\ w < entries[ip].start + WindowSec => used[w] <= extra + entries[ip].count
            /\ w = windowStart(entries[ip].start) => used[w] <= extra + Overlap + entries[ip].count
    /\ ip \notin DOMAIN entries => \A w \in Windows : w > now - WindowSec => used[w] <= extra

KeyHolds(key) ==
    /\ key[1] = "ui" => UIHolds(admitted[key], Extra(key), ui.entries, key[2], clock)
    /\ key[1] # "ui" /\ limiter = "memory" =>
            MemoryHolds(admitted[key], Extra(key), LimitOf(key), table, key, clock)
    /\ key[1] # "ui" /\ limiter # "memory" =>
            \A w \in Windows : RedisHolds(admitted[key][w], Extra(key), LimitOf(key), table, key, w, clock)

QuotaInv == \A key \in Keys : KeyHolds(key)

Labels == {"new", "chaos", "rate", "source", "auth", "handler", "smoke", "audit", "done", "dead"}

(* Types, for what the proofs need. *)
TypeOK ==
    /\ plan \in [Requests -> Plan]
    /\ \A r \in Requests : {RateKey(plan[r]), SourceKey(plan[r]), UIKey(plan[r])} \subseteq Keys
    /\ pc \in [Requests -> Labels]
    /\ reading \in [Requests -> Nat] /\ reply \in [Requests -> Nat]
    /\ clock \in Windows
    /\ limiter \in {"memory", "redis"}
    /\ admitted \in [Keys -> [Windows -> Nat]]
    /\ late \in [Keys -> Nat]
    /\ failedOpen \in Nat /\ restarts \in Nat /\ "entries" \in DOMAIN ui
    /\ \A r \in Requests : reading[r] <= clock /\ (pc[r] = "smoke" => plan[r].path = "smoke")

----------------------------------------------------------------------------
(* Windows *)

(* A time is in the window that begins at its windowStart. *)
LEMMA WindowStart ==
    ASSUME NEW x \in Nat
    PROVE  windowStart(x) \in Nat /\ windowStart(x) <= x /\ x < windowStart(x) + WindowSec
<1>1. x % WindowSec \in 0 .. WindowSec - 1 /\ x \div WindowSec \in Int
  BY WindowAssumption
<1>2. x = WindowSec * (x \div WindowSec) + (x % WindowSec)
  BY WindowAssumption
<1>3. x \div WindowSec >= 0
  BY WindowAssumption
<1>4. WindowSec * (x \div WindowSec) >= 0
  BY <1>1, <1>3, WindowAssumption
<1> QED BY <1>1, <1>2, <1>4, WindowAssumption DEF windowStart

(* Later times are in later windows, or in the same. *)
LEMMA WindowsInOrder ==
    ASSUME NEW x \in Nat, NEW y \in Nat, x <= y
    PROVE  windowStart(x) <= windowStart(y)
<1> DEFINE p == x \div WindowSec  q == y \div WindowSec
<1>1. p \in Int /\ q \in Int /\ x % WindowSec \in 0 .. WindowSec - 1 /\ y % WindowSec \in 0 .. WindowSec - 1
  BY WindowAssumption
<1>2. x = WindowSec * p + (x % WindowSec) /\ y = WindowSec * q + (y % WindowSec)
  BY WindowAssumption
<1> HIDE DEF p, q
<1>3. CASE p <= q
  <2>1. WindowSec * p <= WindowSec * q
    BY <1>1, <1>3, WindowAssumption
  <2> QED BY <1>1, <1>2, <2>1, WindowAssumption DEF windowStart
<1>4. CASE q + 1 <= p
  <2>1. WindowSec * (q + 1) <= WindowSec * p
    BY <1>1, <1>4, WindowAssumption
  <2>2. WindowSec * (q + 1) = WindowSec * q + WindowSec
    BY <1>1, WindowAssumption
  <2> QED BY <1>1, <1>2, <2>1, <2>2, WindowAssumption
<1> QED BY <1>1, <1>3, <1>4

(* A call whose reading is not of an earlier window is counted in the       *)
(* window of the clock, which is not over.                                  *)
LEMMA OnTime ==
    ASSUME NEW x \in Nat, NEW y \in Nat, x <= y, ~(windowStart(x) < windowStart(y))
    PROVE  windowStart(x) = windowStart(y) /\ windowStart(x) > y - WindowSec
<1>1. windowStart(x) \in Nat /\ windowStart(y) \in Nat /\ y < windowStart(y) + WindowSec
  BY WindowStart
<1>2. windowStart(x) <= windowStart(y)
  BY WindowsInOrder
<1> QED BY <1>1, <1>2, WindowAssumption

(* Times between the beginning of a window and one in it are in it. *)
LEMMA SameWindow ==
    ASSUME NEW x \in Nat, NEW y \in Nat, windowStart(x) <= y, y <= x
    PROVE  windowStart(y) = windowStart(x)
<1> DEFINE p == x \div WindowSec  q == y \div WindowSec
<1>1. p \in Int /\ q \in Int /\ x % WindowSec \in 0 .. WindowSec - 1 /\ y % WindowSec \in 0 .. WindowSec - 1
  BY WindowAssumption
<1>2. x = WindowSec * p + (x % WindowSec) /\ y = WindowSec * q + (y % WindowSec)
  BY WindowAssumption
<1> HIDE DEF p, q
<1>3. windowStart(x) = WindowSec * p /\ windowStart(y) = WindowSec * q
  BY <1>1, <1>2, WindowAssumption DEF windowStart
<1>4. windowStart(y) <= windowStart(x)
  BY WindowsInOrder
<1>5. CASE p <= q
  <2>1. WindowSec * p <= WindowSec * q
    BY <1>1, <1>5, WindowAssumption
  <2> QED BY <1>1, <1>3, <1>4, <2>1, WindowAssumption
<1>6. CASE q + 1 <= p
  <2>1. WindowSec * (q + 1) <= WindowSec * p
    BY <1>1, <1>6, WindowAssumption
  <2>2. WindowSec * (q + 1) = WindowSec * q + WindowSec
    BY <1>1, WindowAssumption
  <2>3. y < WindowSec * q + WindowSec
    BY <1>1, <1>2, WindowAssumption
  <2> QED BY <1>1, <1>3, <2>1, <2>2, <2>3, WindowAssumption
<1> QED BY <1>1, <1>5, <1>6

LEMMA WindowsAreTimes ==
    ASSUME NEW w \in Windows
    PROVE  w \in Nat /\ w <= MaxClock
BY GatewayAssumption DEF Windows

(* A window of the run is one of those that are counted. *)
LEMMA WindowCounted ==
    ASSUME NEW x \in Nat, NEW now \in Windows, x <= now
    PROVE  windowStart(x) \in Windows
BY WindowStart, GatewayAssumption DEF Windows

----------------------------------------------------------------------------
(* The limiter in memory *)

(* Time that passes, and more of what may come on top, disturb nothing. *)
LEMMA MemoryRises ==
    ASSUME NEW used \in [Windows -> Nat], NEW extra \in Nat, NEW more \in Nat, extra <= more,
           NEW limit \in Nat, NEW counters, NEW key,
           NEW now \in Windows, NEW then \in Windows, now <= then,
           MemoryHolds(used, extra, limit, counters, key, now)
    PROVE  MemoryHolds(used, more, limit, counters, key, then)
<1>1. windowStart(now) \in Nat /\ windowStart(then) \in Nat /\ windowStart(now) <= windowStart(then)
  <2>1. now \in Nat /\ then \in Nat
    BY GatewayAssumption DEF Windows
  <2> QED BY <2>1, WindowStart, WindowsInOrder
<1>2. \A w \in Windows : used[w] \in Nat /\ w \in Nat
  BY GatewayAssumption DEF Windows
<1>3. \A w \in Windows : used[w] <= more + limit
  BY <1>2 DEF MemoryHolds
<1>4. ASSUME key \in DOMAIN counters
      PROVE  /\ counters[key].start \in 0 .. windowStart(then)
             /\ counters[key].count \in 1 .. limit
             /\ used[counters[key].start] <= more + counters[key].count
             /\ counters[key].count <= used[counters[key].start]
             /\ \A w \in Windows : w > counters[key].start => used[w] <= more
  <2> DEFINE s == counters[key].start  c == counters[key].count
  <2>1. /\ s \in 0 .. windowStart(now) /\ c \in 1 .. limit /\ used[s] <= extra + c /\ c <= used[s]
        /\ \A w \in Windows : w > s => used[w] <= extra
    BY <1>4 DEF MemoryHolds
  <2>2. s \in Windows
    <3>1. windowStart(now) <= now /\ now <= MaxClock
      BY WindowStart, GatewayAssumption DEF Windows
    <3>2. windowStart(now) \in Nat /\ now \in Nat
      BY WindowStart, GatewayAssumption DEF Windows
    <3>3. s \in 0 .. windowStart(now)
      BY <2>1
    <3> HIDE DEF s
    <3> QED BY <3>1, <3>2, <3>3, GatewayAssumption DEF Windows
  <2> HIDE DEF s, c
  <2>3. s \in 0 .. windowStart(then) /\ used[s] <= more + c /\ \A w \in Windows : w > s => used[w] <= more
    BY <1>1, <1>2, <2>1, <2>2
  <2> QED BY <2>1, <2>3 DEF s, c
<1>5. ASSUME key \notin DOMAIN counters
      PROVE  \A w \in Windows : w > then - WindowSec => used[w] <= more
  <2>1. \A w \in Windows : w > now - WindowSec => used[w] <= extra
    BY <1>5 DEF MemoryHolds
  <2>2. now \in Nat /\ then \in Nat
    BY GatewayAssumption DEF Windows
  <2> QED BY <1>2, <2>1, <2>2, WindowAssumption
<1> QED BY <1>3, <1>4, <1>5 DEF MemoryHolds

(* A call that is admitted keeps the invariant for its key: a late one is   *)
(* paid for by the limit that it adds to what may come on top.              *)
LEMMA MemoryAdmits ==
    ASSUME NEW used \in [Windows -> Nat], NEW extra \in Nat, NEW more \in Nat,
           NEW limit \in Nat, NEW counters, NEW key, NEW sweep \in BOOLEAN,
           NEW now \in Windows, NEW x \in Nat, x <= now,
           MemoryHolds(used, extra, limit, counters, key, now),
           windowStart(x) < windowStart(now) => more = extra + limit,
           ~(windowStart(x) < windowStart(now)) => more = extra,
           MemoryAllow(counters, key, limit, x, sweep).ok
    PROVE  MemoryHolds([used EXCEPT ![windowStart(x)] = @ + 1], more, limit,
                       MemoryAllow(counters, key, limit, x, sweep).table, key, now)
<1> DEFINE s     == windowStart(x)
           fresh == key \notin DOMAIN counters \/ counters[key].start # s
           c     == IF fresh THEN 1 ELSE counters[key].count + 1
           after == Put(counters, key, [start |-> s, count |-> c])
           left  == IF sweep THEN Cleaned(after, s) ELSE after
           used2 == [used EXCEPT ![s] = @ + 1]
<1>1. s \in Windows /\ s \in Nat /\ now \in Nat /\ \A w \in Windows : w \in Nat /\ used[w] \in Nat
  BY WindowStart, WindowCounted, WindowsAreTimes
<1>2. MemoryAllow(counters, key, limit, x, sweep).table = left /\ limit > 0 /\ (fresh \/ ~(counters[key].count >= limit))
  BY DEF MemoryAllow
<1>3. key \in DOMAIN left /\ left[key] = [start |-> s, count |-> c]
  <2>1. key \in DOMAIN after /\ after[key] = [start |-> s, count |-> c]
    BY DEF Put
  <2>2. s <= after[key].start + WindowSec
    BY <1>1, <2>1, WindowAssumption
  <2> QED BY <2>1, <2>2 DEF Cleaned, Restrict
<1>4. windowStart(now) \in Nat /\ s <= windowStart(now)
  BY WindowStart, WindowsInOrder, <1>1
<1>5. /\ c \in 1 .. limit /\ used[s] + 1 <= more + c /\ c <= used[s] + 1
      /\ \A w \in Windows : w > s => used[w] <= more
  <2>1. \A w \in Windows : used[w] <= extra + limit
    BY DEF MemoryHolds
  <2>2. ASSUME key \in DOMAIN counters
        PROVE  /\ counters[key].start \in 0 .. windowStart(now) /\ counters[key].count \in 1 .. limit
               /\ used[counters[key].start] <= extra + counters[key].count
               /\ counters[key].count <= used[counters[key].start]
               /\ \A w \in Windows : w > counters[key].start => used[w] <= extra
    BY <2>2 DEF MemoryHolds
  <2>3. CASE s < windowStart(now)
    <3>1. more = extra + limit
      BY <2>3
    <3>2. \A w \in Windows : used[w] <= more
      BY <2>1, <3>1
    <3>3. CASE fresh
      <4>1. c = 1
        BY <3>3
      <4> HIDE DEF c, fresh, s
      <4> QED BY <1>1, <1>2, <3>2, <4>1
    <3>4. CASE ~fresh
      <4>1. c = counters[key].count + 1 /\ counters[key].count \in 1 .. limit /\ counters[key].count <= used[s]
            /\ ~(counters[key].count >= limit)
        BY <1>2, <2>2, <3>4
      <4> HIDE DEF c, fresh, s
      <4> QED BY <1>1, <3>2, <4>1
    <3> QED BY <3>3, <3>4
  <2>4. CASE ~(s < windowStart(now))
    <3>1. more = extra /\ s = windowStart(now) /\ s > now - WindowSec
      BY <2>4, OnTime, <1>1
    <3>2. CASE key \notin DOMAIN counters
      <4>1. c = 1 /\ \A w \in Windows : w > now - WindowSec => used[w] <= extra
        BY <3>2 DEF MemoryHolds
      <4> HIDE DEF c, s
      <4> QED BY <1>1, <1>2, <3>1, <4>1, WindowAssumption
    <3>3. CASE key \in DOMAIN counters /\ counters[key].start # s
      <4>1. c = 1 /\ counters[key].start < s
        BY <1>1, <2>2, <3>1, <3>3
      <4>2. \A w \in Windows : w > counters[key].start => used[w] <= extra
        BY <2>2, <3>3
      <4>3. counters[key].start \in Nat
        BY <1>4, <2>2, <3>3
      <4> HIDE DEF c, s
      <4> QED BY <1>1, <1>2, <3>1, <4>1, <4>2, <4>3
    <3>4. CASE key \in DOMAIN counters /\ counters[key].start = s
      <4>1. /\ c = counters[key].count + 1 /\ counters[key].count \in 1 .. limit
            /\ used[s] <= extra + counters[key].count /\ counters[key].count <= used[s]
            /\ ~(counters[key].count >= limit)
            /\ \A w \in Windows : w > s => used[w] <= extra
        BY <1>2, <2>2, <3>4
      <4> HIDE DEF c, s
      <4> QED BY <1>1, <3>1, <4>1
    <3> QED BY <3>2, <3>3, <3>4
  <2> QED BY <2>3, <2>4
<1>6. \A w \in Windows : used[w] <= extra + limit /\ extra <= more
  BY DEF MemoryHolds
<1> HIDE DEF s, c, fresh, after, left
<1>7. used2[s] = used[s] + 1 /\ \A w \in Windows : w # s => used2[w] = used[w]
  BY <1>1
<1> HIDE DEF used2
<1>8. \A w \in Windows : used2[w] <= more + limit
  BY <1>1, <1>5, <1>6, <1>7
<1>9. s \in 0 .. windowStart(now) /\ used2[s] <= more + c /\ c <= used2[s] /\ \A w \in Windows : w > s => used2[w] <= more
  BY <1>1, <1>4, <1>5, <1>7
<1>10. MemoryHolds(used2, more, limit, left, key, now)
  BY <1>3, <1>5, <1>8, <1>9 DEF MemoryHolds
<1> QED BY <1>2, <1>10 DEF s, used2

(* A call leaves the other keys as they are, but for those it sweeps: their *)
(* counters are of windows in which nobody on time is counted any more.     *)
LEMMA MemoryOthers ==
    ASSUME NEW used \in [Windows -> Nat], NEW extra \in Nat,
           NEW limit \in Nat, NEW counters, NEW key, NEW sweep \in BOOLEAN,
           NEW now \in Windows, NEW x \in Nat, x <= now, NEW most,
           NEW other, other # key,
           MemoryHolds(used, extra, limit, counters, other, now)
    PROVE  MemoryHolds(used, extra, limit, MemoryAllow(counters, key, most, x, sweep).table, other, now)
<1> DEFINE s     == windowStart(x)
           fresh == key \notin DOMAIN counters \/ counters[key].start # s
           c     == IF fresh THEN 1 ELSE counters[key].count + 1
           after == Put(counters, key, [start |-> s, count |-> c])
           left  == IF sweep THEN Cleaned(after, s) ELSE after
<1>1. CASE MemoryAllow(counters, key, most, x, sweep).table = counters
  BY <1>1
<1>2. CASE MemoryAllow(counters, key, most, x, sweep).table = left
  <2>1. s \in Nat /\ s <= now /\ now \in Nat /\ windowStart(now) \in Nat /\ windowStart(now) <= now
        /\ \A w \in Windows : w \in Nat /\ used[w] \in Nat
    <3>1. now \in Nat /\ \A w \in Windows : w \in Nat /\ used[w] \in Nat
      BY WindowsAreTimes
    <3>2. s \in Nat /\ s <= x /\ windowStart(now) \in Nat /\ windowStart(now) <= now
      BY <3>1, WindowStart
    <3> QED BY <3>1, <3>2
  <2>2. /\ other \in DOMAIN left <=> other \in DOMAIN counters /\ (sweep => s <= counters[other].start + WindowSec)
        /\ other \in DOMAIN left => left[other] = counters[other]
    BY DEF Put, Cleaned, Restrict
  <2> SUFFICES MemoryHolds(used, extra, limit, left, other, now)
    BY <1>2
  <2> HIDE DEF s, left
  <2>3. CASE other \in DOMAIN left
    <3>1. other \in DOMAIN counters /\ left[other] = counters[other]
      BY <2>2, <2>3
    <3> QED BY <2>3, <3>1, Zenon DEF MemoryHolds
  <2>4. CASE other \notin DOMAIN left /\ other \notin DOMAIN counters
    BY <2>4, Zenon DEF MemoryHolds
  <2>5. CASE other \notin DOMAIN left /\ other \in DOMAIN counters
    <3>1. ~(s <= counters[other].start + WindowSec) /\ counters[other].start \in 0 .. windowStart(now)
      BY <2>2, <2>5 DEF MemoryHolds
    <3>2. \A w \in Windows : w > counters[other].start => used[w] <= extra
      BY <2>5 DEF MemoryHolds
    <3>3. \A w \in Windows : w > now - WindowSec => used[w] <= extra
      BY <2>1, <3>1, <3>2, WindowAssumption
    <3> QED BY <2>5, <3>3, Zenon DEF MemoryHolds
  <2> QED BY <2>3, <2>4, <2>5
<1> QED BY <1>1, <1>2 DEF MemoryAllow

----------------------------------------------------------------------------
(* The limiter in Redis *)

LEMMA RedisRises ==
    ASSUME NEW used \in Nat, NEW extra \in Nat, NEW more \in Nat, extra <= more, NEW limit \in Nat,
           NEW counters, NEW key, NEW w \in Windows,
           NEW now \in Windows, NEW then \in Windows, now <= then,
           RedisHolds(used, extra, limit, counters, key, w, now)
    PROVE  RedisHolds(used, more, limit, counters, key, w, then)
<1> DEFINE k == <<key, w>>
<1>1. now \in Nat /\ then \in Nat /\ w \in Nat
  BY WindowsAreTimes
<1>2. used <= more + limit
  BY DEF RedisHolds
<1>3. ASSUME k \in DOMAIN counters
      PROVE  /\ counters[k].made \in w .. then
             /\ counters[k].count \in Nat \ {0}
             /\ used <= more + Least(counters[k].count, limit)
             /\ Least(counters[k].count, limit) <= used
  <2>1. /\ counters[k].made \in w .. now /\ counters[k].count \in Nat \ {0}
        /\ used <= extra + Least(counters[k].count, limit) /\ Least(counters[k].count, limit) <= used
    BY <1>3 DEF RedisHolds
  <2>2. Least(counters[k].count, limit) \in Nat
    BY <2>1 DEF Least
  <2> HIDE DEF k
  <2> QED BY <1>1, <2>1, <2>2
<1>4. ASSUME k \notin DOMAIN counters, w > then - WindowSec
      PROVE  used <= more
  <2>1. w > now - WindowSec
    BY <1>1, <1>4, WindowAssumption
  <2>2. used <= extra
    BY <1>4, <2>1 DEF RedisHolds
  <2> QED BY <2>2
<1> QED BY <1>2, <1>3, <1>4 DEF RedisHolds

(* A counter that expires is of a window that is over. *)
LEMMA RedisExpires ==
    ASSUME NEW used \in Nat, NEW extra \in Nat, NEW limit \in Nat,
           NEW counters, NEW key, NEW w \in Windows, NEW now \in Windows,
           RedisHolds(used, extra, limit, counters, key, w, now)
    PROVE  RedisHolds(used, extra, limit, RedisExpired(counters, now), key, w, now)
<1> DEFINE k == <<key, w>>  left == RedisExpired(counters, now)
<1>1. now \in Nat /\ w \in Nat
  BY WindowsAreTimes
<1>2. /\ k \in DOMAIN left <=> k \in DOMAIN counters /\ now < counters[k].made + WindowSec
      /\ k \in DOMAIN left => left[k] = counters[k]
  BY DEF RedisExpired, Restrict
<1> HIDE DEF left
<1>3. CASE k \in DOMAIN left
  <2>1. k \in DOMAIN counters /\ left[k] = counters[k]
    BY <1>2, <1>3
  <2>2. RedisHolds(used, extra, limit, left, key, w, now)
    BY <1>3, <2>1, Zenon DEF RedisHolds
  <2> QED BY <2>2 DEF left
<1>4. CASE k \notin DOMAIN left
  <2>1. ASSUME w > now - WindowSec
        PROVE  used <= extra
    <3>1. CASE k \notin DOMAIN counters
      BY <2>1, <3>1 DEF RedisHolds
    <3>2. CASE k \in DOMAIN counters
      <4>1. counters[k].made \in w .. now /\ ~(now < counters[k].made + WindowSec)
        BY <1>2, <1>4, <3>2 DEF RedisHolds
      <4> QED BY <1>1, <2>1, <4>1, WindowAssumption
    <3> QED BY <3>1, <3>2
  <2>2. used <= extra + limit
    BY DEF RedisHolds
  <2>3. RedisHolds(used, extra, limit, left, key, w, now)
    BY <1>4, <2>1, <2>2, Zenon DEF RedisHolds
  <2> QED BY <2>3 DEF left
<1> QED BY <1>3, <1>4

(* A call that Redis answered, or counted without an answer, for the window *)
(* it is counted in. In the second case it is on top.                       *)
LEMMA RedisCounts ==
    ASSUME NEW used \in Nat, NEW extra \in Nat, NEW more \in Nat, NEW limit \in Nat, limit > 0,
           NEW counters, NEW key, NEW now \in Windows, NEW x \in Nat, x <= now,
           RedisHolds(used, extra, limit, counters, key, windowStart(x), now),
           windowStart(x) < windowStart(now) => more = extra + limit,
           ~(windowStart(x) < windowStart(now)) => more = extra
    PROVE  LET answer == RedisAllow(counters, key, limit, x, now) IN
           /\ RedisHolds(IF answer.ok THEN used + 1 ELSE used, more, limit, answer.table, key, windowStart(x), now)
           /\ RedisHolds(used + 1, more + 1, limit, answer.table, key, windowStart(x), now)
<1> DEFINE s     == windowStart(x)
           k     == <<key, s>>
           count == IF k \in DOMAIN counters THEN counters[k].count + 1 ELSE 1
           from  == IF k \in DOMAIN counters THEN counters[k].made ELSE now
           left  == Put(counters, k, [made |-> from, count |-> count])
           n     == IF count <= limit THEN used + 1 ELSE used
<1>1. s \in Nat /\ s <= now /\ now \in Nat
  <2>1. now \in Nat
    BY WindowsAreTimes
  <2> QED BY <2>1, WindowStart
<1>2. RedisAllow(counters, key, limit, x, now).table = left /\ (RedisAllow(counters, key, limit, x, now).ok <=> count <= limit)
  <2>1. RedisAllow(counters, key, limit, x, now).table = left
    BY DEF RedisAllow
  <2>2. ~(limit <= 0)
    OBVIOUS
  <2>3. RedisAllow(counters, key, limit, x, now).ok <=> count <= limit
    BY <2>2, Zenon DEF RedisAllow
  <2> QED BY <2>1, <2>3
<1>3. k \in DOMAIN left /\ left[k].made = from /\ left[k].count = count
  BY DEF Put
<1>4. used <= extra + limit /\ extra <= more
  BY DEF RedisHolds
<1>5. /\ from \in s .. now /\ count \in Nat \ {0}
      /\ n <= more + Least(count, limit) /\ Least(count, limit) <= n
  <2>1. CASE k \in DOMAIN counters
    <3> DEFINE c == counters[k].count
    <3>1. /\ from \in s .. now /\ c \in Nat \ {0} /\ count = c + 1
          /\ used <= extra + Least(c, limit) /\ Least(c, limit) <= used
      BY <2>1 DEF RedisHolds
    <3> HIDE DEF k, from, count, c
    <3> QED BY <1>4, <3>1 DEF Least
  <2>2. CASE k \notin DOMAIN counters
    <3>1. from = now /\ count = 1
      BY <2>2
    <3>2. used <= more
      <4>1. CASE s < windowStart(now)
        BY <1>4, <4>1
      <4>2. CASE ~(s < windowStart(now))
        <5>1. s > now - WindowSec
          BY <1>1, <4>2, OnTime
        <5>2. used <= extra
          BY <2>2, <5>1 DEF RedisHolds
        <5> QED BY <1>4, <5>2
      <4> QED BY <4>1, <4>2
    <3> HIDE DEF k, from, count, s
    <3> QED BY <1>1, <3>1, <3>2 DEF Least
  <2> QED BY <2>1, <2>2
<1> HIDE DEF from, count, left, k
<1>6. RedisHolds(n, more, limit, left, key, s, now)
  <2>1. n <= more + limit
    BY <1>5 DEF Least
  <2> QED BY <1>3, <1>5, <2>1, Zenon DEF RedisHolds, k
<1>7. RedisHolds(used + 1, more + 1, limit, left, key, s, now)
  <2>1. used + 1 <= (more + 1) + limit /\ used + 1 <= (more + 1) + Least(count, limit) /\ Least(count, limit) <= used + 1
    BY <1>4, <1>5 DEF Least
  <2> QED BY <1>3, <1>5, <2>1, Zenon DEF RedisHolds, k
<1>8. n = IF RedisAllow(counters, key, limit, x, now).ok THEN used + 1 ELSE used
  BY <1>2
<1> HIDE DEF n
<1> QED BY <1>2, <1>6, <1>7, <1>8, Zenon DEF s

(* A call that was not counted and goes on is on top. *)
LEMMA RedisMisses ==
    ASSUME NEW used \in Nat, NEW extra \in Nat, NEW limit \in Nat,
           NEW counters, NEW key, NEW w \in Windows, NEW now \in Windows,
           RedisHolds(used, extra, limit, counters, key, w, now)
    PROVE  RedisHolds(used + 1, extra + 1, limit, counters, key, w, now)
<1> DEFINE k == <<key, w>>
<1>1. used + 1 <= (extra + 1) + limit
  BY DEF RedisHolds
<1>2. ASSUME k \in DOMAIN counters
      PROVE  /\ counters[k].made \in w .. now
             /\ counters[k].count \in Nat \ {0}
             /\ used + 1 <= (extra + 1) + Least(counters[k].count, limit)
             /\ Least(counters[k].count, limit) <= used + 1
  <2>1. /\ counters[k].made \in w .. now /\ counters[k].count \in Nat \ {0}
        /\ used <= extra + Least(counters[k].count, limit) /\ Least(counters[k].count, limit) <= used
    BY <1>2 DEF RedisHolds
  <2>2. Least(counters[k].count, limit) \in Nat
    BY <2>1 DEF Least
  <2> HIDE DEF k
  <2> QED BY <2>1, <2>2
<1>3. ASSUME k \notin DOMAIN counters, w > now - WindowSec
      PROVE  used + 1 <= extra + 1
  BY <1>3 DEF RedisHolds
<1> QED BY <1>1, <1>2, <1>3 DEF RedisHolds

(* Other keys and other windows have other counters. *)
LEMMA RedisOthers ==
    ASSUME NEW used, NEW extra, NEW limit, NEW most,
           NEW counters, NEW key, NEW other, NEW w, NEW now, NEW x,
           <<other, w>> # <<key, windowStart(x)>>,
           RedisHolds(used, extra, limit, counters, other, w, now)
    PROVE  RedisHolds(used, extra, limit, RedisAllow(counters, key, most, x, now).table, other, w, now)
<1> DEFINE k == <<other, w>>  left == RedisAllow(counters, key, most, x, now).table
<1>1. /\ k \in DOMAIN left <=> k \in DOMAIN counters
      /\ k \in DOMAIN left => left[k] = counters[k]
  BY DEF RedisAllow, Put
<1> HIDE DEF left
<1>2. RedisHolds(used, extra, limit, left, other, w, now)
  BY <1>1, Zenon DEF RedisHolds
<1> QED BY <1>2 DEF left

----------------------------------------------------------------------------
(* The limiter of the smoke tests *)

LEMMA UIRises ==
    ASSUME NEW used \in [Windows -> Nat], NEW extra \in Nat, NEW more \in Nat, extra <= more,
           NEW entries, NEW ip, NEW now \in Windows, NEW then \in Windows, now <= then,
           UIHolds(used, extra, entries, ip, now)
    PROVE  UIHolds(used, more, entries, ip, then)
<1> DEFINE l == uiSmokeMaxRequestsPerMinute  s == entries[ip].start  c == entries[ip].count
<1>1. /\ now \in Nat /\ then \in Nat /\ \A w \in Windows : w \in Nat /\ used[w] \in Nat
      /\ l \in Nat /\ Overlap \in Nat
  BY WindowsAreTimes, GatewayAssumption DEF Overlap
<1>2. \A w \in Windows : used[w] <= more + l + Overlap
  <2>1. \A w \in Windows : used[w] <= extra + l + Overlap
    BY DEF UIHolds
  <2> HIDE DEF l
  <2> QED BY <1>1, <2>1
<1>3. ASSUME ip \in DOMAIN entries
      PROVE  /\ entries[ip] \in [start : 0 .. then, count : 1 .. l]
             /\ \A w \in Windows :
                 /\ w >= s + WindowSec => used[w] <= more
                 /\ s < w /\ w < s + WindowSec => used[w] <= more + c
                 /\ w = windowStart(s) => used[w] <= more + Overlap + c
  <2>1. /\ s \in 0 .. now /\ c \in 1 .. l
        /\ \A w \in Windows :
            /\ w >= s + WindowSec => used[w] <= extra
            /\ s < w /\ w < s + WindowSec => used[w] <= extra + c
            /\ w = windowStart(s) => used[w] <= extra + Overlap + c
    BY <1>3 DEF UIHolds
  <2>2. entries[ip] \in [start : 0 .. then, count : 1 .. l]
    <3>1. entries[ip] \in [start : 0 .. now, count : 1 .. l] /\ 0 .. now \subseteq 0 .. then
      BY <1>1, <1>3 DEF UIHolds
    <3> QED BY <3>1
  <2> HIDE DEF l, s, c
  <2>3. \A w \in Windows :
            /\ w >= s + WindowSec => used[w] <= more
            /\ s < w /\ w < s + WindowSec => used[w] <= more + c
            /\ w = windowStart(s) => used[w] <= more + Overlap + c
    BY <1>1, <2>1
  <2> QED BY <2>2, <2>3
<1>4. ASSUME ip \notin DOMAIN entries
      PROVE  \A w \in Windows : w > then - WindowSec => used[w] <= more
  <2>1. \A w \in Windows : w > now - WindowSec => used[w] <= extra
    BY <1>4 DEF UIHolds
  <2> QED BY <1>1, <2>1, WindowAssumption
<1> QED BY <1>2, <1>3, <1>4 DEF UIHolds

(* What uiAllow looks at, once it has swept. *)
UISwept(tab, x) ==
    LET young == {k \in DOMAIN tab.entries : x - tab.entries[k].start < 2 * WindowSec}
    IN  IF x - tab.cleaned < WindowSec THEN tab
        ELSE [entries |-> Restrict(tab.entries, young), cleaned |-> x]

(* A call leaves the swept table, perhaps with a new entry for its client. *)
LEMMA UIAnswers ==
    ASSUME NEW tab, NEW ip, NEW most, NEW x
    PROVE  \/ uiAllow(tab, ip, most, x).table = UISwept(tab, x)
           \/ \E entry : uiAllow(tab, ip, most, x).table = [UISwept(tab, x) EXCEPT !.entries = Put(@, ip, entry)]
<1> DEFINE swept == UISwept(tab, x)
           known == ip \in DOMAIN swept.entries /\ x - swept.entries[ip].start < WindowSec
           entry == IF known THEN [swept.entries[ip] EXCEPT !.count = @ + 1] ELSE [start |-> x, count |-> 1]
<1>1. uiAllow(tab, ip, most, x) =
        IF entry.count > most THEN [ok |-> FALSE, table |-> swept]
        ELSE [ok |-> TRUE, table |-> [swept EXCEPT !.entries = Put(@, ip, entry)]]
  BY Zenon DEF uiAllow, UISwept
<1> HIDE DEF swept, entry
<1>2. uiAllow(tab, ip, most, x).table \in {swept, [swept EXCEPT !.entries = Put(@, ip, entry)]}
  BY <1>1
<1> QED BY <1>2, Zenon DEF swept

(* An entry of two windows ago counts for no window that is not over. *)
LEMMA UISweeps ==
    ASSUME NEW used \in [Windows -> Nat], NEW extra \in Nat,
           NEW tab, NEW ip, NEW now \in Windows, NEW x \in Nat, x <= now,
           UIHolds(used, extra, tab.entries, ip, now)
    PROVE  UIHolds(used, extra, UISwept(tab, x).entries, ip, now)
<1> DEFINE old == tab.entries  left == UISwept(tab, x).entries
<1>1. CASE left = old
  BY <1>1
<1>2. CASE left = Restrict(old, {k \in DOMAIN old : x - old[k].start < 2 * WindowSec})
  <2>1. /\ ip \in DOMAIN left <=> ip \in DOMAIN old /\ x - old[ip].start < 2 * WindowSec
        /\ ip \in DOMAIN left => left[ip] = old[ip]
    BY <1>2 DEF Restrict
  <2>2. now \in Nat /\ \A w \in Windows : w \in Nat /\ used[w] \in Nat
    BY WindowsAreTimes
  <2> HIDE DEF left
  <2> SUFFICES UIHolds(used, extra, left, ip, now)
    BY DEF left
  <2>3. UIHolds(used, extra, old, ip, now)
    OBVIOUS
  <2> HIDE DEF old
  <2>4. CASE ip \in DOMAIN left
    <3>1. ip \in DOMAIN old /\ left[ip] = old[ip]
      BY <2>1, <2>4
    <3> QED BY <2>3, <2>4, <3>1, Zenon DEF UIHolds
  <2>5. CASE ip \notin DOMAIN left
    <3>1. ASSUME NEW w \in Windows, w > now - WindowSec
          PROVE  used[w] <= extra
      <4>1. CASE ip \notin DOMAIN old
        BY <2>3, <3>1, <4>1 DEF UIHolds
      <4>2. CASE ip \in DOMAIN old
        <5>1. ~(x - old[ip].start < 2 * WindowSec) /\ old[ip].start \in 0 .. now
          BY <2>1, <2>3, <2>5, <4>2 DEF UIHolds
        <5> DEFINE a == old[ip].start
        <5>2. a \in Int /\ x - a >= 2 * WindowSec
          BY <2>2, <5>1, WindowAssumption
        <5> HIDE DEF a
        <5>3. w >= a + WindowSec
          BY <2>2, <3>1, <5>2, WindowAssumption
        <5> QED BY <2>3, <4>2, <5>3 DEF UIHolds, a
      <4> QED BY <4>1, <4>2
    <3>2. \A w \in Windows : used[w] <= extra + uiSmokeMaxRequestsPerMinute + Overlap
      BY <2>3 DEF UIHolds
    <3> QED BY <2>5, <3>1, <3>2, Zenon DEF UIHolds
  <2> QED BY <2>4, <2>5
<1> QED BY <1>1, <1>2 DEF UISwept

(* A call that is admitted, for its client. *)
LEMMA UIAdmits ==
    ASSUME NEW used \in [Windows -> Nat], NEW extra \in Nat, NEW more \in Nat,
           NEW tab, "entries" \in DOMAIN tab, NEW ip, NEW now \in Windows, NEW x \in Nat, x <= now,
           UIHolds(used, extra, tab.entries, ip, now),
           windowStart(x) < windowStart(now) => more = extra + uiSmokeMaxRequestsPerMinute + Overlap,
           ~(windowStart(x) < windowStart(now)) => more = extra,
           uiAllow(tab, ip, uiSmokeMaxRequestsPerMinute, x).ok
    PROVE  UIHolds([used EXCEPT ![windowStart(x)] = @ + 1], more,
                   uiAllow(tab, ip, uiSmokeMaxRequestsPerMinute, x).table.entries, ip, now)
<1> DEFINE l     == uiSmokeMaxRequestsPerMinute
           v     == windowStart(x)
           old   == UISwept(tab, x).entries
           known == ip \in DOMAIN old /\ x - old[ip].start < WindowSec
           entry == IF known THEN [old[ip] EXCEPT !.count = @ + 1] ELSE [start |-> x, count |-> 1]
           left  == uiAllow(tab, ip, l, x).table.entries
           used2 == [used EXCEPT ![v] = @ + 1]
           s     == IF known THEN old[ip].start ELSE x
           c     == IF known THEN old[ip].count + 1 ELSE 1
<1>1. UIHolds(used, extra, old, ip, now)
  BY UISweeps
<1>2. /\ v \in Windows /\ v \in Nat /\ v <= x /\ x < v + WindowSec /\ now \in Nat
      /\ \A w \in Windows : w \in Nat /\ used[w] \in Nat
      /\ l \in Nat /\ Overlap \in Nat
  <2>1. now \in Nat /\ \A w \in Windows : w \in Nat /\ used[w] \in Nat
    BY WindowsAreTimes
  <2> QED BY <2>1, WindowStart, WindowCounted, GatewayAssumption DEF Overlap
<1>3. ASSUME ip \in DOMAIN old
      PROVE  /\ old[ip] \in [start : 0 .. now, count : 1 .. l]
             /\ \A w \in Windows :
                 /\ w >= old[ip].start + WindowSec => used[w] <= extra
                 /\ old[ip].start < w /\ w < old[ip].start + WindowSec => used[w] <= extra + old[ip].count
                 /\ w = windowStart(old[ip].start) => used[w] <= extra + Overlap + old[ip].count
  BY <1>1, <1>3, Zenon DEF UIHolds
<1>4. left = Put(old, ip, entry) /\ ~(entry.count > l)
  <2>1. "entries" \in DOMAIN UISwept(tab, x)
    BY DEF UISwept
  <2>2. uiAllow(tab, ip, l, x).table = [UISwept(tab, x) EXCEPT !.entries = Put(@, ip, entry)] /\ ~(entry.count > l)
    BY DEF uiAllow, UISwept
  <2> QED BY <2>1, <2>2
<1> HIDE DEF left
<1>5. entry.start = s /\ entry.count = c /\ entry \in [start : 0 .. now, count : 1 .. l]
  <2>1. CASE known
    <3>1. old[ip] \in [start : 0 .. now, count : 1 .. l]
      BY <1>3, <2>1
    <3> HIDE DEF old, l
    <3> QED BY <1>2, <1>4, <2>1, <3>1
  <2>2. CASE ~known
    <3> HIDE DEF known, l
    <3> QED BY <1>2, <1>4, <2>2
  <2> QED BY <2>1, <2>2
<1>6. ip \in DOMAIN left /\ left[ip] = entry
  BY <1>4 DEF Put
<1>7. s \in Nat /\ s <= now /\ c \in Nat /\ 1 <= c /\ c <= l
  BY <1>2, <1>5
<1> DEFINE Bounded(w, n) ==
             /\ n <= more + l + Overlap
             /\ w >= s + WindowSec => n <= more
             /\ s < w /\ w < s + WindowSec => n <= more + c
             /\ w = windowStart(s) => n <= more + Overlap + c
<1>8. \A w \in Windows : used[w] <= extra + l + Overlap
  BY <1>1 DEF UIHolds
<1>9. v < s + WindowSec
  <2>1. CASE known
    BY <1>2, <1>7, <2>1, WindowAssumption
  <2>2. CASE ~known
    <3>1. s = x
      BY <2>2
    <3> QED BY <1>2, <3>1, WindowAssumption
  <2> QED BY <2>1, <2>2
<1>10. Bounded(v, used[v] + 1) /\ \A w \in Windows : Bounded(w, used[w])
  <2>1. CASE v < windowStart(now)
    <3>1. \A w \in Windows : used[w] <= more
      BY <1>8, <2>1
    <3> HIDE DEF v, s, c, l
    <3> QED BY <1>2, <1>7, <1>9, <3>1, WindowAssumption
  <2>2. CASE ~(v < windowStart(now))
    <3>1. more = extra /\ v = windowStart(now) /\ v > now - WindowSec
      BY <1>2, <2>2, OnTime
    <3>2. CASE known
      <4> DEFINE d == old[ip].count
      <4>1. /\ c = d + 1 /\ d \in Nat
            /\ \A w \in Windows :
                /\ w >= s + WindowSec => used[w] <= extra
                /\ s < w /\ w < s + WindowSec => used[w] <= extra + d
                /\ w = windowStart(s) => used[w] <= extra + Overlap + d
        BY <1>2, <1>3, <3>2
      <4>2. v <= s => v = windowStart(s)
        BY <1>2, <1>7, <3>1, SameWindow
      <4> HIDE DEF v, s, c, d, l
      <4> QED BY <1>2, <1>7, <1>8, <1>9, <3>1, <4>1, <4>2, WindowAssumption
    <3>3. CASE ~known
      <4>1. s = x /\ c = 1 /\ v = windowStart(s)
        BY <3>3
      <4>2. used[v] <= extra + Overlap /\ \A w \in Windows : w > s => used[w] <= extra
        <5>1. CASE ip \notin DOMAIN old
          <6>1. \A w \in Windows : w > now - WindowSec => used[w] <= extra
            BY <1>1, <5>1, Zenon DEF UIHolds
          <6> HIDE DEF v, s, c, l, old
          <6> QED BY <1>2, <3>1, <4>1, <6>1, WindowAssumption
        <5>2. CASE ip \in DOMAIN old
          <6> DEFINE a == old[ip].start  d == old[ip].count
          <6>1. /\ a \in Nat /\ d \in Nat /\ d <= l /\ x >= a + WindowSec
                /\ \A w \in Windows :
                    /\ w >= a + WindowSec => used[w] <= extra
                    /\ a < w /\ w < a + WindowSec => used[w] <= extra + d
            <7>1. old[ip] \in [start : 0 .. now, count : 1 .. l] /\ ~(x - old[ip].start < WindowSec)
              BY <1>3, <3>3, <5>2
            <7>2. a \in Nat /\ d \in Nat /\ d <= l /\ x >= a + WindowSec
              BY <1>2, <7>1, WindowAssumption
            <7> QED BY <1>3, <5>2, <7>2
          <6> HIDE DEF v, s, c, a, d, old
          <6>2. \A w \in Windows : w > s => used[w] <= extra
            BY <1>2, <4>1, <6>1, WindowAssumption
          <6>3. a < v
            BY <1>2, <3>1, <6>1, WindowAssumption
          <6>4. v < a + WindowSec => WindowSec # 1 /\ Overlap = l
            BY <1>2, <6>1, <6>3, WindowAssumption DEF Overlap
          <6> HIDE DEF l
          <6>5. used[v] <= extra + Overlap
            BY <1>2, <6>1, <6>3, <6>4, WindowAssumption
          <6> QED BY <6>2, <6>5
        <5> QED BY <5>1, <5>2
      <4> HIDE DEF v, s, c, l
      <4>3. Bounded(v, used[v] + 1)
        BY <1>2, <1>7, <1>9, <3>1, <4>1, <4>2, WindowAssumption
      <4>4. ASSUME NEW w \in Windows
            PROVE  Bounded(w, used[w])
        BY <1>2, <1>7, <1>8, <3>1, <4>1, <4>2, WindowAssumption
      <4> QED BY <4>3, <4>4
    <3> QED BY <3>2, <3>3
  <2> QED BY <2>1, <2>2
<1> HIDE DEF v, s, c, Bounded
<1>11. \A w \in Windows : Bounded(w, used2[w])
  <2>1. used2[v] = used[v] + 1 /\ \A w \in Windows : w # v => used2[w] = used[w]
    BY <1>2
  <2> HIDE DEF used2
  <2> QED BY <1>10, <2>1, Zenon
<1> HIDE DEF used2, entry
<1>12. UIHolds(used2, more, left, ip, now)
  BY <1>5, <1>6, <1>11, Zenon DEF UIHolds, Bounded
<1> QED BY <1>12 DEF left, used2, v

(* A refused call only sweeps, and no call does more than that to others. *)
LEMMA UIRefuses ==
    ASSUME NEW used \in [Windows -> Nat], NEW extra \in Nat,
           NEW tab, NEW ip, NEW now \in Windows, NEW x \in Nat, x <= now, NEW most,
           UIHolds(used, extra, tab.entries, ip, now),
           ~uiAllow(tab, ip, most, x).ok
    PROVE  UIHolds(used, extra, uiAllow(tab, ip, most, x).table.entries, ip, now)
<1>1. UIHolds(used, extra, UISwept(tab, x).entries, ip, now)
  BY UISweeps
<1>2. uiAllow(tab, ip, most, x).table = UISwept(tab, x)
  BY DEF uiAllow, UISwept
<1> QED BY <1>1, <1>2

LEMMA UIOthers ==
    ASSUME NEW used \in [Windows -> Nat], NEW extra \in Nat,
           NEW tab, "entries" \in DOMAIN tab, NEW ip, NEW now \in Windows, NEW x \in Nat, x <= now, NEW most,
           NEW other, other # ip,
           UIHolds(used, extra, tab.entries, other, now)
    PROVE  UIHolds(used, extra, uiAllow(tab, ip, most, x).table.entries, other, now)
<1> DEFINE old  == UISwept(tab, x).entries
           left == uiAllow(tab, ip, most, x).table.entries
<1>1. UIHolds(used, extra, old, other, now)
  BY UISweeps
<1>2. /\ other \in DOMAIN left <=> other \in DOMAIN old
      /\ other \in DOMAIN left => left[other] = old[other]
  <2>1. "entries" \in DOMAIN UISwept(tab, x)
    BY DEF UISwept
  <2>2. left = old \/ \E entry : left = Put(old, ip, entry)
    <3>1. \/ uiAllow(tab, ip, most, x).table = UISwept(tab, x)
          \/ \E entry : uiAllow(tab, ip, most, x).table = [UISwept(tab, x) EXCEPT !.entries = Put(@, ip, entry)]
      BY DEF uiAllow, UISwept
    <3> QED BY <2>1, <3>1
  <2> HIDE DEF old, left
  <2> QED BY <2>2 DEF Put
<1> HIDE DEF old, left
<1>3. UIHolds(used, extra, left, other, now)
  BY <1>1, <1>2, Zenon DEF UIHolds
<1> QED BY <1>3 DEF left

----------------------------------------------------------------------------
(* Keys and what comes on top *)

LEMMA LimitsAreNat ==
    ASSUME NEW key
    PROVE  LimitOf(key) \in Nat
<1>1. uiSmokeMaxRequestsPerMinute * (IF WindowSec = 1 THEN 1 ELSE 2) \in Nat
  BY GatewayAssumption
<1> QED BY <1>1, GatewayAssumption DEF LimitOf

(* The chain calls the limiter with the limit of the key. *)
LEMMA LimitsOfKeys ==
    ASSUME NEW q \in Plan
    PROVE  /\ LimitOf(RateKey(q)) = RateLimitOf(q) /\ RateKey(q)[1] # "ui"
           /\ LimitOf(SourceKey(q)) = SourceLimit /\ SourceKey(q)[1] # "ui"
           /\ LimitOf(UIKey(q)) = uiSmokeMaxRequestsPerMinute + Overlap /\ UIKey(q)[1] = "ui" /\ UIKey(q)[2] = q.ip
<1>1. LimitOf(RateKey(q)) = RateLimitOf(q)
  BY DEF LimitOf, RateKey, RateLimitOf
<1>2. RateKey(q)[1] # "ui"
  BY DEF RateKey
<1>3. LimitOf(SourceKey(q)) = SourceLimit /\ SourceKey(q)[1] # "ui"
  BY DEF LimitOf, SourceKey
<1>4. UIKey(q)[1] = "ui" /\ UIKey(q)[2] = q.ip
  BY DEF UIKey
<1>5. LimitOf(UIKey(q)) = uiSmokeMaxRequestsPerMinute * (IF WindowSec = 1 THEN 1 ELSE 2)
  BY <1>4 DEF LimitOf
<1>6. uiSmokeMaxRequestsPerMinute * (IF WindowSec = 1 THEN 1 ELSE 2) = uiSmokeMaxRequestsPerMinute + Overlap
  BY GatewayAssumption DEF Overlap
<1> QED BY <1>1, <1>2, <1>3, <1>4, <1>5, <1>6

(* Clients of the smoke tests with different keys have different addresses. *)
LEMMA UIKeysDiffer ==
    ASSUME NEW key \in Keys, key[1] = "ui"
    PROVE  key = <<"ui", key[2]>>
<1>1. PICK p \in Plans, r \in Requests : key \in {RateKey(p[r]), SourceKey(p[r]), UIKey(p[r])}
  BY DEF Keys
<1>2. p[r] \in Plan
  BY GatewayAssumption
<1>3. key = UIKey(p[r])
  BY <1>1, <1>2, LimitsOfKeys
<1> QED BY <1>3 DEF UIKey

LEMMA ExtraIsNat ==
    ASSUME TypeOK, NEW key \in Keys
    PROVE  Extra(key) \in Nat
<1>1. late[key] + Lost(key) \in Nat /\ failedOpen \in Nat
  BY DEF TypeOK, Lost
<1>2. LimitOf(key) \in Nat
  BY LimitsAreNat
<1> QED BY <1>1, <1>2 DEF Extra

(* What a call changes for its key and for the others. *)
LEMMA CallCounts ==
    ASSUME TypeOK, NEW r \in Requests, NEW called \in Keys, NEW ok, CountCall(r, called, ok),
           limiter' = limiter, restarts' = restarts, NEW more \in {0, 1}, failedOpen' = failedOpen + more
    PROVE  LET s == windowStart(reading[r]) IN
           /\ \A key \in Keys : key # called => admitted'[key] = admitted[key] /\ Extra(key)' = Extra(key) + more
           /\ admitted'[called] = IF ok THEN [admitted[called] EXCEPT ![s] = @ + 1] ELSE admitted[called]
           /\ Extra(called)' = Extra(called) + more + (IF s < windowStart(clock) THEN LimitOf(called) ELSE 0)
           /\ admitted' \in [Keys -> [Windows -> Nat]] /\ late' \in [Keys -> Nat] /\ s \in Windows
<1> DEFINE s == windowStart(reading[r])
<1>1. /\ admitted \in [Keys -> [Windows -> Nat]] /\ late \in [Keys -> Nat] /\ failedOpen \in Nat /\ restarts \in Nat
      /\ reading[r] \in Nat /\ reading[r] <= clock /\ clock \in Windows
  BY DEF TypeOK
<1>2. s \in Windows
  BY <1>1, WindowCounted
<1> HIDE DEF s
<1>3. /\ admitted' = IF ok THEN [admitted EXCEPT ![called][s] = @ + 1] ELSE admitted
      /\ late' = IF s < windowStart(clock) THEN [late EXCEPT ![called] = @ + 1] ELSE late
  BY DEF CountCall, s
<1>4. admitted'[called] = IF ok THEN [admitted[called] EXCEPT ![s] = @ + 1] ELSE admitted[called]
  BY <1>1, <1>3
<1>5. admitted' \in [Keys -> [Windows -> Nat]] /\ \A key \in Keys : key # called => admitted'[key] = admitted[key]
  <2>1. CASE ok
    <3>1. [admitted[called] EXCEPT ![s] = @ + 1] \in [Windows -> Nat]
      <4>1. admitted[called] \in [Windows -> Nat]
        BY <1>1
      <4> QED BY <1>2, <4>1
    <3>2. admitted' = [admitted EXCEPT ![called] = [admitted[called] EXCEPT ![s] = @ + 1]]
      BY <1>1, <1>3, <2>1
    <3> QED BY <1>1, <3>1, <3>2
  <2>2. CASE ~ok
    BY <1>1, <1>3, <2>2
  <2> QED BY <2>1, <2>2
<1>6. /\ late' \in [Keys -> Nat] /\ \A key \in Keys : key # called => late'[key] = late[key]
      /\ late'[called] = late[called] + (IF s < windowStart(clock) THEN 1 ELSE 0)
  BY <1>1, <1>3
<1>7. \A key : Lost(key)' = Lost(key) /\ LimitOf(key) \in Nat /\ Lost(key) \in Nat
  BY <1>1, LimitsAreNat DEF Lost
<1>8. ASSUME NEW key \in Keys, key # called
      PROVE  Extra(key)' = Extra(key) + more
  <2>1. LimitOf(key) * (late[key] + Lost(key)) \in Nat
    BY <1>1, <1>7
  <2>2. Extra(key)' = LimitOf(key) * (late[key] + Lost(key)) + (failedOpen + more)
    BY <1>6, <1>7, <1>8 DEF Extra
  <2> QED BY <1>1, <2>1, <2>2 DEF Extra
<1>9. Extra(called)' = Extra(called) + more + (IF s < windowStart(clock) THEN LimitOf(called) ELSE 0)
  <2> DEFINE l == LimitOf(called)  n == late[called] + Lost(called)
  <2>1. l \in Nat /\ n \in Nat /\ Extra(called) = l * n + failedOpen
    BY <1>1, <1>7 DEF Extra
  <2>2. Extra(called)' = l * (late'[called] + Lost(called)) + (failedOpen + more)
    BY <1>7 DEF Extra
  <2>3. late'[called] + Lost(called) = n + (IF s < windowStart(clock) THEN 1 ELSE 0)
    BY <1>1, <1>6, <1>7
  <2> HIDE DEF l, n
  <2>4. l * (n + 1) = l * n + l /\ l * n \in Nat /\ n + 0 = n
    BY <2>1
  <2>5. CASE s < windowStart(clock)
    <3>1. Extra(called)' = l * (n + 1) + (failedOpen + more)
      BY <2>2, <2>3, <2>5
    <3> QED BY <1>1, <2>1, <2>4, <2>5, <3>1 DEF l
  <2>6. CASE ~(s < windowStart(clock))
    <3>1. Extra(called)' = l * n + (failedOpen + more)
      BY <2>2, <2>3, <2>4, <2>6
    <3> QED BY <1>1, <2>1, <2>4, <2>6, <3>1
  <2> QED BY <2>5, <2>6
<1> QED BY <1>2, <1>4, <1>5, <1>6, <1>8, <1>9 DEF s

----------------------------------------------------------------------------
(* Steps keep the quota *)

(* Whatever leaves the counters of a key alone keeps its quota. *)
LEMMA KeyRises ==
    ASSUME TypeOK, NEW key \in Keys, KeyHolds(key), limiter' = limiter, table' = table, ui' = ui,
           admitted'[key] = admitted[key], Extra(key)' \in Nat, Extra(key) <= Extra(key)',
           clock' \in Windows, clock <= clock'
    PROVE  KeyHolds(key)'
<1>1. /\ admitted[key] \in [Windows -> Nat] /\ clock \in Windows /\ Extra(key) \in Nat /\ LimitOf(key) \in Nat
      /\ \A w \in Windows : admitted[key][w] \in Nat
  BY ExtraIsNat, LimitsAreNat DEF TypeOK
<1>2. ASSUME key[1] = "ui"
      PROVE  UIHolds(admitted'[key], Extra(key)', ui'.entries, key[2], clock')
  <2>1. UIHolds(admitted[key], Extra(key), ui.entries, key[2], clock)
    BY <1>2 DEF KeyHolds
  <2> QED BY <1>1, <2>1, UIRises
<1>3. ASSUME key[1] # "ui", limiter = "memory"
      PROVE  MemoryHolds(admitted'[key], Extra(key)', LimitOf(key), table', key, clock')
  <2>1. MemoryHolds(admitted[key], Extra(key), LimitOf(key), table, key, clock)
    BY <1>3 DEF KeyHolds
  <2> QED BY <1>1, <2>1, MemoryRises
<1>4. ASSUME key[1] # "ui", limiter # "memory", NEW w \in Windows
      PROVE  RedisHolds(admitted'[key][w], Extra(key)', LimitOf(key), table', key, w, clock')
  <2>1. RedisHolds(admitted[key][w], Extra(key), LimitOf(key), table, key, w, clock)
    BY <1>4 DEF KeyHolds
  <2> QED BY <1>1, <2>1, RedisRises
<1> QED BY <1>2, <1>3, <1>4 DEF KeyHolds

LEMMA QuotaQuiet ==
    ASSUME TypeOK, QuotaInv, clock' \in Windows, clock <= clock', restarts' = restarts,
           UNCHANGED <<limiter, table, ui, admitted, late, failedOpen>>
    PROVE  QuotaInv'
<1>1. ASSUME NEW key \in Keys
      PROVE  KeyHolds(key)'
  <2>1. Extra(key)' = Extra(key) /\ Extra(key) \in Nat /\ KeyHolds(key)
    BY ExtraIsNat DEF Extra, Lost, QuotaInv
  <2> QED BY <2>1, KeyRises
<1> QED BY <1>1 DEF QuotaInv

(* A call that the limiter of the chain answered. *)
LEMMA AllowKeeps ==
    ASSUME TypeOK, QuotaInv, NEW r \in Requests, NEW called \in Keys, called[1] # "ui", NEW then,
           Allow(r, called, LimitOf(called), then), clock' = clock, restarts' = restarts
    PROVE  QuotaInv'
<1> DEFINE x      == reading[r]
           s      == windowStart(x)
           limit  == LimitOf(called)
           sweep  == (hits + 1) % CleanupN = 0
           live   == RedisExpired(table, clock)
           memory == MemoryAllow(table, called, limit, x, sweep)
           redis  == RedisAllow(live, called, limit, x, clock)
           answer == IF limiter = "memory" THEN memory ELSE redis
<1>1. table' = answer.table /\ CountCall(r, called, answer.ok) /\ limiter' = limiter /\ ui' = ui /\ failedOpen' = failedOpen
  BY DEF Allow
<1>2. sweep \in BOOLEAN
  OBVIOUS
<1>3. /\ x \in Nat /\ x <= clock /\ clock \in Windows /\ limit \in Nat /\ failedOpen \in Nat
      /\ \A key \in Keys : admitted[key] \in [Windows -> Nat] /\ Extra(key) \in Nat /\ LimitOf(key) \in Nat
  BY ExtraIsNat, LimitsAreNat DEF TypeOK
<1>4. /\ \A key \in Keys : key # called => admitted'[key] = admitted[key] /\ Extra(key)' = Extra(key)
      /\ admitted'[called] = IF answer.ok THEN [admitted[called] EXCEPT ![s] = @ + 1] ELSE admitted[called]
      /\ Extra(called)' = Extra(called) + (IF s < windowStart(clock) THEN limit ELSE 0)
      /\ s \in Windows
  <2> HIDE DEF answer
  <2>1. failedOpen' = failedOpen + 0
    BY <1>1, <1>3
  <2>2. /\ \A key \in Keys : key # called => admitted'[key] = admitted[key] /\ Extra(key)' = Extra(key) + 0
        /\ admitted'[called] = IF answer.ok THEN [admitted[called] EXCEPT ![s] = @ + 1] ELSE admitted[called]
        /\ Extra(called)' = Extra(called) + 0 + (IF s < windowStart(clock) THEN limit ELSE 0)
        /\ s \in Windows
    <3>1. limit = LimitOf(called) /\ s = windowStart(reading[r])
      OBVIOUS
    <3>2. 0 \in {0, 1}
      OBVIOUS
    <3> HIDE DEF limit, s
    <3> QED BY <1>1, <2>1, <3>1, <3>2, CallCounts
  <2> QED BY <1>3, <2>2
<1>5. /\ Extra(called)' \in Nat /\ Extra(called) <= Extra(called)'
      /\ s < windowStart(clock) => Extra(called)' = Extra(called) + limit
      /\ ~(s < windowStart(clock)) => Extra(called)' = Extra(called)
  BY <1>3, <1>4
<1>6. ASSUME NEW key \in Keys, key[1] = "ui"
      PROVE  UIHolds(admitted'[key], Extra(key)', ui'.entries, key[2], clock')
  BY <1>1, <1>4, <1>6 DEF QuotaInv, KeyHolds
<1>7. ASSUME NEW key \in Keys, key[1] # "ui", limiter = "memory"
      PROVE  MemoryHolds(admitted'[key], Extra(key)', LimitOf(key), table', key, clock')
  <2>1. MemoryHolds(admitted[key], Extra(key), LimitOf(key), table, key, clock)
    BY <1>7 DEF QuotaInv, KeyHolds
  <2>2. table' = memory.table /\ answer = memory
    BY <1>1, <1>7
  <2>3. CASE key # called
    <3>1. MemoryHolds(admitted[key], Extra(key), LimitOf(key), memory.table, key, clock)
      <4> HIDE DEF sweep, x, limit
      <4> QED BY <1>2, <1>3, <2>1, <2>3, MemoryOthers
    <3> QED BY <1>4, <2>2, <2>3, <3>1
  <2>4. CASE key = called /\ memory.ok
    <3>1. MemoryHolds([admitted[called] EXCEPT ![s] = @ + 1], Extra(called)', limit, memory.table, called, clock)
      <4> HIDE DEF sweep, x, limit
      <4> QED BY <1>2, <1>3, <1>5, <2>1, <2>4, MemoryAdmits DEF limit
    <3> QED BY <1>4, <2>2, <2>4, <3>1
  <2>5. CASE key = called /\ ~memory.ok
    <3>1. table' = table
      BY <2>2, <2>5 DEF MemoryAllow
    <3>2. MemoryHolds(admitted[called], Extra(called)', limit, table, called, clock)
      <4>1. clock <= clock
        BY <1>3, WindowsAreTimes
      <4> QED BY <1>3, <1>5, <2>1, <2>5, <4>1, MemoryRises
    <3> QED BY <1>4, <2>2, <2>5, <3>1, <3>2
  <2> QED BY <2>3, <2>4, <2>5
<1>8. ASSUME NEW key \in Keys, key[1] # "ui", limiter # "memory", NEW w \in Windows
      PROVE  RedisHolds(admitted'[key][w], Extra(key)', LimitOf(key), table', key, w, clock')
  <2>1. RedisHolds(admitted[key][w], Extra(key), LimitOf(key), live, key, w, clock)
    <3>1. RedisHolds(admitted[key][w], Extra(key), LimitOf(key), table, key, w, clock)
      BY <1>8 DEF QuotaInv, KeyHolds
    <3> QED BY <1>3, <3>1, RedisExpires
  <2>2. table' = redis.table /\ answer = redis
    BY <1>1, <1>8
  <2>3. admitted[key][w] \in Nat /\ clock <= clock
    BY <1>3, WindowsAreTimes
  <2>4. CASE <<key, w>> # <<called, s>>
    <3>1. /\ admitted'[key][w] = admitted[key][w] /\ Extra(key)' \in Nat /\ Extra(key) <= Extra(key)'
      BY <1>3, <1>4, <1>5, <2>4
    <3>2. RedisHolds(admitted[key][w], Extra(key)', LimitOf(key), live, key, w, clock)
      BY <1>3, <2>1, <2>3, <3>1, RedisRises
    <3>3. RedisHolds(admitted[key][w], Extra(key)', LimitOf(key), redis.table, key, w, clock)
      <4> HIDE DEF limit, live
      <4> QED BY <2>4, <3>2, RedisOthers
    <3> QED BY <2>2, <3>1, <3>3
  <2>5. CASE <<key, w>> = <<called, s>> /\ limit > 0
    <3>1. key = called /\ w = s
      BY <2>5
    <3>2. admitted'[key][w] = IF redis.ok THEN admitted[called][s] + 1 ELSE admitted[called][s]
      BY <1>3, <1>4, <2>2, <3>1
    <3>3. RedisHolds(IF redis.ok THEN admitted[called][s] + 1 ELSE admitted[called][s], Extra(called)', limit,
                     redis.table, called, s, clock)
      <4> HIDE DEF live, x
      <4> QED BY <1>3, <1>5, <2>1, <2>3, <2>5, <3>1, RedisCounts DEF limit
    <3> QED BY <2>2, <3>1, <3>2, <3>3
  <2>6. CASE <<key, w>> = <<called, s>> /\ ~(limit > 0)
    <3>1. key = called /\ w = s /\ limit <= 0
      BY <1>3, <2>6
    <3>2. redis.table = live /\ ~redis.ok
      BY <3>1 DEF RedisAllow
    <3>3. RedisHolds(admitted[key][w], Extra(key)', LimitOf(key), live, key, w, clock)
      BY <1>3, <1>5, <2>1, <2>3, <3>1, RedisRises
    <3> QED BY <1>4, <2>2, <3>1, <3>2, <3>3
  <2> QED BY <2>4, <2>5, <2>6
<1>9. ASSUME NEW key \in Keys
      PROVE  KeyHolds(key)'
  BY <1>1, <1>6, <1>7, <1>8 DEF KeyHolds
<1> QED BY <1>9 DEF QuotaInv

(* A call that Redis did not answer. *)
LEMMA FailsOpenKeeps ==
    ASSUME TypeOK, QuotaInv, NEW r \in Requests, NEW called \in Keys, called[1] # "ui", NEW then,
           AllowFailsOpen(r, called, LimitOf(called), then), clock' = clock, restarts' = restarts
    PROVE  QuotaInv'
<1> DEFINE x      == reading[r]
           s      == windowStart(x)
           limit  == LimitOf(called)
           live   == RedisExpired(table, clock)
           redis  == RedisAllow(live, called, limit, x, clock)
           paid   == Extra(called) + (IF s < windowStart(clock) THEN limit ELSE 0)
<1>1. /\ table' \in {table, redis.table} /\ CountCall(r, called, TRUE) /\ limiter' = limiter /\ ui' = ui
      /\ failedOpen' = failedOpen + 1 /\ limiter = "redis" /\ limit > 0
  BY DEF AllowFailsOpen
<1>2. /\ x \in Nat /\ x <= clock /\ clock \in Windows /\ clock <= clock /\ limit \in Nat
      /\ \A key \in Keys : admitted[key] \in [Windows -> Nat] /\ Extra(key) \in Nat /\ LimitOf(key) \in Nat
  BY ExtraIsNat, LimitsAreNat, WindowsAreTimes DEF TypeOK
<1>3. /\ \A key \in Keys : key # called => admitted'[key] = admitted[key] /\ Extra(key)' = Extra(key) + 1
      /\ admitted'[called] = [admitted[called] EXCEPT ![s] = @ + 1]
      /\ Extra(called)' = Extra(called) + 1 + (IF s < windowStart(clock) THEN limit ELSE 0)
      /\ s \in Windows
  BY <1>1, CallCounts
<1>4. /\ paid \in Nat /\ Extra(called) <= paid /\ Extra(called)' = paid + 1
      /\ s < windowStart(clock) => paid = Extra(called) + limit
      /\ ~(s < windowStart(clock)) => paid = Extra(called)
  BY <1>2, <1>3
<1> HIDE DEF paid
<1>5. \A key \in Keys : Extra(key)' \in Nat /\ Extra(key) <= Extra(key)'
  BY <1>2, <1>3, <1>4
<1>6. ASSUME NEW key \in Keys, key[1] = "ui"
      PROVE  UIHolds(admitted'[key], Extra(key)', ui'.entries, key[2], clock')
  <2>1. UIHolds(admitted[key], Extra(key), ui.entries, key[2], clock) /\ admitted'[key] = admitted[key]
    BY <1>3, <1>6 DEF QuotaInv, KeyHolds
  <2> QED BY <1>1, <1>2, <1>5, <2>1, UIRises
<1>7. ASSUME NEW key \in Keys, key[1] # "ui", NEW w \in Windows
      PROVE  RedisHolds(admitted'[key][w], Extra(key)', LimitOf(key), table', key, w, clock')
  <2>1. RedisHolds(admitted[key][w], Extra(key), LimitOf(key), table, key, w, clock) /\ admitted[key][w] \in Nat
    BY <1>1, <1>2, <1>7 DEF QuotaInv, KeyHolds
  <2>2. RedisHolds(admitted[key][w], Extra(key), LimitOf(key), live, key, w, clock)
    BY <1>2, <2>1, RedisExpires
  <2>3. CASE <<key, w>> # <<called, s>>
    <3>1. admitted'[key][w] = admitted[key][w]
      BY <1>2, <1>3, <2>3
    <3>2. /\ RedisHolds(admitted[key][w], Extra(key)', LimitOf(key), table, key, w, clock)
          /\ RedisHolds(admitted[key][w], Extra(key)', LimitOf(key), live, key, w, clock)
      BY <1>2, <1>5, <2>1, <2>2, RedisRises
    <3>3. RedisHolds(admitted[key][w], Extra(key)', LimitOf(key), redis.table, key, w, clock)
      <4> HIDE DEF limit, live
      <4> QED BY <2>3, <3>2, RedisOthers
    <3> QED BY <1>1, <3>1, <3>2, <3>3
  <2>4. CASE <<key, w>> = <<called, s>>
    <3>1. key = called /\ w = s
      BY <2>4
    <3>2. admitted'[key][w] = admitted[key][w] + 1 /\ Extra(key)' = paid + 1
      BY <1>2, <1>3, <1>4, <3>1
    <3>3. RedisHolds(admitted[key][w] + 1, paid + 1, LimitOf(key), table, key, w, clock)
      <4>1. RedisHolds(admitted[key][w], paid, LimitOf(key), table, key, w, clock)
        BY <1>2, <1>4, <2>1, <3>1, RedisRises
      <4> QED BY <1>2, <1>4, <2>1, <4>1, RedisMisses
    <3>4. RedisHolds(admitted[called][s] + 1, paid + 1, limit, redis.table, called, s, clock)
      <4> HIDE DEF live, x
      <4> QED BY <1>1, <1>2, <1>4, <2>1, <2>2, <3>1, RedisCounts DEF limit
    <3> QED BY <1>1, <3>1, <3>2, <3>3, <3>4
  <2> QED BY <2>3, <2>4
<1>8. ASSUME NEW key \in Keys
      PROVE  KeyHolds(key)'
  BY <1>1, <1>6, <1>7 DEF KeyHolds
<1> QED BY <1>8 DEF QuotaInv

(* A call of the smoke tests. *)
LEMMA UISmokeKeeps ==
    ASSUME TypeOK, QuotaInv, NEW r \in Requests, UISmoke(r)
    PROVE  QuotaInv'
<1> DEFINE x      == reading[r]
           s      == windowStart(x)
           ip     == plan[r].ip
           l      == uiSmokeMaxRequestsPerMinute
           answer == uiAllow(ui, ip, l, x)
<1>0. PICK called \in Keys : called = UIKey(plan[r])
  BY DEF TypeOK
<1>1. /\ ui' = answer.table /\ CountCall(r, called, answer.ok)
      /\ UNCHANGED <<clock, limiter, table, failedOpen, restarts>>
  BY <1>0 DEF UISmoke
<1>2. /\ x \in Nat /\ x <= clock /\ clock \in Windows /\ clock <= clock /\ "entries" \in DOMAIN ui
      /\ failedOpen \in Nat /\ l \in Nat /\ Overlap \in Nat
      /\ \A key \in Keys : admitted[key] \in [Windows -> Nat] /\ Extra(key) \in Nat /\ LimitOf(key) \in Nat
  <2>1. l \in Nat /\ Overlap \in Nat
    BY GatewayAssumption DEF Overlap
  <2>2. clock \in Windows /\ clock <= clock
    BY WindowsAreTimes DEF TypeOK
  <2> QED BY <2>1, <2>2, ExtraIsNat, LimitsAreNat DEF TypeOK
<1>3. called[1] = "ui" /\ called[2] = ip /\ called = <<"ui", ip>> /\ LimitOf(called) = l + Overlap
  BY <1>0, LimitsOfKeys DEF TypeOK, UIKey
<1>4. /\ \A key \in Keys : key # called => admitted'[key] = admitted[key] /\ Extra(key)' = Extra(key)
      /\ admitted'[called] = IF answer.ok THEN [admitted[called] EXCEPT ![s] = @ + 1] ELSE admitted[called]
      /\ Extra(called)' = Extra(called) + (IF s < windowStart(clock) THEN l + Overlap ELSE 0)
      /\ s \in Windows
  <2> HIDE DEF answer, l
  <2>1. failedOpen' = failedOpen + 0
    BY <1>1, <1>2
  <2>2. /\ \A key \in Keys : key # called => admitted'[key] = admitted[key] /\ Extra(key)' = Extra(key) + 0
        /\ admitted'[called] = IF answer.ok THEN [admitted[called] EXCEPT ![s] = @ + 1] ELSE admitted[called]
        /\ Extra(called)' = Extra(called) + 0 + (IF s < windowStart(clock) THEN LimitOf(called) ELSE 0)
        /\ s \in Windows
    BY <1>1, <2>1, CallCounts
  <2> QED BY <1>2, <1>3, <2>2
<1>5. /\ Extra(called)' \in Nat /\ Extra(called) <= Extra(called)'
      /\ s < windowStart(clock) => Extra(called)' = Extra(called) + l + Overlap
      /\ ~(s < windowStart(clock)) => Extra(called)' = Extra(called)
  <2> HIDE DEF l
  <2> QED BY <1>2, <1>4
<1>6. ASSUME NEW key \in Keys, key[1] = "ui"
      PROVE  UIHolds(admitted'[key], Extra(key)', ui'.entries, key[2], clock')
  <2>1. UIHolds(admitted[key], Extra(key), ui.entries, key[2], clock)
    BY <1>6 DEF QuotaInv, KeyHolds
  <2> HIDE DEF x, ip
  <2>2. CASE key # called
    <3>1. key[2] # ip
      BY <1>3, <1>6, <2>2, UIKeysDiffer
    <3>2. UIHolds(admitted[key], Extra(key), answer.table.entries, key[2], clock)
      BY <1>2, <2>1, <3>1, UIOthers
    <3> QED BY <1>1, <1>4, <2>2, <3>2
  <2>3. CASE key = called /\ answer.ok
    <3>1. UIHolds([admitted[called] EXCEPT ![s] = @ + 1], Extra(called)', answer.table.entries, ip, clock)
      BY <1>2, <1>3, <1>5, <2>1, <2>3, UIAdmits
    <3>2. admitted'[called] = [admitted[called] EXCEPT ![s] = @ + 1]
      BY <1>4, <2>3
    <3> HIDE DEF answer, s
    <3> QED BY <1>1, <1>3, <2>3, <3>1, <3>2
  <2>4. CASE key = called /\ ~answer.ok
    <3>1. UIHolds(admitted[called], Extra(called), answer.table.entries, ip, clock)
      BY <1>2, <1>3, <2>1, <2>4, UIRefuses
    <3>2. UIHolds(admitted[called], Extra(called)', answer.table.entries, ip, clock)
      BY <1>2, <1>5, <3>1, UIRises
    <3>3. admitted'[called] = admitted[called]
      BY <1>4, <2>4
    <3> HIDE DEF answer, s
    <3> QED BY <1>1, <1>3, <2>4, <3>2, <3>3
  <2> QED BY <2>2, <2>3, <2>4
<1>7. ASSUME NEW key \in Keys, key[1] # "ui"
      PROVE  KeyHolds(key)'
  <2>1. admitted'[key] = admitted[key] /\ Extra(key)' = Extra(key) /\ KeyHolds(key)
    BY <1>3, <1>4, <1>7 DEF QuotaInv
  <2> QED BY <1>1, <1>7, <2>1 DEF KeyHolds
<1>8. ASSUME NEW key \in Keys
      PROVE  KeyHolds(key)'
  BY <1>6, <1>7 DEF KeyHolds
<1> QED BY <1>8 DEF QuotaInv

(* What was counted in memory is lost, once more. *)
LEMMA RestartKeeps ==
    ASSUME TypeOK, QuotaInv, Restart
    PROVE  QuotaInv'
<1>1. /\ UNCHANGED <<clock, limiter, admitted, late, failedOpen>> /\ restarts' = restarts + 1
      /\ ui'.entries = EmptyTable /\ DOMAIN EmptyTable = {}
      /\ limiter = "memory" => table' = EmptyTable
      /\ limiter # "memory" => table' = table
  BY DEF Restart, newUISmokeRateLimiter, EmptyTable
<1>2. \A key \in Keys : admitted[key] \in [Windows -> Nat] /\ Extra(key) \in Nat /\ LimitOf(key) \in Nat
  BY ExtraIsNat, LimitsAreNat DEF TypeOK
<1>3. ASSUME NEW key \in Keys, limiter = "memory" \/ key[1] = "ui"
      PROVE  Extra(key)' = Extra(key) + LimitOf(key)
  <2> DEFINE l == LimitOf(key)  n == late[key] + restarts
  <2>1. l \in Nat /\ n \in Nat /\ failedOpen \in Nat /\ late[key] + (restarts + 1) = n + 1
    BY <1>2 DEF TypeOK
  <2>2. Extra(key) = l * n + failedOpen /\ Extra(key)' = l * (n + 1) + failedOpen
    BY <1>1, <1>3, <2>1 DEF Extra, Lost
  <2> HIDE DEF l, n
  <2>3. l * (n + 1) = l * n + l /\ l * n \in Nat
    BY <2>1
  <2>4. Extra(key)' = Extra(key) + l
    BY <2>1, <2>2, <2>3
  <2> QED BY <2>4 DEF l
<1>4. ASSUME NEW key \in Keys, key[1] = "ui"
      PROVE  UIHolds(admitted'[key], Extra(key)', ui'.entries, key[2], clock')
  <2>1. PICK q \in Plan : key = UIKey(q)
    <3>1. PICK p \in Plans, r \in Requests : key \in {RateKey(p[r]), SourceKey(p[r]), UIKey(p[r])}
      BY DEF Keys
    <3> QED BY <1>4, <3>1, LimitsOfKeys, GatewayAssumption
  <2>2. LimitOf(key) = uiSmokeMaxRequestsPerMinute + Overlap
    BY <2>1, LimitsOfKeys
  <2>3. \A w \in Windows : admitted[key][w] <= Extra(key) + uiSmokeMaxRequestsPerMinute + Overlap
    BY <1>4 DEF QuotaInv, KeyHolds, UIHolds
  <2>4. uiSmokeMaxRequestsPerMinute \in Nat /\ Overlap \in Nat /\ Extra(key) \in Nat
    BY <1>2, GatewayAssumption DEF Overlap
  <2>5. Extra(key)' = Extra(key) + (uiSmokeMaxRequestsPerMinute + Overlap)
    BY <1>3, <1>4, <2>2
  <2>6. \A w \in Windows : admitted[key][w] <= Extra(key)'
                         /\ admitted[key][w] <= Extra(key)' + uiSmokeMaxRequestsPerMinute + Overlap
    BY <1>2, <2>3, <2>4, <2>5
  <2> QED BY <1>1, <2>6 DEF UIHolds
<1>5. ASSUME NEW key \in Keys, key[1] # "ui", limiter = "memory"
      PROVE  MemoryHolds(admitted'[key], Extra(key)', LimitOf(key), table', key, clock')
  <2>1. \A w \in Windows : admitted[key][w] <= Extra(key) + LimitOf(key)
    BY <1>5 DEF QuotaInv, KeyHolds, MemoryHolds
  <2>2. Extra(key)' = Extra(key) + LimitOf(key)
    BY <1>3, <1>5
  <2>3. \A w \in Windows : admitted[key][w] <= Extra(key)' /\ admitted[key][w] <= Extra(key)' + LimitOf(key)
    BY <1>2, <2>1, <2>2
  <2> QED BY <1>1, <1>5, <2>3 DEF MemoryHolds
<1>6. ASSUME NEW key \in Keys, key[1] # "ui", limiter # "memory", NEW w \in Windows
      PROVE  RedisHolds(admitted'[key][w], Extra(key)', LimitOf(key), table', key, w, clock')
  <2>1. Extra(key)' = Extra(key)
    BY <1>1, <1>6 DEF Extra, Lost
  <2> QED BY <1>1, <1>6, <2>1 DEF QuotaInv, KeyHolds
<1>7. ASSUME NEW key \in Keys
      PROVE  KeyHolds(key)'
  BY <1>1, <1>4, <1>5, <1>6 DEF KeyHolds
<1> QED BY <1>7 DEF QuotaInv

----------------------------------------------------------------------------
(* Types *)

LEMMA TypeInit ==
    ASSUME Init
    PROVE  TypeOK
<1>1. /\ plan \in [Requests -> Plan] /\ pc \in [Requests -> Labels] /\ reading \in [Requests -> Nat]
      /\ reply \in [Requests -> Nat] /\ clock \in Windows /\ late \in [Keys -> Nat]
      /\ failedOpen \in Nat /\ restarts \in Nat
      /\ \A r \in Requests : reading[r] <= clock /\ (pc[r] = "smoke" => plan[r].path = "smoke")
  BY GatewayAssumption DEF Init, Labels, Windows
<1>2. \A r \in Requests : {RateKey(plan[r]), SourceKey(plan[r]), UIKey(plan[r])} \subseteq Keys
  <2>1. plan \in Plans
    BY DEF Init
  <2>2. ASSUME NEW r \in Requests
        PROVE  {RateKey(plan[r]), SourceKey(plan[r]), UIKey(plan[r])} \subseteq Keys
    <3> DEFINE mine == {RateKey(plan[r]), SourceKey(plan[r]), UIKey(plan[r])}
               all  == {{RateKey(p[q]), SourceKey(p[q]), UIKey(p[q])} : p \in Plans, q \in Requests}
    <3>1. mine \in all /\ Keys = UNION all
      BY <2>1 DEF Keys
    <3> HIDE DEF mine, all
    <3>2. mine \subseteq Keys
      BY <3>1
    <3> QED BY <3>2 DEF mine
  <2> QED BY <2>2
<1>3. limiter \in {"memory", "redis"} /\ "entries" \in DOMAIN ui
  BY GatewayAssumption DEF Init, newUISmokeRateLimiter
<1>4. admitted \in [Keys -> [Windows -> Nat]]
  BY DEF Init, Windows
<1> QED BY <1>1, <1>2, <1>3, <1>4 DEF TypeOK

(* The ways a request moves: only its own label and response change. *)
LEMMA Moves ==
    ASSUME TypeOK, NEW r \in Requests, NEW label \in Labels, NEW status \in Nat,
           Goto(r, label) \/ Answer(r, status) \/ Record(r, status)
    PROVE  /\ pc' \in [Requests -> Labels] /\ reply' \in [Requests -> Nat]
           /\ \A q \in Requests : q # r => pc'[q] = pc[q] /\ reply'[q] = reply[q]
           /\ pc'[r] \in {label, "audit", "done"}
<1>1. pc \in [Requests -> Labels] /\ reply \in [Requests -> Nat] /\ {"audit", "done"} \subseteq Labels
  BY DEF TypeOK, Labels
<1> QED BY <1>1 DEF Goto, Answer, Record

(* An action that leaves plan, clock and limiters alone. *)
LEMMA TypeQuiet ==
    ASSUME TypeOK, UNCHANGED <<plan, clock, limits, restarts>>,
           pc' \in [Requests -> Labels], reply' \in [Requests -> Nat],
           \A r \in Requests : pc'[r] = "smoke" => pc[r] = "smoke" \/ plan[r].path = "smoke",
           \/ reading' = reading
           \/ \E r \in Requests : reading' = [reading EXCEPT ![r] = clock]
    PROVE  TypeOK'
<1>1. reading' \in [Requests -> Nat] /\ \A q \in Requests : reading'[q] <= clock
  <2>1. clock \in Nat /\ reading \in [Requests -> Nat] /\ \A q \in Requests : reading[q] <= clock
    BY WindowsAreTimes DEF TypeOK
  <2> QED BY <2>1
<1>2. \A q \in Requests : pc'[q] = "smoke" => plan[q].path = "smoke"
  BY DEF TypeOK
<1> QED BY <1>1, <1>2 DEF TypeOK, limits

(* A call of a limiter. *)
LEMMA TypeCall ==
    ASSUME TypeOK, NEW r \in Requests, NEW called \in Keys, NEW ok, CountCall(r, called, ok),
           NEW more \in {0, 1}, failedOpen' = failedOpen + more,
           UNCHANGED <<clock, limiter, restarts>>, "entries" \in DOMAIN ui',
           \/ plan' = plan
           \/ plan[r].path = "smoke" /\ plan' = [plan EXCEPT ![r].path = "webhook"],
           pc' \in [Requests -> Labels], reply' \in [Requests -> Nat],
           pc'[r] # "smoke", \A q \in Requests : q # r => pc'[q] = pc[q],
           NEW n \in {0, clock}, reading' = [reading EXCEPT ![r] = n]
    PROVE  TypeOK'
<1>1. /\ clock \in Nat /\ reading \in [Requests -> Nat] /\ \A q \in Requests : reading[q] <= clock
      /\ failedOpen \in Nat /\ plan \in [Requests -> Plan]
      /\ \A q \in Requests : {RateKey(plan[q]), SourceKey(plan[q]), UIKey(plan[q])} \subseteq Keys
  BY WindowsAreTimes DEF TypeOK
<1>2. reading' \in [Requests -> Nat] /\ \A q \in Requests : reading'[q] <= clock
  BY <1>1
<1>3. admitted' \in [Keys -> [Windows -> Nat]] /\ late' \in [Keys -> Nat] /\ failedOpen' \in Nat
  <2>1. limiter' = limiter /\ restarts' = restarts
    OBVIOUS
  <2>2. admitted' \in [Keys -> [Windows -> Nat]] /\ late' \in [Keys -> Nat]
    BY <2>1, CallCounts
  <2> QED BY <1>1, <2>2
<1>4. plan' \in [Requests -> Plan] /\ \A q \in Requests : {RateKey(plan'[q]), SourceKey(plan'[q]), UIKey(plan'[q])} \subseteq Keys
  <2>1. CASE plan' = plan
    BY <1>1, <2>1
  <2>2. CASE plan[r].path = "smoke" /\ plan' = [plan EXCEPT ![r].path = "webhook"]
    <3> DEFINE p == [plan[r] EXCEPT !.path = "webhook"]
    <3>1. plan[r] \in Plan
      BY <1>1
    <3>2. p \in Plan /\ p.ip = plan[r].ip /\ p.source = plan[r].source /\ p.path = "webhook"
      BY <3>1 DEF Plan
    <3>3. plan' = [plan EXCEPT ![r] = p]
      BY <2>2
    <3> HIDE DEF p
    <3>4. RateKey(p) = RateKey(plan[r]) /\ SourceKey(p) = SourceKey(plan[r]) /\ UIKey(p) = UIKey(plan[r])
      BY <2>2, <3>2 DEF RateKey, SourceKey, UIKey
    <3>5. plan' \in [Requests -> Plan] /\ \A q \in Requests : plan'[q] = IF q = r THEN p ELSE plan[q]
      BY <1>1, <3>2, <3>3
    <3>6. ASSUME NEW q \in Requests
          PROVE  {RateKey(plan'[q]), SourceKey(plan'[q]), UIKey(plan'[q])} \subseteq Keys
      <4>1. CASE q = r
        BY <1>1, <3>4, <3>5, <4>1
      <4>2. CASE q # r
        BY <1>1, <3>5, <4>2
      <4> QED BY <4>1, <4>2
    <3> QED BY <3>5, <3>6
  <2> QED BY <2>1, <2>2
<1>5. \A q \in Requests : pc'[q] = "smoke" => plan'[q].path = "smoke"
  BY <1>1 DEF TypeOK
<1> QED BY <1>2, <1>3, <1>4, <1>5 DEF TypeOK

(* The labels a request may go to. *)
LEMMA Stages ==
    /\ {"chaos", "rate", "handler", "smoke", "new"} \subseteq Labels
    /\ \A q \in Plan : AfterSource(q) \in {"auth", "handler"} /\ AfterRate(q) \in {"source", "auth", "handler"}
BY DEF Labels, AfterSource, AfterRate

LEMMA TypeStep ==
    ASSUME TypeOK, [Next]_vars
    PROVE  TypeOK'
<1>0. /\ plan \in [Requests -> Plan] /\ pc \in [Requests -> Labels] /\ reply \in [Requests -> Nat]
      /\ \A r \in Requests : plan[r] \in Plan /\ RateKey(plan[r]) \in Keys /\ SourceKey(plan[r]) \in Keys
                             /\ UIKey(plan[r]) \in Keys
      /\ {"audit", "done", "dead"} \subseteq Labels
  BY DEF TypeOK, Labels
<1>1. ASSUME NEW r \in Requests, APIVersionMiddleware(r)
      PROVE  TypeOK'
  <2>1. Goto(r, "chaos") \/ Answer(r, 406)
    BY <1>1 DEF APIVersionMiddleware
  <2> QED BY <1>1, <2>1, Stages, Moves, TypeQuiet DEF APIVersionMiddleware
<1>2. ASSUME NEW r \in Requests, Chaos(r)
      PROVE  TypeOK'
  <2>1. Goto(r, "rate") \/ Answer(r, 500)
    BY <1>2 DEF Chaos
  <2> QED BY <1>2, <2>1, Stages, Moves, TypeQuiet DEF Chaos
<1>3. ASSUME NEW r \in Requests, Cancel(r)
      PROVE  TypeOK'
  BY <1>0, <1>3, TypeQuiet DEF Cancel
<1>4. ASSUME NEW r \in Requests, NEW called \in Keys, NEW limit, NEW label \in {"source", "auth", "handler"},
             Allow(r, called, limit, label) \/ AllowFailsOpen(r, called, limit, label),
             UNCHANGED <<plan, clock, restarts>>,
             NEW n \in {0, clock}, reading' = [reading EXCEPT ![r] = n]
      PROVE  TypeOK'
  <2>1. \E ok : CountCall(r, called, ok)
    BY <1>4 DEF Allow, AllowFailsOpen
  <2>2. \E more \in {0, 1} : failedOpen' = failedOpen + more
    <3>1. failedOpen' = failedOpen \/ failedOpen' = failedOpen + 1
      BY <1>4 DEF Allow, AllowFailsOpen
    <3>2. failedOpen = failedOpen + 0
      BY DEF TypeOK
    <3> QED BY <3>1, <3>2
  <2>3. Goto(r, label) \/ Record(r, 429)
    BY <1>4 DEF Allow, AllowFailsOpen
  <2>4. /\ pc' \in [Requests -> Labels] /\ reply' \in [Requests -> Nat]
        /\ pc'[r] # "smoke" /\ \A q \in Requests : q # r => pc'[q] = pc[q]
    <3>1. label \in Labels /\ label # "smoke"
      BY <1>4 DEF Labels
    <3> QED BY <2>3, <3>1, Moves
  <2>5. limiter' = limiter /\ "entries" \in DOMAIN ui'
    BY <1>4 DEF Allow, AllowFailsOpen, TypeOK
  <2> QED BY <1>4, <2>1, <2>2, <2>4, <2>5, TypeCall
<1>5. ASSUME NEW r \in Requests, RateLimit(r)
      PROVE  TypeOK'
  <2>1. AfterRate(plan[r]) \in {"source", "auth", "handler"}
    BY <1>0, Stages
  <2>2. PICK called \in Keys, label \in {"source", "auth", "handler"} : called = RateKey(plan[r]) /\ label = AfterRate(plan[r])
    BY <1>0, <2>1
  <2>3. \E n \in {0, clock} : reading' = [reading EXCEPT ![r] = n]
    BY <1>5 DEF RateLimit
  <2>4. PICK limit : Allow(r, called, limit, label) \/ AllowFailsOpen(r, called, limit, label)
    BY <1>5, <2>2 DEF RateLimit
  <2>5. UNCHANGED <<plan, clock, restarts>>
    BY <1>5 DEF RateLimit
  <2> QED BY <1>4, <2>3, <2>4, <2>5
<1>6. ASSUME NEW r \in Requests, SourceRateLimit(r)
      PROVE  TypeOK'
  <2>1. AfterSource(plan[r]) \in {"source", "auth", "handler"}
    BY <1>0, Stages
  <2>2. PICK called \in Keys, label \in {"source", "auth", "handler"} : called = SourceKey(plan[r]) /\ label = AfterSource(plan[r])
    BY <1>0, <2>1
  <2> QED BY <1>4, <1>6, <2>2 DEF SourceRateLimit
<1>7. ASSUME NEW r \in Requests, RequireAdmin(r)
      PROVE  TypeOK'
  <2>1. Goto(r, "handler") \/ Record(r, 401) \/ Record(r, 403)
    BY <1>7 DEF RequireAdmin
  <2> QED BY <1>7, <2>1, Stages, Moves, TypeQuiet DEF RequireAdmin
<1>8. ASSUME NEW r \in Requests, HandleWebhook(r) \/ HandleAdmin(r) \/ HandleHealth(r)
      PROVE  TypeOK'
  <2>1. \E status \in Nat : Answer(r, status) \/ Record(r, status)
    BY <1>8 DEF HandleWebhook, HandleAdmin, HandleHealth
  <2>2. /\ pc' \in [Requests -> Labels] /\ reply' \in [Requests -> Nat]
        /\ \A q \in Requests : q # r => pc'[q] = pc[q]
        /\ pc'[r] \in {"done", "audit"}
    <3>1. "done" \in Labels
      BY <1>0
    <3> QED BY <2>1, <3>1, Moves
  <2>3. UNCHANGED <<plan, reading, clock, limits, restarts>>
    BY <1>8 DEF HandleWebhook, HandleAdmin, HandleHealth
  <2> QED BY <2>2, <2>3, TypeQuiet
<1>9. ASSUME NEW r \in Requests, UISmokeRead(r)
      PROVE  TypeOK'
  <2>1. Goto(r, "smoke") /\ plan[r].path = "smoke"
    BY <1>9 DEF UISmokeRead
  <2> QED BY <1>9, <2>1, Stages, Moves, TypeQuiet DEF UISmokeRead
<1>10. ASSUME NEW r \in Requests, UISmoke(r)
      PROVE  TypeOK'
  <2>1. PICK called \in Keys : called = UIKey(plan[r])
    BY <1>0
  <2>2. \E ok : CountCall(r, called, ok)
    BY <1>10, <2>1 DEF UISmoke
  <2>3. Goto(r, "new") \/ \E status \in Nat : Answer(r, status)
    BY <1>10 DEF UISmoke, UISmoke429
  <2>4. /\ pc' \in [Requests -> Labels] /\ reply' \in [Requests -> Nat]
        /\ pc'[r] # "smoke" /\ \A q \in Requests : q # r => pc'[q] = pc[q]
    <3>1. "new" \in Labels /\ 0 \in Nat
      BY Stages
    <3> QED BY <2>3, <3>1, Moves
  <2>5. UNCHANGED <<clock, limiter, restarts>> /\ failedOpen' = failedOpen + 0 /\ reading' = [reading EXCEPT ![r] = 0]
    BY <1>10 DEF UISmoke, TypeOK
  <2>6. plan' = plan \/ (plan[r].path = "smoke" /\ plan' = [plan EXCEPT ![r].path = "webhook"])
    BY <1>10 DEF UISmoke, TypeOK
  <2>7. "entries" \in DOMAIN ui'
    <3>0. "entries" \in DOMAIN ui
      BY DEF TypeOK
    <3>1. "entries" \in DOMAIN UISwept(ui, reading[r])
      <4>1. \A n, m : "entries" \in DOMAIN [entries |-> n, cleaned |-> m]
        OBVIOUS
      <4> QED BY <3>0, <4>1, Zenon DEF UISwept
    <3>2. \/ ui' = UISwept(ui, reading[r])
          \/ \E entry : ui' = [UISwept(ui, reading[r]) EXCEPT !.entries = Put(@, plan[r].ip, entry)]
      <4>1. ui' = uiAllow(ui, plan[r].ip, uiSmokeMaxRequestsPerMinute, reading[r]).table
        BY <1>10, Zenon DEF UISmoke
      <4> QED BY <4>1, UIAnswers
    <3>3. ASSUME NEW old, "entries" \in DOMAIN old, NEW new
          PROVE  "entries" \in DOMAIN [old EXCEPT !.entries = new]
      BY <3>3
    <3> QED BY <3>1, <3>2, <3>3, Zenon
  <2> QED BY <2>2, <2>4, <2>5, <2>6, <2>7, TypeCall
<1>11. ASSUME NEW r \in Requests, SaveOK(r) \/ SaveFails(r)
      PROVE  TypeOK'
  <2>1. Respond(r)
    BY <1>11 DEF SaveOK, SaveFails
  <2>2. pc' \in [Requests -> Labels] /\ \A q \in Requests : pc'[q] = "smoke" => pc[q] = "smoke"
    BY <1>0, <2>1 DEF Respond
  <2> QED BY <1>0, <2>1, <2>2, TypeQuiet DEF Respond
<1>12. CASE Tick
  <2>1. clock' = clock + 1 /\ clock \in Nat /\ clock' \in Windows /\ \A r \in Requests : reading[r] \in Nat
    BY <1>12, GatewayAssumption DEF Tick, TypeOK, Windows
  <2>2. \A r \in Requests : reading[r] <= clock'
    BY <2>1 DEF TypeOK
  <2> QED BY <1>12, <2>1, <2>2 DEF Tick, TypeOK, request, limits
<1>13. CASE Restart
  <2>1. pc' \in [Requests -> Labels] /\ \A q \in Requests : pc'[q] = "smoke" => pc[q] = "smoke"
    BY <1>0, <1>13 DEF Restart
  <2>2. /\ UNCHANGED <<plan, reading, reply, clock, limiter, admitted, late, failedOpen>>
        /\ restarts' = restarts + 1 /\ "entries" \in DOMAIN ui'
    BY <1>13 DEF Restart, newUISmokeRateLimiter
  <2> QED BY <2>1, <2>2 DEF TypeOK
<1>14. CASE UNCHANGED vars
  BY <1>0, <1>14, TypeQuiet DEF vars, request
<1> QED BY <1>1, <1>2, <1>3, <1>5, <1>6, <1>7, <1>8, <1>9, <1>10, <1>11, <1>12, <1>13, <1>14 DEF Next

----------------------------------------------------------------------------
(* The quota *)

LEMMA QuotaInit ==
    ASSUME Init
    PROVE  QuotaInv
<1>1. TypeOK
  BY TypeInit
<1>2. ASSUME NEW key \in Keys
      PROVE  KeyHolds(key)
  <2>1. /\ \A w \in Windows : admitted[key][w] = 0
        /\ ui.entries = EmptyTable /\ table = EmptyTable /\ DOMAIN EmptyTable = {}
    BY DEF Init, newUISmokeRateLimiter, EmptyTable, Windows
  <2>2. Extra(key) \in Nat /\ LimitOf(key) \in Nat /\ uiSmokeMaxRequestsPerMinute \in Nat /\ Overlap \in Nat
    BY <1>1, ExtraIsNat, LimitsAreNat, GatewayAssumption DEF Overlap
  <2>3. \A w \in Windows : /\ admitted[key][w] <= Extra(key)
                           /\ admitted[key][w] <= Extra(key) + LimitOf(key)
                           /\ admitted[key][w] <= Extra(key) + uiSmokeMaxRequestsPerMinute + Overlap
    BY <2>1, <2>2
  <2> HIDE DEF Overlap
  <2>4. UIHolds(admitted[key], Extra(key), ui.entries, key[2], clock)
    BY <2>1, <2>3 DEF UIHolds
  <2>5. MemoryHolds(admitted[key], Extra(key), LimitOf(key), table, key, clock)
    BY <2>1, <2>3 DEF MemoryHolds
  <2>6. \A w \in Windows : RedisHolds(admitted[key][w], Extra(key), LimitOf(key), table, key, w, clock)
    BY <2>1, <2>3 DEF RedisHolds
  <2> QED BY <2>4, <2>5, <2>6 DEF KeyHolds
<1> QED BY <1>2 DEF QuotaInv

LEMMA QuotaStep ==
    ASSUME TypeOK, QuotaInv, [Next]_vars
    PROVE  QuotaInv'
<1>1. clock \in Windows /\ clock <= clock
  BY WindowsAreTimes DEF TypeOK
<1>2. ASSUME UNCHANGED <<clock, limits, restarts>>
      PROVE  QuotaInv'
  <2>1. clock' \in Windows /\ clock <= clock' /\ restarts' = restarts
    BY <1>1, <1>2
  <2>2. UNCHANGED <<limiter, table, ui, admitted, late, failedOpen>>
    BY <1>2 DEF limits
  <2> QED BY <2>1, <2>2, QuotaQuiet
<1>3. ASSUME NEW r \in Requests, RateLimit(r)
      PROVE  QuotaInv'
  <2>1. PICK called \in Keys : called = RateKey(plan[r])
    BY DEF TypeOK
  <2>2. LimitOf(called) = RateLimitOf(plan[r]) /\ called[1] # "ui"
    BY <2>1, LimitsOfKeys DEF TypeOK
  <2>3. /\ \E then : Allow(r, called, LimitOf(called), then) \/ AllowFailsOpen(r, called, LimitOf(called), then)
        /\ clock' = clock /\ restarts' = restarts
    BY <1>3, <2>1, <2>2 DEF RateLimit
  <2> QED BY <2>2, <2>3, AllowKeeps, FailsOpenKeeps
<1>4. ASSUME NEW r \in Requests, SourceRateLimit(r)
      PROVE  QuotaInv'
  <2>1. PICK called \in Keys : called = SourceKey(plan[r])
    BY DEF TypeOK
  <2>2. LimitOf(called) = SourceLimit /\ called[1] # "ui"
    BY <2>1, LimitsOfKeys DEF TypeOK
  <2>3. /\ \E then : Allow(r, called, LimitOf(called), then) \/ AllowFailsOpen(r, called, LimitOf(called), then)
        /\ clock' = clock /\ restarts' = restarts
    BY <1>4, <2>1, <2>2 DEF SourceRateLimit
  <2> QED BY <2>2, <2>3, AllowKeeps, FailsOpenKeeps
<1>5. ASSUME NEW r \in Requests,
             \/ APIVersionMiddleware(r) \/ Chaos(r) \/ Cancel(r) \/ RequireAdmin(r)
             \/ HandleWebhook(r) \/ HandleAdmin(r) \/ HandleHealth(r) \/ UISmokeRead(r) \/ SaveOK(r) \/ SaveFails(r)
      PROVE  QuotaInv'
  <2>1. UNCHANGED <<clock, limits, restarts>>
    BY <1>5 DEF APIVersionMiddleware, Chaos, Cancel, RequireAdmin, HandleWebhook, HandleAdmin, HandleHealth,
                UISmokeRead, SaveOK, SaveFails, Respond
  <2> QED BY <1>2, <2>1
<1>6. CASE Tick
  <2>1. clock' \in Windows /\ clock <= clock' /\ restarts' = restarts
    BY <1>1, <1>6, GatewayAssumption DEF Tick, Windows
  <2>2. UNCHANGED <<limiter, table, ui, admitted, late, failedOpen>>
    BY <1>6 DEF Tick, limits
  <2> QED BY <2>1, <2>2, QuotaQuiet
<1>7. CASE UNCHANGED vars
  BY <1>2, <1>7 DEF vars
<1> QED BY <1>3, <1>4, <1>5, <1>6, <1>7, UISmokeKeeps, RestartKeeps DEF Next

LEMMA QuotaBounds ==
    ASSUME TypeOK, QuotaInv
    PROVE  AdmissionBound
<1>1. ASSUME NEW key \in Keys, NEW w \in Windows
      PROVE  admitted[key][w] <=
                LimitOf(key) * (1 + late[key] + (IF limiter = "memory" \/ key[1] = "ui" THEN restarts ELSE 0)) + failedOpen
  <2> DEFINE l == LimitOf(key)  n == late[key] + Lost(key)
  <2>1. l \in Nat /\ n \in Nat /\ failedOpen \in Nat /\ admitted[key][w] \in Nat
    BY LimitsAreNat DEF TypeOK, Lost
  <2>2. admitted[key][w] <= Extra(key) + l
    <3>1. CASE key[1] = "ui"
      <4>1. PICK p \in Plans, r \in Requests : key \in {RateKey(p[r]), SourceKey(p[r]), UIKey(p[r])}
        BY DEF Keys
      <4>2. l = uiSmokeMaxRequestsPerMinute + Overlap
        BY <3>1, <4>1, LimitsOfKeys, GatewayAssumption
      <4>3. admitted[key][w] <= Extra(key) + uiSmokeMaxRequestsPerMinute + Overlap
        BY <3>1 DEF QuotaInv, KeyHolds, UIHolds
      <4>4. uiSmokeMaxRequestsPerMinute \in Nat /\ Overlap \in Nat /\ Extra(key) \in Nat
        BY ExtraIsNat, GatewayAssumption DEF Overlap
      <4> HIDE DEF l
      <4> QED BY <4>2, <4>3, <4>4
    <3>2. CASE key[1] # "ui" /\ limiter = "memory"
      BY <3>2 DEF QuotaInv, KeyHolds, MemoryHolds
    <3>3. CASE key[1] # "ui" /\ limiter # "memory"
      BY <3>3 DEF QuotaInv, KeyHolds, RedisHolds
    <3> QED BY <3>1, <3>2, <3>3
  <2>3. Extra(key) = l * n + failedOpen
    BY DEF Extra
  <2>4. 1 + late[key] + (IF limiter = "memory" \/ key[1] = "ui" THEN restarts ELSE 0) = n + 1
    <3>1. late[key] \in Nat /\ Lost(key) \in Nat
      BY DEF TypeOK, Lost
    <3>2. 1 + late[key] + Lost(key) = n + 1
      BY <3>1
    <3> QED BY <3>2 DEF Lost
  <2> HIDE DEF l, n
  <2>5. l * (n + 1) = l * n + l /\ l * n \in Nat
    BY <2>1
  <2>6. admitted[key][w] <= l * (n + 1) + failedOpen
    BY <2>1, <2>2, <2>3, <2>5
  <2> QED BY <2>4, <2>6 DEF l
<1> QED BY <1>1 DEF AdmissionBound, Windows

(* In every window the limiters admit of a key at most what AdmissionBound  *)
(* allows, in any number of requests, windows, sweeps and restarts, for any *)
(* limits and any length of a window, whichever limiter is in use.          *)
THEOREM AdmissionsBounded == Spec => []AdmissionBound
<1>1. Init => TypeOK /\ QuotaInv
  BY TypeInit, QuotaInit
<1>2. TypeOK /\ QuotaInv /\ [Next]_vars => TypeOK' /\ QuotaInv'
  BY TypeStep, QuotaStep
<1>3. TypeOK /\ QuotaInv => AdmissionBound
  BY QuotaBounds
<1> QED BY <1>1, <1>2, <1>3, PTL DEF Spec

----------------------------------------------------------------------------
(* Refusals *)

LEMMA MemoryRefuses ==
    ASSUME NEW used \in [Windows -> Nat], NEW extra, NEW limit \in Nat, NEW counters, NEW key, NEW sweep,
           NEW now, NEW x \in Nat, windowStart(x) \in Windows,
           MemoryHolds(used, extra, limit, counters, key, now),
           ~MemoryAllow(counters, key, limit, x, sweep).ok
    PROVE  used[windowStart(x)] >= limit
<1>1. limit <= 0 \/ (key \in DOMAIN counters /\ counters[key].start = windowStart(x) /\ counters[key].count >= limit)
  BY DEF MemoryAllow
<1>2. used[windowStart(x)] \in Nat
  OBVIOUS
<1>3. ASSUME key \in DOMAIN counters, counters[key].start = windowStart(x)
      PROVE  counters[key].count \in 1 .. limit /\ counters[key].count <= used[windowStart(x)]
  BY <1>3 DEF MemoryHolds
<1> QED BY <1>1, <1>2, <1>3

LEMMA RedisRefuses ==
    ASSUME NEW used \in Nat, NEW extra, NEW limit \in Nat, NEW counters, NEW key,
           NEW now, NEW x \in Nat,
           RedisHolds(used, extra, limit, counters, key, windowStart(x), now),
           ~RedisAllow(counters, key, limit, x, now).ok
    PROVE  used >= limit
<1> DEFINE k == <<key, windowStart(x)>>
<1>1. CASE limit <= 0
  BY <1>1
<1>2. CASE ~(limit <= 0)
  <2>1. ~((IF k \in DOMAIN counters THEN counters[k].count + 1 ELSE 1) <= limit)
    BY <1>2, Zenon DEF RedisAllow
  <2>2. k \in DOMAIN counters /\ ~(counters[k].count + 1 <= limit)
    BY <1>2, <2>1
  <2>3. counters[k].count \in Nat \ {0} /\ Least(counters[k].count, limit) <= used
    BY <2>2 DEF RedisHolds
  <2> QED BY <2>2, <2>3 DEF Least
<1> QED BY <1>1, <1>2

(* A request that has no response yet was not refused. *)
InFlight == {"new", "chaos", "rate", "source", "auth", "handler", "smoke"}

NotRefused == \A r \in Requests : pc[r] \in InFlight => reply[r] # 429

LEMMA NotRefusedStep ==
    ASSUME TypeOK, NotRefused, [Next]_vars
    PROVE  NotRefused'
<1>0. pc \in [Requests -> Labels] /\ reply \in [Requests -> Nat] /\ "audit" \notin InFlight /\ "done" \notin InFlight
      /\ "dead" \notin InFlight
  BY DEF TypeOK, InFlight
<1>1. ASSUME NEW r \in Requests, NEW label, Goto(r, label), pc[r] \in InFlight
      PROVE  NotRefused'
  BY <1>0, <1>1 DEF Goto, NotRefused
<1>2. ASSUME NEW r \in Requests, NEW status, Answer(r, status) \/ Record(r, status)
      PROVE  NotRefused'
  BY <1>0, <1>2 DEF Answer, Record, NotRefused
<1>3. ASSUME NEW r \in Requests, RateLimit(r) \/ SourceRateLimit(r)
      PROVE  NotRefused'
  <2>1. pc[r] \in InFlight /\ ((\E label : Goto(r, label)) \/ Record(r, 429))
    BY <1>3 DEF RateLimit, SourceRateLimit, Allow, AllowFailsOpen, InFlight
  <2> QED BY <1>1, <1>2, <2>1
<1>4. ASSUME NEW r \in Requests, APIVersionMiddleware(r) \/ Chaos(r) \/ RequireAdmin(r) \/ UISmokeRead(r) \/ UISmoke(r)
      PROVE  NotRefused'
  <2>1. /\ pc[r] \in InFlight
        /\ (\E label : Goto(r, label)) \/ (\E status : Answer(r, status)) \/ (\E status : Record(r, status))
    BY <1>4 DEF APIVersionMiddleware, Chaos, RequireAdmin, UISmokeRead, UISmoke, InFlight
  <2> QED BY <1>1, <1>2, <2>1
<1>5. ASSUME NEW r \in Requests, HandleWebhook(r) \/ HandleAdmin(r) \/ HandleHealth(r)
      PROVE  NotRefused'
  <2>1. \E status : Answer(r, status) \/ Record(r, status)
    BY <1>5 DEF HandleWebhook, HandleAdmin, HandleHealth
  <2> QED BY <1>2, <2>1
<1>6. ASSUME NEW r \in Requests, SaveOK(r) \/ SaveFails(r)
      PROVE  NotRefused'
  BY <1>0, <1>6 DEF SaveOK, SaveFails, Respond, NotRefused
<1>7. ASSUME UNCHANGED <<pc, reply>>
      PROVE  NotRefused'
  BY <1>7 DEF NotRefused
<1>8. ASSUME NEW r \in Requests, Cancel(r)
      PROVE  NotRefused'
  BY <1>7, <1>8 DEF Cancel
<1>9. CASE Tick \/ UNCHANGED vars
  BY <1>7, <1>9 DEF Tick, vars, request
<1>10. CASE Restart
  BY <1>0, <1>10 DEF Restart, NotRefused
<1> QED BY <1>3, <1>4, <1>5, <1>6, <1>8, <1>9, <1>10 DEF Next

(* The call that refuses, of either limiter. *)
LEMMA AllowRefuses ==
    ASSUME TypeOK, QuotaInv, NEW r \in Requests, NEW called \in Keys, called[1] # "ui", NEW then,
           reply[r] # 429, reply'[r] = 429,
           Allow(r, called, LimitOf(called), then) \/ AllowFailsOpen(r, called, LimitOf(called), then)
    PROVE  admitted[called][windowStart(reading[r])] >= LimitOf(called)
<1> DEFINE x      == reading[r]
           limit  == LimitOf(called)
           sweep  == (hits + 1) % CleanupN = 0
           live   == RedisExpired(table, clock)
           memory == MemoryAllow(table, called, limit, x, sweep)
           redis  == RedisAllow(live, called, limit, x, clock)
<1>1. /\ x \in Nat /\ x <= clock /\ clock \in Windows /\ windowStart(x) \in Windows /\ limit \in Nat
      /\ admitted[called] \in [Windows -> Nat] /\ Extra(called) \in Nat
  <2>1. x \in Nat /\ x <= clock /\ clock \in Windows /\ admitted[called] \in [Windows -> Nat]
    BY DEF TypeOK
  <2> QED BY <2>1, WindowCounted, LimitsAreNat, ExtraIsNat
<1>2. ~Goto(r, then)
  BY DEF Goto
<1>3. IF limiter = "memory" THEN ~memory.ok ELSE ~redis.ok
  BY <1>2 DEF Allow, AllowFailsOpen
<1>4. CASE limiter = "memory"
  <2>1. MemoryHolds(admitted[called], Extra(called), limit, table, called, clock)
    BY <1>4 DEF QuotaInv, KeyHolds
  <2>2. ~memory.ok
    BY <1>3, <1>4
  <2> HIDE DEF x, limit, sweep
  <2>3. admitted[called][windowStart(x)] >= limit
    BY <1>1, <2>1, <2>2, MemoryRefuses
  <2> QED BY <2>3 DEF x, limit
<1>5. CASE limiter # "memory"
  <2>1. RedisHolds(admitted[called][windowStart(x)], Extra(called), limit, table, called, windowStart(x), clock)
    BY <1>1, <1>5 DEF QuotaInv, KeyHolds
  <2>2. ~redis.ok /\ admitted[called][windowStart(x)] \in Nat
    BY <1>1, <1>3, <1>5
  <2> HIDE DEF x, limit
  <2>3. RedisHolds(admitted[called][windowStart(x)], Extra(called), limit, live, called, windowStart(x), clock)
    BY <1>1, <2>1, <2>2, RedisExpires
  <2> HIDE DEF live
  <2>4. admitted[called][windowStart(x)] >= limit
    BY <1>1, <2>2, <2>3, RedisRefuses
  <2> QED BY <2>4 DEF x, limit
<1> QED BY <1>4, <1>5

LEMMA RefusalStep ==
    ASSUME TypeOK, QuotaInv, NotRefused, Next,
           NEW r \in Requests, pc[r] \in {"rate", "source"}, reply'[r] = 429
    PROVE  LET k == IF pc[r] = "rate" THEN RateKey(plan[r]) ELSE SourceKey(plan[r])
           IN  admitted[k][windowStart(reading[r])] >= LimitOf(k)
<1>1. reply[r] # 429 /\ reply \in [Requests -> Nat] /\ plan[r] \in Plan
  BY DEF NotRefused, InFlight, TypeOK
<1>2. ASSUME NEW q \in Requests, q # r,
             (\E label : Goto(q, label)) \/ (\E status : Answer(q, status)) \/ (\E status : Record(q, status))
      PROVE  FALSE
  BY <1>1, <1>2 DEF Goto, Answer, Record
<1>3. ASSUME reply' = reply
      PROVE  FALSE
  BY <1>1, <1>3
<1>4. ASSUME NEW q \in Requests, RateLimit(q)
      PROVE  RateLimit(r) /\ pc[r] = "rate"
  <2>1. (\E label : Goto(q, label)) \/ Record(q, 429)
    BY <1>4 DEF RateLimit, Allow, AllowFailsOpen
  <2>2. q = r
    BY <1>2, <2>1
  <2> QED BY <1>4, <2>2 DEF RateLimit
<1>5. ASSUME NEW q \in Requests, SourceRateLimit(q)
      PROVE  SourceRateLimit(r) /\ pc[r] = "source"
  <2>1. (\E label : Goto(q, label)) \/ Record(q, 429)
    BY <1>5 DEF SourceRateLimit, Allow, AllowFailsOpen
  <2>2. q = r
    BY <1>2, <2>1
  <2> QED BY <1>5, <2>2 DEF SourceRateLimit
<1>6. ASSUME NEW q \in Requests,
             \/ APIVersionMiddleware(q) \/ Chaos(q) \/ RequireAdmin(q) \/ UISmokeRead(q) \/ UISmoke(q)
             \/ HandleWebhook(q) \/ HandleAdmin(q) \/ HandleHealth(q)
      PROVE  FALSE
  <2>1. pc[q] \notin {"rate", "source"}
    BY <1>6 DEF APIVersionMiddleware, Chaos, RequireAdmin, UISmokeRead, UISmoke, HandleWebhook, HandleAdmin, HandleHealth
  <2>2. (\E label : Goto(q, label)) \/ (\E status : Answer(q, status)) \/ (\E status : Record(q, status))
    BY <1>6 DEF APIVersionMiddleware, Chaos, RequireAdmin, UISmokeRead, UISmoke, HandleWebhook, HandleAdmin, HandleHealth
  <2> QED BY <1>2, <2>1, <2>2
<1>7. /\ \A q \in Requests : ~Cancel(q) /\ ~SaveOK(q) /\ ~SaveFails(q)
      /\ ~Tick /\ ~Restart
  BY <1>3 DEF Cancel, SaveOK, SaveFails, Respond, Tick, Restart, request
<1>8. (RateLimit(r) /\ pc[r] = "rate") \/ (SourceRateLimit(r) /\ pc[r] = "source")
  <2>1. \E q \in Requests : RateLimit(q) \/ SourceRateLimit(q)
    BY <1>6, <1>7, Zenon DEF Next
  <2> QED BY <1>4, <1>5, <2>1
<1>9. CASE RateLimit(r) /\ pc[r] = "rate"
  <2>1. PICK called \in Keys : called = RateKey(plan[r])
    BY DEF TypeOK
  <2>2. LimitOf(called) = RateLimitOf(plan[r]) /\ called[1] # "ui"
    BY <1>1, <2>1, LimitsOfKeys
  <2>3. \E then : Allow(r, called, LimitOf(called), then) \/ AllowFailsOpen(r, called, LimitOf(called), then)
    BY <1>9, <2>1, <2>2 DEF RateLimit
  <2>4. admitted[called][windowStart(reading[r])] >= LimitOf(called)
    BY <1>1, <2>2, <2>3, AllowRefuses
  <2> QED BY <1>9, <2>1, <2>4
<1>10. CASE SourceRateLimit(r) /\ pc[r] = "source"
  <2>1. PICK called \in Keys : called = SourceKey(plan[r])
    BY DEF TypeOK
  <2>2. LimitOf(called) = SourceLimit /\ called[1] # "ui"
    BY <1>1, <2>1, LimitsOfKeys
  <2>3. \E then : Allow(r, called, LimitOf(called), then) \/ AllowFailsOpen(r, called, LimitOf(called), then)
    BY <1>10, <2>1, <2>2 DEF SourceRateLimit
  <2>4. admitted[called][windowStart(reading[r])] >= LimitOf(called)
    BY <1>1, <2>2, <2>3, AllowRefuses
  <2> QED BY <1>10, <2>1, <2>4
<1> QED BY <1>8, <1>9, <1>10

(* A limiter of the chain answers 429 only to a key that was admitted as    *)
(* often as its limit says in the window the call was counted in: no        *)
(* client is refused for the calls of another, or of another window.        *)
THEOREM RefusalsNotEarly == Spec => NoEarlyRefusal
<1>1. Init => TypeOK /\ QuotaInv /\ NotRefused
  <2>1. Init => NotRefused
    BY DEF Init, NotRefused
  <2> QED BY <2>1, TypeInit, QuotaInit
<1>2. TypeOK /\ QuotaInv /\ NotRefused /\ [Next]_vars => TypeOK' /\ QuotaInv' /\ NotRefused'
  BY TypeStep, QuotaStep, NotRefusedStep
<1> DEFINE Justified ==
             \A r \in Requests :
                pc[r] \in {"rate", "source"} /\ reply'[r] = 429 =>
                   LET k == IF pc[r] = "rate" THEN RateKey(plan[r]) ELSE SourceKey(plan[r])
                   IN  admitted[k][windowStart(reading[r])] >= LimitOf(k)
<1>3. TypeOK /\ QuotaInv /\ NotRefused /\ [Next]_vars => [Justified]_vars
  BY RefusalStep
<1> QED BY <1>1, <1>2, <1>3, PTL DEF Spec, NoEarlyRefusal

----------------------------------------------------------------------------
(* The checks on the way *)

(* What a request has passed when it is past a stage; only what has left    *)
(* the chain was forwarded.                                                 *)
Passed(r) ==
    /\ pc[r] \in {"chaos", "rate", "source", "auth", "handler", "smoke"} => "version" \notin plan[r].bad
    /\ pc[r] = "handler" => RequireAdminCIDRAllowlist(plan[r]) /\ RequireAdminJWT(plan[r])

GateInv ==
    /\ \A r \in Requests : Passed(r)
    /\ forwarded \subseteq Requests
    /\ \A r \in forwarded : pc[r] \in {"audit", "done", "dead"}

(* A request that leaves the chain is forwarded only past every check. *)
LEMMA GateLeaves ==
    ASSUME TypeOK, GateInv, GateKept, NEW r \in Requests, NEW label \in {"audit", "done"},
           pc' = [pc EXCEPT ![r] = label], plan' = plan,
           \/ forwarded' = forwarded
           \/ /\ forwarded' = forwarded \cup {r}
              /\ plan[r].bad \cap (IF plan[r].path = "webhook"
                                   THEN {"version", "method", "body", "signature", "schema"}
                                   ELSE {"version", "cidr", "jwt"}) = {}
    PROVE  GateInv' /\ GateKept'
<1>1. pc \in [Requests -> Labels] /\ pc'[r] = label /\ \A q \in Requests : q # r => pc'[q] = pc[q]
  BY DEF TypeOK
<1>2. \A q \in Requests : Passed(q)'
  BY <1>1 DEF GateInv, Passed
<1>3. forwarded' \subseteq Requests /\ \A q \in forwarded' : pc'[q] \in {"audit", "done", "dead"}
  BY <1>1 DEF GateInv
<1> QED BY <1>2, <1>3 DEF GateInv, GateKept

(* A request that goes on inside the chain was not forwarded. *)
LEMMA GateGoes ==
    ASSUME TypeOK, GateInv, GateKept, NEW r \in Requests, NEW label, Goto(r, label),
           pc[r] \notin {"audit", "done", "dead"}, plan' = plan, forwarded' = forwarded, Passed(r)'
    PROVE  GateInv' /\ GateKept'
<1>1. r \notin forwarded /\ \A q \in Requests : q # r => pc'[q] = pc[q]
  BY DEF TypeOK, GateInv, Goto
<1>2. \A q \in Requests : Passed(q)'
  BY <1>1 DEF GateInv, Passed
<1>3. \A q \in forwarded' : pc'[q] \in {"audit", "done", "dead"}
  BY <1>1 DEF GateInv
<1> QED BY <1>2, <1>3 DEF GateInv, GateKept

LEMMA GateStep ==
    ASSUME TypeOK, GateInv, GateKept, [Next]_vars
    PROVE  GateInv' /\ GateKept'
<1>0. /\ pc \in [Requests -> Labels] /\ plan \in [Requests -> Plan]
      /\ \A r \in Requests : Passed(r) /\ plan[r] \in Plan
  BY DEF TypeOK, GateInv
<1>1. ASSUME NEW r \in Requests, (\E status : Answer(r, status)) \/ (\E status : Record(r, status)),
             plan' = plan, forwarded' = forwarded
      PROVE  GateInv' /\ GateKept'
  <2>1. \E label \in {"audit", "done"} : pc' = [pc EXCEPT ![r] = label]
    BY <1>1 DEF Answer, Record
  <2> QED BY <1>1, <2>1, GateLeaves
<1>2. ASSUME NEW r \in Requests, APIVersionMiddleware(r)
      PROVE  GateInv' /\ GateKept'
  <2>1. plan' = plan /\ forwarded' = forwarded /\ pc[r] = "new"
    BY <1>2 DEF APIVersionMiddleware
  <2>2. CASE "version" \in plan[r].bad
    BY <1>1, <1>2, <2>1, <2>2 DEF APIVersionMiddleware
  <2>3. CASE "version" \notin plan[r].bad
    <3>1. Goto(r, "chaos")
      BY <1>2, <2>3 DEF APIVersionMiddleware
    <3>2. Passed(r)'
      BY <1>0, <2>1, <2>3, <3>1 DEF Passed, Goto
    <3> QED BY <2>1, <3>1, <3>2, GateGoes
  <2> QED BY <2>2, <2>3
<1>3. ASSUME NEW r \in Requests, Chaos(r)
      PROVE  GateInv' /\ GateKept'
  <2>1. plan' = plan /\ forwarded' = forwarded /\ pc[r] = "chaos" /\ (Answer(r, 500) \/ Goto(r, "rate"))
    BY <1>3 DEF Chaos
  <2>2. ASSUME Goto(r, "rate")
        PROVE  Passed(r)'
    BY <1>0, <2>1, <2>2 DEF Passed, Goto
  <2> QED BY <1>1, <2>1, <2>2, GateGoes
<1>4. ASSUME NEW r \in Requests, RateLimit(r)
      PROVE  GateInv' /\ GateKept'
  <2>1. plan' = plan /\ forwarded' = forwarded /\ pc[r] = "rate" /\ (Record(r, 429) \/ Goto(r, AfterRate(plan[r])))
    BY <1>4 DEF RateLimit, Allow, AllowFailsOpen
  <2>2. ASSUME Goto(r, AfterRate(plan[r]))
        PROVE  Passed(r)'
    <3>1. pc'[r] = AfterRate(plan[r]) /\ "version" \notin plan[r].bad
      BY <1>0, <2>1, <2>2 DEF Passed, Goto
    <3>2. AfterRate(plan[r]) = "handler" => ~isAdminPath(plan[r].path)
      BY DEF AfterRate, AfterSource
    <3> QED BY <2>1, <3>1, <3>2 DEF Passed, RequireAdminCIDRAllowlist, RequireAdminJWT
  <2> QED BY <1>1, <2>1, <2>2, GateGoes
<1>5. ASSUME NEW r \in Requests, SourceRateLimit(r)
      PROVE  GateInv' /\ GateKept'
  <2>1. plan' = plan /\ forwarded' = forwarded /\ pc[r] = "source" /\ (Record(r, 429) \/ Goto(r, AfterSource(plan[r])))
    BY <1>5 DEF SourceRateLimit, Allow, AllowFailsOpen
  <2>2. ASSUME Goto(r, AfterSource(plan[r]))
        PROVE  Passed(r)'
    <3>1. pc'[r] = AfterSource(plan[r]) /\ "version" \notin plan[r].bad
      BY <1>0, <2>1, <2>2 DEF Passed, Goto
    <3>2. AfterSource(plan[r]) = "handler" => ~isAdminPath(plan[r].path)
      BY DEF AfterSource
    <3> QED BY <2>1, <3>1, <3>2 DEF Passed, RequireAdminCIDRAllowlist, RequireAdminJWT
  <2> QED BY <1>1, <2>1, <2>2, GateGoes
<1>6. ASSUME NEW r \in Requests, RequireAdmin(r)
      PROVE  GateInv' /\ GateKept'
  <2>1. /\ plan' = plan /\ forwarded' = forwarded /\ pc[r] = "auth"
        /\ \/ Record(r, 403) \/ Record(r, 401)
           \/ Goto(r, "handler") /\ RequireAdminCIDRAllowlist(plan[r]) /\ RequireAdminJWT(plan[r])
    BY <1>6 DEF RequireAdmin
  <2>2. ASSUME Goto(r, "handler"), RequireAdminCIDRAllowlist(plan[r]), RequireAdminJWT(plan[r])
        PROVE  Passed(r)'
    BY <1>0, <2>1, <2>2 DEF Passed, Goto, RequireAdminCIDRAllowlist, RequireAdminJWT
  <2> QED BY <1>1, <2>1, <2>2, GateGoes
<1>7. ASSUME NEW r \in Requests, HandleWebhook(r)
      PROVE  GateInv' /\ GateKept'
  <2>1. plan' = plan /\ pc[r] = "handler" /\ plan[r].path = "webhook"
    BY <1>7 DEF HandleWebhook
  <2>2. CASE forwarded' = forwarded
    <3>1. (\E status : Answer(r, status)) \/ (\E status : Record(r, status))
      BY <1>7 DEF HandleWebhook
    <3> QED BY <1>1, <2>1, <2>2, <3>1
  <2>3. CASE forwarded' # forwarded
    <3>1. /\ forwarded' = forwarded \cup {r} /\ Answer(r, 202)
          /\ ~rejectMethod(plan[r]) /\ readBody(plan[r]) /\ Authentic(plan[r]) /\ ValidateSchema(plan[r])
      BY <1>7, <2>3 DEF HandleWebhook
    <3>2. "version" \notin plan[r].bad
      BY <1>0, <2>1 DEF Passed
    <3>3. plan[r].bad \cap {"version", "method", "body", "signature", "schema"} = {}
      BY <3>1, <3>2 DEF rejectMethod, readBody, Authentic, ValidateSlack, ValidateSchema
    <3>4. pc' = [pc EXCEPT ![r] = "done"]
      BY <3>1 DEF Answer
    <3> QED BY <2>1, <3>1, <3>3, <3>4, GateLeaves
  <2> QED BY <2>2, <2>3
<1>8. ASSUME NEW r \in Requests, HandleAdmin(r)
      PROVE  GateInv' /\ GateKept'
  <2>1. plan' = plan /\ pc[r] = "handler" /\ plan[r].path \in {"admin", "adminV1"} /\ forwarded' = forwarded \cup {r}
    BY <1>8 DEF HandleAdmin
  <2>2. \E label \in {"audit", "done"} : pc' = [pc EXCEPT ![r] = label]
    BY <1>8 DEF HandleAdmin, Answer, Record
  <2>3. plan[r].bad \cap {"version", "cidr", "jwt"} = {} /\ plan[r].path # "webhook"
    BY <1>0, <2>1 DEF Passed, RequireAdminCIDRAllowlist, RequireAdminJWT, isAdminPath
  <2> QED BY <2>1, <2>2, <2>3, GateLeaves
<1>9. ASSUME NEW r \in Requests, HandleHealth(r)
      PROVE  GateInv' /\ GateKept'
  <2>1. plan' = plan /\ forwarded' = forwarded /\ \E status : Answer(r, status)
    BY <1>9 DEF HandleHealth
  <2> QED BY <1>1, <2>1
<1>10. ASSUME NEW r \in Requests, UISmokeRead(r)
      PROVE  GateInv' /\ GateKept'
  <2>1. plan' = plan /\ forwarded' = forwarded /\ pc[r] = "handler" /\ Goto(r, "smoke")
    BY <1>10 DEF UISmokeRead
  <2>2. Passed(r)'
    BY <1>0, <2>1 DEF Passed, Goto
  <2> QED BY <2>1, <2>2, GateGoes
<1>11. ASSUME NEW r \in Requests, UISmoke(r)
      PROVE  GateInv' /\ GateKept'
  <2>1. forwarded' = forwarded /\ pc[r] = "smoke"
    BY <1>11 DEF UISmoke
  <2>2. CASE plan' = plan /\ \E status : Answer(r, status)
    BY <1>1, <2>1, <2>2
  <2>3. CASE Goto(r, "new") /\ plan' = [plan EXCEPT ![r].path = "webhook"]
    <3>1. r \notin forwarded
      BY <2>1 DEF GateInv
    <3>2. \A q \in Requests : q # r => plan'[q] = plan[q] /\ pc'[q] = pc[q]
      BY <1>0, <2>3 DEF Goto
    <3>3. pc'[r] = "new"
      BY <1>0, <2>3 DEF Goto
    <3>4. \A q \in Requests : Passed(q)'
      BY <1>0, <3>2, <3>3 DEF Passed
    <3>5. \A q \in forwarded : q \in Requests /\ q # r
      BY <3>1 DEF GateInv
    <3>6. GateInv'
      BY <2>1, <3>2, <3>4, <3>5 DEF GateInv
    <3>7. GateKept'
      BY <2>1, <3>2, <3>5 DEF GateKept
    <3> QED BY <3>6, <3>7
  <2> QED BY <1>11, <2>2, <2>3 DEF UISmoke
<1>12. ASSUME NEW r \in Requests, SaveOK(r) \/ SaveFails(r)
      PROVE  GateInv' /\ GateKept'
  <2>1. plan' = plan /\ forwarded' = forwarded /\ pc' = [pc EXCEPT ![r] = "done"]
    BY <1>12 DEF SaveOK, SaveFails, Respond
  <2> QED BY <2>1, GateLeaves
<1>13. ASSUME UNCHANGED <<plan, forwarded, pc>>
      PROVE  GateInv' /\ GateKept'
  BY <1>13 DEF GateInv, GateKept, Passed
<1>14. ASSUME NEW r \in Requests, Cancel(r)
      PROVE  GateInv' /\ GateKept'
  BY <1>13, <1>14 DEF Cancel
<1>15. CASE Tick \/ UNCHANGED vars
  BY <1>13, <1>15 DEF Tick, vars, request
<1>16. CASE Restart
  <2>1. /\ plan' = plan /\ forwarded' = forwarded
        /\ \A q \in Requests : pc'[q] = (IF pc[q] \in {"new", "done"} THEN pc[q] ELSE "dead")
    BY <1>16 DEF Restart
  <2>2. \A q \in Requests : Passed(q)'
    BY <2>1 DEF Passed
  <2>3. \A q \in forwarded' : pc'[q] \in {"audit", "done", "dead"}
    BY <2>1 DEF GateInv
  <2> QED BY <2>1, <2>2, <2>3 DEF GateInv, GateKept
<1> QED BY <1>2, <1>3, <1>4, <1>5, <1>6, <1>7, <1>8, <1>9, <1>10, <1>11, <1>12, <1>14, <1>15, <1>16 DEF Next

(* What reached the queue or an admin route passed every check that its     *)
(* path asks for, a delivery of the smoke tests included, which goes        *)
(* through the chain a second time.                                         *)
THEOREM GateIsKept == Spec => []GateKept
<1>1. Init => GateInv /\ GateKept
  BY DEF Init, GateInv, GateKept, Passed
<1>2. TypeOK /\ GateInv /\ GateKept /\ [Next]_vars => TypeOK' /\ GateInv' /\ GateKept'
  BY TypeStep, GateStep
<1> QED BY <1>1, <1>2, TypeInit, PTL DEF Spec

----------------------------------------------------------------------------
(* The audit store *)

AuditLines == [who : Requests, at : Nat]

(* A store in which nobody has two records. *)
Store(s) ==
    /\ s \in [lines : Seq(AuditLines), torn : BOOLEAN, pruned : Nat \cup {NeverPruned}]
    /\ \A i, j \in DOMAIN s.lines : s.lines[i].who = s.lines[j].who => i = j

On(lines) == {lines[i] : i \in DOMAIN lines}

(* Each place of a finite set is the k-th for one k. *)
LEMMA NthOf ==
    ASSUME NEW S \in SUBSET Nat, IsFiniteSet(S)
    PROVE  /\ Cardinality(S) \in Nat
           /\ \A k \in 1 .. Cardinality(S) : Nth(S, k) \in S
           /\ \A i \in S : \E k \in 1 .. Cardinality(S) : Nth(S, k) = i
           /\ \A k, l \in 1 .. Cardinality(S) : Nth(S, k) = Nth(S, l) => k = l
<1> DEFINE below(i) == {j \in S : j < i}
           n == Cardinality(S)
           rank == [i \in S |-> Cardinality(below(i))]
<1>1. n \in Nat /\ \A i \in S : IsFiniteSet(below(i)) /\ Cardinality(below(i)) \in Nat
  BY FS_Subset, FS_CardinalityType
<1>2. ASSUME NEW i \in S PROVE Cardinality(below(i)) < n
  <2>1. below(i) \in SUBSET S /\ below(i) # S
    OBVIOUS
  <2>2. Cardinality(below(i)) <= n /\ Cardinality(below(i)) # n
    BY <2>1, FS_Subset
  <2> QED BY <2>2, <1>1
<1>3. ASSUME NEW i \in S, NEW j \in S, i < j PROVE Cardinality(below(i)) < Cardinality(below(j))
  <2>1. i \in Nat /\ j \in Nat /\ \A k \in S : k \in Nat
    OBVIOUS
  <2>2. below(i) \in SUBSET below(j) /\ i \in below(j) /\ i \notin below(i)
    <3>1. ASSUME NEW k \in S, k < i PROVE k < j
      BY <3>1, <2>1, <1>3
    <3>2. i < j /\ ~(i < i)
      BY <2>1, <1>3
    <3> QED BY <3>1, <3>2
  <2>3. Cardinality(below(i)) <= Cardinality(below(j)) /\ Cardinality(below(i)) # Cardinality(below(j))
    <3> HIDE DEF below
    <3> QED BY <2>2, <1>1, FS_Subset
  <2> QED BY <2>3, <1>1
<1>4. \A i, j \in S : i < j \/ i = j \/ j < i
  OBVIOUS
<1>5. \A i, j \in S : Cardinality(below(i)) = Cardinality(below(j)) => i = j
  BY <1>1, <1>3, <1>4
<1>6. rank \in Surjection(S, 0 .. (n - 1))
  <2>1. IsFiniteSet(0 .. (n - 1)) /\ Cardinality(0 .. (n - 1)) = n
    <3>1. \A m \in Nat : IsFiniteSet(0 .. (m - 1)) /\ Cardinality(0 .. (m - 1)) = m
      BY FS_Interval
    <3> QED BY <3>1, <1>1, Zenon
  <2>2. rank \in [S -> 0 .. (n - 1)]
    BY <1>1, <1>2
  <2>3. rank \in Injection(S, 0 .. (n - 1))
    BY <2>2, <1>5 DEF Injection, IsInjective
  <2> HIDE DEF rank
  <2> QED BY <2>1, <2>3, FS_Injection
<1>7. ASSUME NEW k \in 1 .. n PROVE Nth(S, k) \in S /\ Cardinality(below(Nth(S, k))) = k - 1
  <2>1. k - 1 \in 0 .. (n - 1)
    BY <1>1
  <2>2. \E i \in S : Cardinality(below(i)) = k - 1
    BY <2>1, <1>6 DEF Surjection
  <2> QED BY <2>2 DEF Nth
<1>8. ASSUME NEW i \in S PROVE \E k \in 1 .. n : Nth(S, k) = i
  <2>1. PICK k \in 1 .. n : k - 1 = Cardinality(below(i))
    <3>1. Cardinality(below(i)) + 1 \in 1 .. n /\ (Cardinality(below(i)) + 1) - 1 = Cardinality(below(i))
      BY <1>1, <1>2
    <3> QED BY <3>1
  <2>2. Nth(S, k) \in S /\ Cardinality(below(Nth(S, k))) = Cardinality(below(i))
    BY <2>1, <1>7
  <2>3. Nth(S, k) = i
    BY <2>2, <1>5
  <2> QED BY <2>3
<1>9. ASSUME NEW k \in 1 .. n, NEW l \in 1 .. n, Nth(S, k) = Nth(S, l) PROVE k = l
  <2>1. k - 1 = l - 1
    BY <1>7, <1>9
  <2> QED BY <2>1, <1>1
<1> QED BY <1>1, <1>7, <1>8, <1>9

(* Filtering by age drops what is expired, and nothing else. *)
LEMMA LinesLive ==
    ASSUME NEW lines \in Seq(AuditLines), NEW now
    PROVE  LET live == LiveLines(lines, now)
           IN  /\ live \in Seq(AuditLines)
               /\ On(live) = {l \in On(lines) : ~isExpired(l, now)}
               /\ (\A i, j \in DOMAIN lines : lines[i].who = lines[j].who => i = j) =>
                      \A i, j \in DOMAIN live : live[i].who = live[j].who => i = j
<1> DEFINE S == Live(lines, now)
           n == Cardinality(S)
           live == LiveLines(lines, now)
<1>1. DOMAIN lines = 1 .. Len(lines) /\ Len(lines) \in Nat /\ \A i \in DOMAIN lines : lines[i] \in AuditLines
  OBVIOUS
<1>2. IsFiniteSet(S) /\ S \in SUBSET Nat /\ S \in SUBSET DOMAIN lines
  <2>1. \A m \in Nat : IsFiniteSet(1 .. m)
    BY FS_Interval
  <2>2. IsFiniteSet(DOMAIN lines) /\ DOMAIN lines \in SUBSET Nat /\ S \in SUBSET DOMAIN lines
    BY <2>1, <1>1 DEF Live
  <2> QED BY <2>2, FS_Subset
<1>3. /\ n \in Nat
      /\ \A k \in 1 .. n : Nth(S, k) \in S
      /\ \A i \in S : \E k \in 1 .. n : Nth(S, k) = i
      /\ \A k, l \in 1 .. n : Nth(S, k) = Nth(S, l) => k = l
  BY <1>2, NthOf
<1>4. live \in [1 .. n -> AuditLines] /\ \A k \in 1 .. n : live[k] = lines[Nth(S, k)]
  BY <1>1, <1>2, <1>3 DEF LiveLines
<1>5. live \in Seq(AuditLines) /\ DOMAIN live = 1 .. n
  <2> HIDE DEF n, live
  <2> QED BY <1>3, <1>4
<1>6. On(live) = {l \in On(lines) : ~isExpired(l, now)}
  <2>1. ASSUME NEW k \in DOMAIN live
        PROVE  live[k] \in On(lines) /\ ~isExpired(live[k], now)
    <3>1. live[k] = lines[Nth(S, k)] /\ Nth(S, k) \in S
      BY <1>3, <1>4, <1>5
    <3> QED BY <3>1 DEF On, Live
  <2>2. ASSUME NEW i \in DOMAIN lines, ~isExpired(lines[i], now)
        PROVE  lines[i] \in On(live)
    <3>1. i \in S
      BY <2>2 DEF Live
    <3>2. PICK k \in 1 .. n : Nth(S, k) = i
      BY <3>1, <1>3
    <3> QED BY <3>2, <1>4, <1>5 DEF On
  <2> QED BY <2>1, <2>2 DEF On
<1>7. ASSUME \A i, j \in DOMAIN lines : lines[i].who = lines[j].who => i = j,
             NEW i \in DOMAIN live, NEW j \in DOMAIN live, live[i].who = live[j].who
      PROVE  i = j
  <2>1. /\ live[i] = lines[Nth(S, i)] /\ live[j] = lines[Nth(S, j)]
        /\ Nth(S, i) \in DOMAIN lines /\ Nth(S, j) \in DOMAIN lines
    BY <1>2, <1>3, <1>4, <1>5
  <2>2. Nth(S, i) = Nth(S, j)
    BY <2>1, <1>7
  <2> QED BY <2>2, <1>3, <1>5
<1> QED BY <1>5, <1>6, <1>7

(* Pruning at a time drops what is expired at that time, if anything. *)
LEMMA Prunes ==
    ASSUME NEW s, Store(s), NEW now \in Nat
    PROVE  LET t == pruneExpired(s, now)
           IN  /\ Store(t) /\ On(t.lines) \in SUBSET On(s.lines)
               /\ \A l \in On(s.lines) : ~isExpired(l, now) => l \in On(t.lines)
               /\ t.torn => s.torn
<1> DEFINE kept == LiveLines(s.lines, now)
           t == pruneExpired(s, now)
<1>1. /\ s.lines \in Seq(AuditLines) /\ s.torn \in BOOLEAN
      /\ \A i, j \in DOMAIN s.lines : s.lines[i].who = s.lines[j].who => i = j
  BY DEF Store
<1>2. /\ kept \in Seq(AuditLines)
      /\ On(kept) = {l \in On(s.lines) : ~isExpired(l, now)}
      /\ \A i, j \in DOMAIN kept : kept[i].who = kept[j].who => i = j
  BY <1>1, LinesLive
<1>3. t = s \/ t = [s EXCEPT !.pruned = now] \/ t = [lines |-> kept, torn |-> FALSE, pruned |-> now]
  BY DEF pruneExpired
<1> SUFFICES /\ Store(t) /\ On(t.lines) \in SUBSET On(s.lines)
             /\ \A l \in On(s.lines) : ~isExpired(l, now) => l \in On(t.lines)
             /\ t.torn => s.torn
  OBVIOUS
<1> HIDE DEF kept, t
<1>4. CASE t = s
  BY <1>4
<1>5. CASE t = [s EXCEPT !.pruned = now]
  <2>1. t.lines = s.lines /\ t.torn = s.torn /\ Store(t)
    BY <1>5 DEF Store
  <2> QED BY <2>1
<1>6. CASE t = [lines |-> kept, torn |-> FALSE, pruned |-> now]
  <2>1. t.lines = kept /\ t.torn = FALSE /\ Store(t)
    BY <1>2, <1>6 DEF Store
  <2> QED BY <2>1, <1>2
<1> QED BY <1>3, <1>4, <1>5, <1>6

(* A record whose owner has none is added, or spoiled by a part of a line   *)
(* that it ends.                                                            *)
LEMMA Adds ==
    ASSUME NEW s, Store(s), NEW rec \in AuditLines, \A l \in On(s.lines) : l.who # rec.who
    PROVE  LET t == AddLine(s, rec)
           IN  /\ Store(t) /\ t.torn = FALSE
               /\ s.torn => On(t.lines) = On(s.lines)
               /\ ~s.torn => On(t.lines) = On(s.lines) \cup {rec}
<1> DEFINE t == AddLine(s, rec)
           more == Append(s.lines, rec)
<1>1. /\ s.lines \in Seq(AuditLines) /\ s.torn \in BOOLEAN
      /\ \A i, j \in DOMAIN s.lines : s.lines[i].who = s.lines[j].who => i = j
  BY DEF Store
<1>2. CASE s.torn
  <2>1. t = [s EXCEPT !.torn = FALSE]
    BY <1>2 DEF AddLine
  <2>2. Store(t) /\ t.lines = s.lines /\ t.torn = FALSE
    BY <2>1 DEF Store
  <2> QED BY <2>2, <1>2
<1>3. CASE ~s.torn
  <2>1. t = [s EXCEPT !.lines = more]
    BY <1>3 DEF AddLine
  <2>2. /\ more \in Seq(AuditLines) /\ DOMAIN more = DOMAIN s.lines \cup {Len(s.lines) + 1}
        /\ more[Len(s.lines) + 1] = rec /\ \A i \in DOMAIN s.lines : more[i] = s.lines[i] /\ s.lines[i].who # rec.who
    BY <1>1 DEF On
  <2>3. On(more) = On(s.lines) \cup {rec}
    BY <2>2 DEF On
  <2>4. \A i, j \in DOMAIN more : more[i].who = more[j].who => i = j
    BY <2>2, <1>1
  <2> HIDE DEF more, t
  <2>5. t.lines = more /\ t.torn = FALSE
    BY <2>1, <1>1, <1>3 DEF Store
  <2>6. t \in [lines : Seq(AuditLines), torn : BOOLEAN, pruned : Nat \cup {NeverPruned}]
    BY <2>1, <2>2 DEF Store
  <2>7. Store(t)
    BY <2>4, <2>5, <2>6 DEF Store
  <2>8. On(t.lines) = On(s.lines) \cup {rec}
    BY <2>3, <2>5
  <2> QED BY <2>5, <2>7, <2>8, <1>3 DEF t
<1> QED BY <1>1, <1>2, <1>3

(* The limit of a listing that is long enough for all drops nothing. *)
LEMMA Lists ==
    ASSUME NEW s, Store(s), NEW now, NEW l \in On(s.lines), ~isExpired(l, now), IsFiniteSet(Requests)
    PROVE  LET listed == ListRecent(s, now, Cardinality(Requests))
           IN  \E i \in DOMAIN listed : listed[i] = l
<1> DEFINE live == LiveLines(s.lines, now)
           n == Len(live)
           last == SubSeq(live, 1, n)
<1>1. s.lines \in Seq(AuditLines) /\ \A i, j \in DOMAIN s.lines : s.lines[i].who = s.lines[j].who => i = j
  BY DEF Store
<1>2. /\ live \in Seq(AuditLines) /\ l \in On(live)
      /\ \A i, j \in DOMAIN live : live[i].who = live[j].who => i = j
  BY <1>1, LinesLive
<1> HIDE DEF live
<1>3. n \in Nat /\ DOMAIN live = 1 .. n
  BY <1>2
<1>4. n <= Cardinality(Requests)
  <2> DEFINE who == [i \in 1 .. n |-> live[i].who]
  <2>1. who \in [1 .. n -> Requests]
    <3>1. \A i \in 1 .. n : live[i] \in AuditLines
      BY <1>2, <1>3
    <3>2. \A rec \in AuditLines : rec.who \in Requests
      BY DEF AuditLines
    <3> QED BY <3>1, <3>2
  <2>2. who \in Injection(1 .. n, Requests)
    BY <1>2, <1>3, <2>1 DEF Injection, IsInjective
  <2>3. IsFiniteSet(1 .. n) /\ Cardinality(1 .. n) = n
    <3>1. \A m \in Nat : IsFiniteSet(1 .. m) /\ Cardinality(1 .. m) = m
      BY FS_Interval
    <3> QED BY <3>1, <1>3
  <2> HIDE DEF who
  <2>4. Cardinality(1 .. n) <= Cardinality(Requests)
    BY <2>2, FS_Injection
  <2> QED BY <2>3, <2>4
<1>5. ListRecent(s, now, Cardinality(Requests)) = Reverse(last)
  <2>1. Cardinality(Requests) \in Nat
    BY FS_CardinalityType
  <2>2. ~(n > Cardinality(Requests))
    BY <1>3, <1>4, <2>1
  <2> QED BY <2>2 DEF ListRecent, live
<1>6. last = live
  BY <1>2
<1>7. PICK i \in 1 .. n : live[i] = l
  BY <1>2, <1>3 DEF On
<1>8. Reverse(live) = [j \in 1 .. n |-> live[(n - j) + 1]]
  BY DEF Reverse
<1>9. (n - i) + 1 \in 1 .. n /\ (n - ((n - i) + 1)) + 1 = i
  BY <1>3
<1>10. DOMAIN Reverse(live) = 1 .. n /\ Reverse(live)[(n - i) + 1] = l
  BY <1>7, <1>8, <1>9
<1> QED BY <1>5, <1>6, <1>9, <1>10
----------------------------------------------------------------------------
(* The security audit *)

(* What is in the store is the record of a request that is over; the clock  *)
(* has reached every time read from it.                                     *)
AuditInv ==
    /\ store \in {"file", "postgres"} /\ saveErrors \in Nat
    /\ Store(st) /\ (store = "postgres" => ~st.torn)
    /\ stamp \in [Requests -> Nat] /\ \A r \in Requests : stamp[r] <= clock
    /\ \A l \in On(st.lines) : l = Rec(l.who) /\ pc[l.who] \in {"done", "dead"}
    /\ \A r \in Requests : plan[r].set => plan[r].path \in {"admin", "adminV1"}

Gone == {r \in Recorded : ~isExpired(Rec(r), clock) /\ Rec(r) \notin On(st.lines)}

Debt == IF st.torn THEN 1 ELSE 0

Losses == IF store = "file" THEN 2 * saveErrors + restarts ELSE saveErrors

(* Part of a line at the end of the file will cost the next record. *)
GoneOK == Cardinality(Gone) + Debt <= Losses

Over == {"done", "dead"}

(* What a step leaves: a store of the same kind, at no earlier time; no     *)
(* line that is not a record or was there, and every line that has not      *)
(* expired; the stamps of what is over; no record but of the requests new.  *)
StoreAfter ==
    /\ clock' \in Nat /\ clock <= clock'
    /\ store' = store /\ saveErrors' \in Nat
    /\ Store(st') /\ (store = "postgres" => ~st'.torn)

LinesAfter ==
    /\ \A l \in On(st'.lines) : l \in On(st.lines) \/ \E q \in Requests : l = Rec(q)' /\ pc'[q] \in Over
    /\ \A l \in On(st.lines) : ~isExpired(l, clock) => l \in On(st'.lines)

RequestsAfter ==
    /\ stamp' \in [Requests -> Nat] /\ \A q \in Requests : stamp'[q] <= clock'
    /\ \A q \in Requests : pc[q] \in Over => pc'[q] \in Over /\ stamp'[q] = stamp[q]
    /\ \A q \in Requests : plan'[q].set => plan'[q].path \in {"admin", "adminV1"}

NewRecords(new) == \A q \in Recorded' : q \in Recorded \/ q \in new

(* A step after which only what had expired is missing from the store.      *)
LEMMA AuditStep ==
    ASSUME TypeOK, AuditInv, IsFiniteSet(Requests), NEW new \in SUBSET Requests,
           StoreAfter, LinesAfter, RequestsAfter, NewRecords(new)
    PROVE  /\ AuditInv'
           /\ Gone' \in SUBSET (Gone \cup new)
           /\ Cardinality(Gone) \in Nat /\ Cardinality(Gone') \in Nat
           /\ \A r \in Requests : new = {r} => Cardinality(Gone') <= Cardinality(Gone) + 1
           /\ \A r \in Requests : (new = {} \/ (new = {r} /\ r \notin Gone')) => Cardinality(Gone') <= Cardinality(Gone)
           /\ new = {} => Cardinality(Gone') <= Cardinality(Gone)
<1> USE DEF StoreAfter, LinesAfter, RequestsAfter, NewRecords
<1>1. ASSUME NEW l \in On(st'.lines)
      PROVE  l = Rec(l.who)' /\ pc'[l.who] \in Over
  <2>1. CASE l \in On(st.lines)
    <3>1. l = Rec(l.who) /\ pc[l.who] \in Over
      BY <2>1 DEF AuditInv, Over
    <3>2. l.who \in Requests
      <4>1. l \in AuditLines
        BY <2>1 DEF AuditInv, Store, On
      <4> QED BY <4>1 DEF AuditLines
    <3> QED BY <3>1, <3>2 DEF Rec
  <2>2. ASSUME NEW q \in Requests, l = Rec(q)', pc'[q] \in Over
        PROVE  l = Rec(l.who)' /\ pc'[l.who] \in Over
    <3>1. l.who = q
      BY <2>2 DEF Rec
    <3> QED BY <2>2, <3>1
  <2> QED BY <2>1, <2>2
<1>2. AuditInv'
  BY <1>1 DEF AuditInv, Over
<1>3. ASSUME NEW q \in Gone', q \notin new
      PROVE  q \in Gone
  <2>1. /\ q \in Recorded' /\ q \in Recorded /\ q \in Requests /\ pc[q] = "done"
        /\ ~isExpired(Rec(q)', clock') /\ Rec(q)' \notin On(st'.lines)
    BY <1>3 DEF Gone, Recorded
  <2>2. stamp'[q] = stamp[q]
    BY <2>1 DEF Over
  <2>3. Rec(q)' = Rec(q)
    BY <2>2 DEF Rec
  <2>4. ~isExpired(Rec(q), clock)
    <3>1. stamp[q] \in Nat /\ clock \in Nat /\ Retention \in Nat /\ ~(stamp[q] < clock' - Retention)
      BY <2>1, <2>3, SecurityAuditAssumption DEF AuditInv, TypeOK, Windows, isExpired, Rec
    <3>2. ~(stamp[q] < clock - Retention)
      BY <3>1
    <3> QED BY <3>2 DEF isExpired, Rec
  <2>5. Rec(q) \notin On(st.lines)
    BY <2>1, <2>3, <2>4
  <2> QED BY <2>1, <2>4, <2>5 DEF Gone
<1>4. Gone' \in SUBSET (Gone \cup new)
  BY <1>3
<1>5. IsFiniteSet(Gone) /\ IsFiniteSet(Gone') /\ Cardinality(Gone) \in Nat /\ Cardinality(Gone') \in Nat
  <2>1. Gone \in SUBSET Requests /\ Gone' \in SUBSET Requests
    BY DEF Gone, Recorded
  <2> QED BY <2>1, FS_Subset, FS_CardinalityType
<1>6. Gone' \in SUBSET Gone => Cardinality(Gone') <= Cardinality(Gone)
  BY <1>5, FS_Subset
<1>7. ASSUME NEW r \in Requests, new = {r}
      PROVE  Cardinality(Gone') <= Cardinality(Gone) + 1
  <2> DEFINE all == Gone \cup {r}
  <2>1. IsFiniteSet(all) /\ (Cardinality(all) = Cardinality(Gone) \/ Cardinality(all) = Cardinality(Gone) + 1)
    BY <1>5, FS_AddElement
  <2>2. Cardinality(Gone') <= Cardinality(all)
    <3>1. Gone' \in SUBSET all
      BY <1>4, <1>7
    <3> HIDE DEF all
    <3> QED BY <2>1, <3>1, FS_Subset
  <2> HIDE DEF all
  <2> QED BY <1>5, <2>1, <2>2
<1>8. ASSUME NEW r \in Requests, new = {r}, r \notin Gone'
      PROVE  Gone' \in SUBSET Gone
  BY <1>4, <1>8
<1> QED BY <1>2, <1>4, <1>5, <1>6, <1>7, <1>8

(* A request goes on, is answered without a record, or waits for its Save. *)
LEMMA AuditMoves ==
    ASSUME TypeOK, AuditInv, GoneOK, IsFiniteSet(Requests), NEW r \in Requests, pc[r] \notin Over,
           NEW label, label # "done", NEW status,
           \/ Goto(r, label) \/ Record(r, status)
           \/ Answer(r, status) /\ status \notin {401, 403, 405, 429} /\ (status = 200 => ~plan[r].set),
           UNCHANGED <<clock, auditVars, restarts>>,
           \/ plan' = plan
           \/ plan[r].path = "smoke" /\ plan' = [plan EXCEPT ![r].path = "webhook"]
    PROVE  AuditInv' /\ GoneOK'
<1>1. /\ pc \in [Requests -> Labels] /\ reply \in [Requests -> Nat] /\ stamp \in [Requests -> Nat]
      /\ plan \in [Requests -> Plan] /\ clock \in Nat
  <2>1. pc \in [Requests -> Labels] /\ reply \in [Requests -> Nat] /\ plan \in [Requests -> Plan] /\ clock \in Windows
    BY Zenon DEF TypeOK
  <2>2. stamp \in [Requests -> Nat]
    BY Zenon DEF AuditInv
  <2> QED BY <2>1, <2>2, WindowsAreTimes
<1>2. /\ \A q \in Requests : q # r => pc'[q] = pc[q] /\ reply'[q] = reply[q] /\ stamp'[q] = stamp[q]
      /\ stamp' = stamp \/ stamp' = [stamp EXCEPT ![r] = clock]
  <2>1. /\ \E at : pc' = [pc EXCEPT ![r] = at]
        /\ reply' = reply \/ \E answer : reply' = [reply EXCEPT ![r] = answer]
        /\ stamp' = stamp \/ stamp' = [stamp EXCEPT ![r] = clock]
    BY Zenon DEF Goto, Answer, Record
  <2>2. \A q \in Requests : q # r => pc'[q] = pc[q]
    BY <1>1, <2>1
  <2>3. \A q \in Requests : q # r => reply'[q] = reply[q]
    BY <1>1, <2>1
  <2>4. \A q \in Requests : q # r => stamp'[q] = stamp[q]
    BY <1>1, <2>1
  <2> QED BY <2>1, <2>2, <2>3, <2>4
<1>3. /\ \A q \in Requests : q # r => plan'[q] = plan[q]
      /\ plan'[r].set = plan[r].set /\ \A q \in Requests : plan'[q].set => plan'[q].path \in {"admin", "adminV1"}
  <2>1. CASE plan' = plan
    BY <2>1 DEF AuditInv
  <2>2. CASE plan[r].path = "smoke" /\ plan' = [plan EXCEPT ![r].path = "webhook"]
    <3> DEFINE p == [plan[r] EXCEPT !.path = "webhook"]
    <3>1. p.set = plan[r].set
      BY <1>1 DEF Plan
    <3>2. plan' = [plan EXCEPT ![r] = p]
      BY <2>2
    <3> HIDE DEF p
    <3>3. plan'[r] = p /\ \A q \in Requests : q # r => plan'[q] = plan[q]
      BY <1>1, <3>2
    <3>4. ~plan[r].set
      BY <2>2 DEF AuditInv
    <3> QED BY <3>1, <3>3, <3>4 DEF AuditInv
  <2> QED BY <2>1, <2>2
<1>4. r \notin Recorded'
  <2>1. CASE Goto(r, label)
    BY <1>1, <2>1 DEF Goto, Recorded
  <2>2. CASE Record(r, status)
    BY <1>1, <2>2 DEF Record, Recorded
  <2>3. CASE Answer(r, status) /\ status \notin {401, 403, 405, 429} /\ (status = 200 => ~plan[r].set)
    <3>1. reply'[r] = status
      BY <1>1, <2>3 DEF Answer
    <3> QED BY <1>3, <2>3, <3>1 DEF Recorded
  <2> QED BY <2>1, <2>2, <2>3
<1>5. \A q \in Recorded' : q \in Recorded
  BY <1>2, <1>3, <1>4 DEF Recorded
<1>6. \A q \in Requests : pc[q] \in Over => pc'[q] \in Over /\ stamp'[q] = stamp[q]
  BY <1>2
<1>7. stamp' \in [Requests -> Nat] /\ \A q \in Requests : stamp'[q] <= clock'
  <2>1. \A q \in Requests : stamp'[q] \in Nat /\ stamp'[q] <= clock
    BY <1>1, <1>2 DEF AuditInv
  <2> QED BY <1>1, <1>2, <2>1
<1>8. /\ clock' \in Nat /\ clock <= clock' /\ store' = store /\ saveErrors' \in Nat /\ st' = st
      /\ Store(st') /\ (store = "postgres" => ~st'.torn)
  BY <1>1 DEF AuditInv, auditVars
<1>9. AuditInv' /\ Cardinality(Gone') <= Cardinality(Gone) /\ Cardinality(Gone) \in Nat /\ Cardinality(Gone') \in Nat
  <2>1. NewRecords({})
    BY <1>5 DEF NewRecords
  <2>2. LinesAfter
    BY <1>8 DEF LinesAfter
  <2>3. RequestsAfter
    BY <1>3, <1>6, <1>7 DEF RequestsAfter
  <2>4. StoreAfter
    BY <1>8 DEF StoreAfter
  <2> QED BY <2>1, <2>2, <2>3, <2>4, AuditStep
<1>10. Debt' = Debt /\ Losses' = Losses /\ Debt \in Nat /\ Losses \in Nat
  BY DEF Debt, Losses, auditVars, AuditInv, TypeOK
<1> QED BY <1>9, <1>10 DEF GoneOK

(* What a Save may leave in the store that it found. *)
After(t, r) ==
    /\ Store(t)
    /\ \A l \in On(t.lines) : l \in On(st.lines) \/ l = Rec(r)
    /\ \A l \in On(st.lines) : ~isExpired(l, clock) => l \in On(t.lines)

LEMMA Saves ==
    ASSUME TypeOK, AuditInv, NEW r \in Requests, pc[r] = "audit"
    PROVE  /\ \A t \in {Saved(st, Rec(r)), AddLine(st, Rec(r))} :
                  After(t, r) /\ ~t.torn /\ (Rec(r) \in On(t.lines) \/ st.torn)
           /\ \A e : \A t \in FailedSaves(st, Rec(r), e) : After(t, r)
<1> DEFINE pruned == pruneExpired(st, stamp[r])
<1>1. Rec(r) \in AuditLines /\ Rec(r).who = r /\ Rec(r).at = stamp[r] /\ stamp[r] \in Nat
  BY DEF AuditInv, Rec, AuditLines
<1>2. Store(st) /\ \A l \in On(st.lines) : l.who # r
  BY DEF AuditInv
<1>3. After(st, r)
  BY <1>2 DEF After
<1>4. /\ Store(pruned) /\ On(pruned.lines) \in SUBSET On(st.lines)
      /\ \A l \in On(st.lines) : ~isExpired(l, stamp[r]) => l \in On(pruned.lines)
      /\ pruned.torn => st.torn
  BY <1>1, <1>2, Prunes
<1> HIDE DEF pruned
<1>5. ASSUME NEW l \in On(st.lines), ~isExpired(l, clock)
      PROVE  ~isExpired(l, stamp[r])
  <2>1. l \in AuditLines
    BY <1>2 DEF Store, On
  <2>2. l.at \in Nat /\ stamp[r] <= clock /\ clock \in Nat /\ Retention \in Nat /\ ~(l.at < clock - Retention)
    BY <1>5, <2>1, SecurityAuditAssumption DEF AuditInv, TypeOK, Windows, isExpired, AuditLines
  <2>3. ~(l.at < stamp[r] - Retention)
    BY <1>1, <2>2
  <2> QED BY <2>3 DEF isExpired
<1>6. After(pruned, r)
  BY <1>4, <1>5 DEF After
<1>7. ASSUME NEW s, After(s, r), \A l \in On(s.lines) : l.who # r
      PROVE  LET t == AddLine(s, Rec(r))
             IN  After(t, r) /\ ~t.torn /\ (Rec(r) \in On(t.lines) \/ s.torn)
  <2> DEFINE t == AddLine(s, Rec(r))
  <2>1. /\ Store(t) /\ t.torn = FALSE
        /\ s.torn => On(t.lines) = On(s.lines)
        /\ ~s.torn => On(t.lines) = On(s.lines) \cup {Rec(r)}
    <3>1. Store(s) /\ \A l \in On(s.lines) : l.who # Rec(r).who
      BY <1>1, <1>7 DEF After
    <3> QED BY <1>1, <3>1, Adds, Zenon
  <2> HIDE DEF t
  <2>2. After(t, r) /\ ~t.torn /\ (Rec(r) \in On(t.lines) \/ s.torn)
    BY <1>7, <2>1 DEF After
  <2> QED BY <2>2 DEF t
<1>8. \A l \in On(pruned.lines) : l.who # r
  BY <1>2, <1>4
<1>9. After([pruned EXCEPT !.torn = TRUE], r)
  <2> DEFINE t == [pruned EXCEPT !.torn = TRUE]
  <2>1. Store(t) /\ t.lines = pruned.lines
    BY <1>4 DEF Store
  <2> HIDE DEF t
  <2>2. After(t, r)
    BY <1>6, <2>1 DEF After
  <2> QED BY <2>2 DEF t
<1>10. /\ Saved(st, Rec(r)) = AddLine(pruned, Rec(r))
       /\ \A e : FailedSaves(st, Rec(r), e) \in SUBSET {st, pruned, [pruned EXCEPT !.torn = TRUE], AddLine(pruned, Rec(r))}
  BY <1>1 DEF Saved, FailedSaves, pruned
<1>11. /\ After(AddLine(pruned, Rec(r)), r) /\ ~AddLine(pruned, Rec(r)).torn
       /\ Rec(r) \in On(AddLine(pruned, Rec(r)).lines) \/ st.torn
  BY <1>4, <1>6, <1>7, <1>8
<1>12. /\ After(AddLine(st, Rec(r)), r) /\ ~AddLine(st, Rec(r)).torn
       /\ Rec(r) \in On(AddLine(st, Rec(r)).lines) \/ st.torn
  BY <1>2, <1>3, <1>7
<1>13. ASSUME NEW e, NEW t \in FailedSaves(st, Rec(r), e)
       PROVE  After(t, r)
  BY <1>3, <1>6, <1>9, <1>10, <1>11
<1> QED BY <1>10, <1>11, <1>12, <1>13

(* A Save and its response. *)
LEMMA AuditSaves ==
    ASSUME TypeOK, AuditInv, GoneOK, IsFiniteSet(Requests), NEW r \in Requests, SaveOK(r) \/ SaveFails(r)
    PROVE  AuditInv' /\ GoneOK'
<1>1. /\ pc[r] = "audit" /\ pc' = [pc EXCEPT ![r] = "done"] /\ pc \in [Requests -> Labels]
      /\ UNCHANGED <<plan, stamp, reply, clock, store, restarts>>
      /\ clock \in Nat /\ saveErrors \in Nat /\ restarts \in Nat
      /\ saveErrors' = saveErrors \/ saveErrors' = saveErrors + 1
  BY DEF SaveOK, SaveFails, Respond, TypeOK, AuditInv, Windows
<1>2. After(st', r)
  <2>1. \/ st' = Saved(st, Rec(r)) \/ st' = AddLine(st, Rec(r)) \/ st' = st
        \/ st' \in FailedSaves(st, Rec(r), ended[r])
    BY DEF SaveOK, SaveFails
  <2>2. After(st, r)
    BY DEF After, AuditInv
  <2> QED BY <1>1, <2>1, <2>2, Saves
<1>3. /\ SaveOK(r) => ~st'.torn /\ (Rec(r) \in On(st'.lines) \/ st.torn) /\ saveErrors' = saveErrors
      /\ SaveFails(r) => saveErrors' = saveErrors + 1
      /\ store = "postgres" => ~st'.torn
  <2>1. \A t \in {Saved(st, Rec(r)), AddLine(st, Rec(r))} : ~t.torn /\ (Rec(r) \in On(t.lines) \/ st.torn)
    BY <1>1, Saves
  <2>2. SaveOK(r) => st' \in {Saved(st, Rec(r)), AddLine(st, Rec(r))} /\ saveErrors' = saveErrors
    BY DEF SaveOK
  <2>3. SaveFails(r) => saveErrors' = saveErrors + 1 /\ (store = "postgres" => st' \in {st, AddLine(st, Rec(r))})
    BY DEF SaveFails
  <2>4. store = "postgres" => ~st.torn
    BY DEF AuditInv
  <2> QED BY <2>1, <2>2, <2>3, <2>4
<1>4. Rec(r)' = Rec(r) /\ pc'[r] \in Over /\ \A q \in Requests : q # r => pc'[q] = pc[q]
  BY <1>1 DEF Rec, Over
<1>5. /\ AuditInv'
      /\ Cardinality(Gone) \in Nat /\ Cardinality(Gone') \in Nat
      /\ Cardinality(Gone') <= Cardinality(Gone) + 1
      /\ r \notin Gone' => Cardinality(Gone') <= Cardinality(Gone)
  <2>1. NewRecords({r})
    BY <1>1, <1>4 DEF Recorded, NewRecords
  <2>2. LinesAfter /\ Store(st')
    BY <1>2, <1>4 DEF After, LinesAfter
  <2>3. RequestsAfter
    BY <1>1, <1>4 DEF AuditInv, RequestsAfter
  <2>4. StoreAfter
    BY <1>1, <1>3, <2>2 DEF StoreAfter
  <2>5. {r} \in SUBSET Requests
    OBVIOUS
  <2>6. /\ AuditInv' /\ Cardinality(Gone) \in Nat /\ Cardinality(Gone') \in Nat
        /\ \A q \in Requests : {r} = {q} => Cardinality(Gone') <= Cardinality(Gone) + 1
        /\ \A q \in Requests : ({r} = {} \/ ({r} = {q} /\ q \notin Gone')) => Cardinality(Gone') <= Cardinality(Gone)
    BY <2>1, <2>2, <2>3, <2>4, <2>5, AuditStep
  <2> QED BY <2>6, Zenon
<1>6. Debt \in 0 .. 1 /\ Debt' \in 0 .. 1 /\ Losses \in Nat /\ (st.torn => Debt = 1) /\ (~st'.torn => Debt' = 0)
  BY <1>1 DEF Debt, Losses
<1>7. CASE SaveOK(r)
  <2>1. Losses' = Losses /\ Debt' = 0
    BY <1>1, <1>3, <1>6, <1>7 DEF Losses
  <2>2. CASE Rec(r) \in On(st'.lines)
    <3>1. r \notin Gone'
      BY <1>4, <2>2 DEF Gone
    <3> QED BY <1>5, <1>6, <2>1, <3>1 DEF GoneOK
  <2>3. CASE st.torn
    BY <1>5, <1>6, <2>1, <2>3 DEF GoneOK
  <2> QED BY <1>3, <1>5, <1>7, <2>2, <2>3
<1>8. CASE SaveFails(r)
  <2>1. CASE store = "file"
    <3>1. Losses' = Losses + 2
      BY <1>1, <1>3, <1>8, <2>1 DEF Losses
    <3> QED BY <1>5, <1>6, <3>1 DEF GoneOK
  <2>2. CASE store = "postgres"
    <3>1. Losses' = Losses + 1 /\ Debt' = 0
      BY <1>1, <1>3, <1>6, <1>8, <2>2 DEF Losses
    <3> QED BY <1>5, <1>6, <3>1 DEF GoneOK
  <2> QED BY <1>5, <2>1, <2>2 DEF AuditInv
<1> QED BY <1>7, <1>8, <1>5

(* The process dies, perhaps inside a Save. *)
LEMMA AuditRestarts ==
    ASSUME TypeOK, AuditInv, GoneOK, IsFiniteSet(Requests), Restart
    PROVE  AuditInv' /\ GoneOK'
<1> DEFINE back(s) == [s EXCEPT !.pruned = NeverPruned]
<1>1. /\ \A q \in Requests : pc'[q] = (IF pc[q] \in {"new", "done"} THEN pc[q] ELSE "dead")
      /\ UNCHANGED <<plan, stamp, reply, clock, store, saveErrors>>
      /\ clock \in Nat /\ saveErrors \in Nat /\ restarts \in Nat /\ restarts' = restarts + 1
  BY DEF Restart, TypeOK, AuditInv, Windows
<1>2. ASSUME NEW s, Store(s)
      PROVE  Store(back(s)) /\ back(s).lines = s.lines /\ back(s).torn = s.torn
  BY <1>2 DEF Store
<1>3. /\ Store(st') /\ (store = "postgres" => ~st'.torn)
      /\ \A l \in On(st'.lines) : l \in On(st.lines) \/ \E q \in Requests : l = Rec(q)' /\ pc'[q] \in Over
      /\ \A l \in On(st.lines) : ~isExpired(l, clock) => l \in On(st'.lines)
  <2>1. CASE st' = back(st)
    <3>1. Store(st') /\ st'.lines = st.lines /\ st'.torn = st.torn
      BY <1>2, <2>1 DEF AuditInv
    <3> QED BY <3>1 DEF AuditInv
  <2>2. ASSUME NEW r \in Requests, pc[r] = "audit", store = "file",
               NEW s \in FailedSaves(st, Rec(r), FALSE), st' = back(s)
        PROVE  /\ Store(st') /\ (store = "postgres" => ~st'.torn)
               /\ \A l \in On(st'.lines) : l \in On(st.lines) \/ \E q \in Requests : l = Rec(q)' /\ pc'[q] \in Over
               /\ \A l \in On(st.lines) : ~isExpired(l, clock) => l \in On(st'.lines)
    <3>1. After(s, r)
      BY <2>2, Saves
    <3>2. Store(st') /\ st'.lines = s.lines
      BY <1>2, <2>2, <3>1 DEF After
    <3>3. Rec(r)' = Rec(r) /\ pc'[r] \in Over
      BY <1>1, <2>2 DEF Rec, Over
    <3> QED BY <2>2, <3>1, <3>2, <3>3 DEF After
  <2> QED BY <2>1, <2>2 DEF Restart
<1>4. AuditInv' /\ Cardinality(Gone) \in Nat /\ Cardinality(Gone') \in Nat /\ Cardinality(Gone') <= Cardinality(Gone)
  <2>1. NewRecords({})
    BY <1>1 DEF Recorded, NewRecords
  <2>2. LinesAfter
    BY <1>3 DEF LinesAfter
  <2>3. RequestsAfter
    BY <1>1 DEF AuditInv, RequestsAfter, Over
  <2>4. StoreAfter
    BY <1>1, <1>3 DEF StoreAfter
  <2> QED BY <2>1, <2>2, <2>3, <2>4, AuditStep
<1>5. Debt \in 0 .. 1 /\ Debt' \in 0 .. 1 /\ Losses \in Nat /\ (~st'.torn => Debt' = 0)
  BY <1>1 DEF Debt, Losses
<1>6. CASE store = "file"
  <2>1. Losses' = Losses + 1
    BY <1>1, <1>6 DEF Losses
  <2> QED BY <1>4, <1>5, <2>1 DEF GoneOK
<1>7. CASE store = "postgres"
  <2>1. Losses' = Losses /\ Debt' = 0
    BY <1>1, <1>3, <1>5, <1>7 DEF Losses
  <2> QED BY <1>4, <1>5, <2>1 DEF GoneOK
<1> QED BY <1>4, <1>6, <1>7 DEF AuditInv

LEMMA AuditQuiet ==
    ASSUME TypeOK, AuditInv, GoneOK, UNCHANGED <<plan, pc, stamp, reply, clock, auditVars, restarts>>
    PROVE  AuditInv' /\ GoneOK'
BY DEF AuditInv, GoneOK, Gone, Recorded, Rec, Debt, Losses, auditVars

LEMMA AuditNext ==
    ASSUME TypeOK, AuditInv, GoneOK, IsFiniteSet(Requests), [Next]_vars
    PROVE  AuditInv' /\ GoneOK'
<1>1. ASSUME NEW r \in Requests, APIVersionMiddleware(r) \/ Chaos(r) \/ RequireAdmin(r) \/ UISmokeRead(r)
      PROVE  AuditInv' /\ GoneOK'
  <2>1. pc[r] \notin Over /\ plan' = plan /\ UNCHANGED <<clock, auditVars, restarts>>
    BY <1>1 DEF APIVersionMiddleware, Chaos, RequireAdmin, UISmokeRead, Over
  <2>2. \/ \E label : label # "done" /\ Goto(r, label)
        \/ \E status : Record(r, status)
        \/ \E status \in {406, 500} : Answer(r, status)
    BY <1>1 DEF APIVersionMiddleware, Chaos, RequireAdmin, UISmokeRead
  <2> QED BY <2>1, <2>2, AuditMoves
<1>2. ASSUME NEW r \in Requests, RateLimit(r) \/ SourceRateLimit(r)
      PROVE  AuditInv' /\ GoneOK'
  <2>1. pc[r] \notin Over /\ plan' = plan /\ UNCHANGED <<clock, auditVars, restarts>>
    BY <1>2 DEF RateLimit, SourceRateLimit, Over
  <2>2. AfterSource(plan[r]) # "done" /\ AfterRate(plan[r]) # "done"
    BY DEF AfterSource, AfterRate
  <2>3. (\E label : label # "done" /\ Goto(r, label)) \/ (\E status : Record(r, status))
    <3>1. \E key, limit, then : then # "done" /\ (Allow(r, key, limit, then) \/ AllowFailsOpen(r, key, limit, then))
      BY <1>2, <2>2 DEF RateLimit, SourceRateLimit
    <3>2. ASSUME NEW key, NEW limit, NEW then, Allow(r, key, limit, then) \/ AllowFailsOpen(r, key, limit, then)
          PROVE  Goto(r, then) \/ Record(r, 429)
      <4>1. CASE Allow(r, key, limit, then)
        BY <4>1 DEF Allow
      <4>2. CASE AllowFailsOpen(r, key, limit, then)
        BY <4>2 DEF AllowFailsOpen
      <4> QED BY <3>2, <4>1, <4>2
    <3> QED BY <3>1, <3>2, Zenon
  <2> QED BY <2>1, <2>3, AuditMoves
<1>3. ASSUME NEW r \in Requests, HandleWebhook(r) \/ HandleAdmin(r) \/ HandleHealth(r)
      PROVE  AuditInv' /\ GoneOK'
  <2>1. pc[r] \notin Over /\ plan' = plan /\ UNCHANGED <<clock, auditVars, restarts>>
    BY <1>3 DEF HandleWebhook, HandleAdmin, HandleHealth, Over
  <2>2. plan[r].path \in {"webhook", "other"} => ~plan[r].set
    BY DEF AuditInv
  <2>3. \/ \E status : Record(r, status)
        \/ \E status \in {400, 404, 413, 499, 202, 503} : Answer(r, status)
        \/ Answer(r, 200) /\ ~plan[r].set
    BY <1>3, <2>2 DEF HandleWebhook, HandleAdmin, HandleHealth
  <2> QED BY <2>1, <2>3, AuditMoves
<1>4. ASSUME NEW r \in Requests, UISmoke(r)
      PROVE  AuditInv' /\ GoneOK'
  <2>1. pc[r] \notin Over /\ UNCHANGED <<clock, auditVars, restarts>> /\ plan[r].path = "smoke"
    BY <1>4 DEF UISmoke, Over, TypeOK
  <2>2. \/ Goto(r, "new") /\ plan' = [plan EXCEPT ![r].path = "webhook"]
        \/ plan' = plan /\ \E status \in {400, 1429} : Answer(r, status)
    BY <1>4 DEF UISmoke, UISmoke429
  <2> QED BY <2>1, <2>2, AuditMoves
<1>5. ASSUME NEW r \in Requests, SaveOK(r) \/ SaveFails(r)
      PROVE  AuditInv' /\ GoneOK'
  BY <1>5, AuditSaves
<1>6. ASSUME NEW r \in Requests, Cancel(r)
      PROVE  AuditInv' /\ GoneOK'
  BY <1>6, AuditQuiet DEF Cancel
<1>7. CASE Tick
  <2>1. /\ clock \in Nat /\ clock' = clock + 1 /\ UNCHANGED <<plan, pc, stamp, reply, store, st, saveErrors, restarts>>
    BY <1>7 DEF Tick, TypeOK, Windows, request, auditVars
  <2>2. NewRecords({})
    BY <2>1 DEF Recorded, NewRecords
  <2>3. LinesAfter
    BY <2>1 DEF AuditInv, LinesAfter
  <2>4. StoreAfter
    BY <2>1 DEF AuditInv, StoreAfter
  <2>5. stamp' \in [Requests -> Nat] /\ \A q \in Requests : stamp'[q] <= clock'
    <3>1. \A q \in Requests : stamp[q] \in Nat /\ stamp[q] <= clock
      BY DEF AuditInv
    <3>2. \A q \in Requests : stamp[q] <= clock + 1
      BY <2>1, <3>1
    <3> QED BY <2>1, <3>2 DEF AuditInv
  <2>8. RequestsAfter
    BY <2>1, <2>5 DEF AuditInv, RequestsAfter
  <2>6. AuditInv' /\ Cardinality(Gone) \in Nat /\ Cardinality(Gone') \in Nat /\ Cardinality(Gone') <= Cardinality(Gone)
    BY <2>2, <2>3, <2>4, <2>8, AuditStep
  <2>7. Debt' = Debt /\ Losses' = Losses /\ Debt \in Nat /\ Losses \in Nat
    BY <2>1 DEF Debt, Losses, AuditInv, TypeOK
  <2> QED BY <2>6, <2>7 DEF GoneOK
<1>8. CASE Restart
  BY <1>8, AuditRestarts
<1>9. CASE UNCHANGED vars
  BY <1>9, AuditQuiet DEF vars, request
<1> QED BY <1>1, <1>2, <1>3, <1>4, <1>5, <1>6, <1>7, <1>8, <1>9 DEF Next

LEMMA AuditInit ==
    ASSUME Init, IsFiniteSet(Requests)
    PROVE  AuditInv /\ GoneOK
<1>1. st.lines = <<>> /\ st.torn = FALSE /\ Store(st) /\ On(st.lines) = {}
  BY DEF Init, EmptyStore, Store, On
<1>2. /\ store \in {"file", "postgres"} /\ saveErrors = 0 /\ restarts = 0
      /\ stamp \in [Requests -> Nat] /\ \A r \in Requests : stamp[r] <= clock
  BY GatewayAssumption DEF Init
<1>3. \A r \in Requests : plan[r].set => plan[r].path \in {"admin", "adminV1"}
  BY AuditAssumption DEF Init
<1>4. Gone = {}
  BY DEF Gone, Recorded, Init
<1>5. Cardinality(Gone) = 0
  BY <1>4, FS_EmptySet
<1> QED BY <1>1, <1>2, <1>3, <1>5 DEF AuditInv, GoneOK, Debt, Losses

LEMMA AuditKeeps ==
    ASSUME TypeOK, AuditInv, GoneOK, IsFiniteSet(Requests)
    PROVE  SecurityAuditKept
<1> DEFINE listed == ListRecent(st, clock, Cardinality(Requests))
           missing == {r \in Recorded : ~isExpired(Rec(r), clock) /\ \A i \in DOMAIN listed : listed[i].who # r}
<1>1. ASSUME NEW r \in missing
      PROVE  r \in Gone
  <2>1. r \in Recorded /\ ~isExpired(Rec(r), clock) /\ \A i \in DOMAIN listed : listed[i].who # r
    OBVIOUS
  <2>2. ASSUME Rec(r) \in On(st.lines)
        PROVE  FALSE
    <3>1. \E i \in DOMAIN listed : listed[i] = Rec(r)
      BY <2>1, <2>2, Lists DEF AuditInv
    <3> QED BY <2>1, <3>1 DEF Rec
  <2> QED BY <2>1, <2>2 DEF Gone
<1>2. Gone \in SUBSET Requests
  BY DEF Gone, Recorded
<1>3. IsFiniteSet(Gone) /\ Cardinality(Gone) \in Nat
  BY <1>2, FS_Subset, FS_CardinalityType
<1>4. Cardinality(missing) <= Cardinality(Gone) /\ Cardinality(missing) \in Nat
  <2>1. missing \in SUBSET Gone
    BY <1>1
  <2> HIDE DEF missing
  <2> QED BY <1>3, <2>1, FS_Subset, FS_CardinalityType
<1>5. Cardinality(missing) <= Losses
  <2>1. Debt \in Nat /\ Losses \in Nat
    BY DEF Debt, Losses, AuditInv, TypeOK
  <2> HIDE DEF missing
  <2> QED BY <1>3, <1>4, <2>1 DEF GoneOK
<1> QED BY <1>5 DEF SecurityAuditKept, Losses

(* Every refusal and every change of a flag that was answered stays in the  *)
(* security audit until it expires, whatever is pruned meanwhile and by     *)
(* which record's time: a failed Save loses at most two records, its own    *)
(* and the one its part of a line spoils, a crash one.                      *)
THEOREM AuditIsKept == Spec => []SecurityAuditKept
<1>1. Init => TypeOK /\ AuditInv /\ GoneOK
  BY TypeInit, AuditInit, AuditAssumption
<1>2. TypeOK /\ AuditInv /\ GoneOK /\ [Next]_vars => TypeOK' /\ AuditInv' /\ GoneOK'
  BY TypeStep, AuditNext, AuditAssumption
<1>3. TypeOK /\ AuditInv /\ GoneOK => SecurityAuditKept
  BY AuditKeeps, AuditAssumption
<1> QED BY <1>1, <1>2, <1>3, PTL DEF Spec
=============================================================================
