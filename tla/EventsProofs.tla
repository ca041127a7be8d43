---------------------------- MODULE EventsProofs ----------------------------
(***************************************************************************)
(* What the calls of Events do to the number of events that are due and to *)
(* the pool of timers, for every MAX_TIMERS.  The proofs about the         *)
(* programs use the engine through these lemmas.  In between: counting up  *)
(* to a bound, and the function that a fold of the community modules is.   *)
(***************************************************************************)
EXTENDS Events, SequenceTheorems, FiniteSetTheorems, WellFoundedInduction, TLAPS

(* How many elements of s are in T. *)
NumberIn(s, T) == Cardinality({k \in DOMAIN s : s[k] \in T})

LEMMA NumberInType ==
    ASSUME NEW S, NEW s \in Seq(S), NEW T
    PROVE  /\ IsFiniteSet({k \in DOMAIN s : s[k] \in T})
           /\ NumberIn(s, T) \in Nat
           /\ NumberIn(s, T) = 0 <=> \A k \in 1 .. Len(s) : s[k] \notin T
<1> DEFINE hits == {k \in DOMAIN s : s[k] \in T}
<1>1. Len(s) \in Nat /\ DOMAIN s = 1 .. Len(s)
  BY LenProperties
<1>2. IsFiniteSet(1 .. Len(s))
  BY <1>1, FS_Interval
<1>3. IsFiniteSet(hits)
  BY <1>1, <1>2, FS_Subset
<1>4. Cardinality(hits) \in Nat
  BY <1>3, FS_CardinalityType
<1>5. Cardinality(hits) = 0 <=> hits = {}
  BY <1>3, FS_EmptySet
<1>6. hits = {} <=> \A k \in 1 .. Len(s) : s[k] \notin T
  BY <1>1
<1>7. QED
  BY <1>3, <1>4, <1>5, <1>6 DEF NumberIn

LEMMA NumberInAppend ==
    ASSUME NEW S, NEW s \in Seq(S), NEW e \in S, NEW T
    PROVE  NumberIn(Append(s, e), T) = NumberIn(s, T) + IF e \in T THEN 1 ELSE 0
<1> DEFINE hits == {k \in DOMAIN s : s[k] \in T}
           new  == Len(s) + 1
           more == {k \in DOMAIN Append(s, e) : Append(s, e)[k] \in T}
<1>1. /\ Len(s) \in Nat
      /\ DOMAIN s = 1 .. Len(s)
      /\ DOMAIN Append(s, e) = 1 .. new
      /\ \A k \in 1 .. Len(s) : Append(s, e)[k] = s[k]
      /\ Append(s, e)[new] = e
  BY LenProperties, AppendProperties
<1>2. IsFiniteSet(hits) /\ Cardinality(hits) \in Nat
  <2>1. IsFiniteSet(hits)
    BY <1>1, s \in Seq(S), NumberInType
  <2>2. QED
    BY <2>1, FS_CardinalityType
<1>3. new \notin hits
  BY <1>1
<1>4. more = IF e \in T THEN hits \cup {new} ELSE hits
  <2>1. 1 .. new = (1 .. Len(s)) \cup {new} /\ new \notin 1 .. Len(s)
    BY <1>1
  <2> HIDE DEF new
  <2>2. QED
    BY <1>1, <2>1
<1>5. Cardinality(hits \cup {new}) = Cardinality(hits) + 1
  BY <1>2, <1>3, FS_AddElement
<1> HIDE DEF hits, new, more
<1>6. Cardinality(more) = Cardinality(hits) + IF e \in T THEN 1 ELSE 0
  BY <1>2, <1>4, <1>5
<1>7. QED
  BY <1>6 DEF NumberIn, hits, more

LEMMA NumberInTail ==
    ASSUME NEW S, NEW s \in Seq(S), s # <<>>, NEW T
    PROVE  NumberIn(s, T) = NumberIn(Tail(s), T) + IF Head(s) \in T THEN 1 ELSE 0
<1> DEFINE hits  == {k \in DOMAIN s : s[k] \in T}
           later == hits \ {1}
           rest  == {k \in DOMAIN Tail(s) : Tail(s)[k] \in T}
<1>1. /\ Len(s) \in Nat \ {0}
      /\ DOMAIN s = 1 .. Len(s)
      /\ Head(s) = s[1]
      /\ Tail(s) \in Seq(S)
      /\ DOMAIN Tail(s) = 1 .. (Len(s) - 1)
      /\ \A k \in 1 .. (Len(s) - 1) : Tail(s)[k] = s[k + 1]
  BY LenProperties, HeadTailProperties, EmptySeq
<1>2. IsFiniteSet(hits) /\ IsFiniteSet(rest) /\ Cardinality(rest) \in Nat
  BY <1>1, NumberInType, FS_CardinalityType
<1>3. Cardinality(later) = Cardinality(rest)
  <2> DEFINE f == [k \in rest |-> k + 1]
  <2>1. rest = {k \in 1 .. (Len(s) - 1) : s[k + 1] \in T}
    BY <1>1
  <2>2. later = {k \in 2 .. Len(s) : s[k] \in T}
    BY <1>1
  <2>3. f \in [rest -> later]
    BY <1>1, <2>1, <2>2
  <2>4. \A j, k \in rest : f[j] = f[k] => j = k
    BY <1>1, <2>1
  <2>5. ASSUME NEW k \in later PROVE \E j \in rest : f[j] = k
    <3>1. k - 1 \in rest /\ f[k - 1] = k
      BY <1>1, <2>1, <2>2
    <3>2. QED
      BY <3>1
  <2>6. f \in Bijection(rest, later)
    BY <2>3, <2>4, <2>5 DEF Bijection, Injection, Surjection, IsInjective
  <2>7. QED
    BY <1>2, <2>6, FS_Bijection DEF ExistsBijection
<1>4. 1 \in hits <=> Head(s) \in T
  BY <1>1
<1>5. Cardinality(later) = IF 1 \in hits THEN Cardinality(hits) - 1 ELSE Cardinality(hits)
  BY <1>2, FS_RemoveElement
<1>6. Cardinality(hits) \in Nat
  BY <1>2, FS_CardinalityType
<1> HIDE DEF hits, later, rest
<1>7. Cardinality(hits) = Cardinality(rest) + IF Head(s) \in T THEN 1 ELSE 0
  BY <1>2, <1>3, <1>4, <1>5, <1>6
<1>8. QED
  BY <1>7 DEF NumberIn, hits, rest
-----------------------------------------------------------------------------
(* A set of numbers that is not empty has a least one. *)
LEMMA LeastNumber ==
    ASSUME NEW S \in SUBSET Nat, S # {}
    PROVE  \E n \in S : \A m \in S : n <= m
<1>1. PICK n \in S : \A m \in S : <<m, n>> \notin OpToRel(<, Nat)
  BY WFMin, NatLessThanWellFounded
<1>2. \A m \in S : m \in Nat /\ n \in Nat /\ ~(m < n)
  BY <1>1, Zenon DEF OpToRel
<1>3. QED
  BY <1>2

LEMMA MinExists ==
    ASSUME NEW I, I \subseteq Nat, I # {}
    PROVE  Min(I) \in I
<1>1. \E x \in I : \A y \in I : x =< y
  BY LeastNumber
<1>2. QED
  BY <1>1 DEF Min

(* Induction up to a bound: what holds at 0 and goes on one further holds. *)
LEMMA CountUp ==
    ASSUME NEW n \in Nat, NEW S, 0 \in S, \A k \in 1 .. n : k - 1 \in S => k \in S
    PROVE  0 .. n \subseteq S
<1> DEFINE missing == {k \in 0 .. n : k \notin S}
<1>1. SUFFICES ASSUME missing # {} PROVE FALSE
  OBVIOUS
<1>2. PICK k \in missing : \A m \in missing : k <= m
  <2>1. missing \in SUBSET Nat
    OBVIOUS
  <2> HIDE DEF missing
  <2>2. QED
    BY <1>1, <2>1, LeastNumber
<1>3. k \in 1 .. n /\ k - 1 \in 0 .. n
  BY <1>2
<1>4. k - 1 \in S
  BY <1>2, <1>3
<1>5. QED
  BY <1>2, <1>3, <1>4

LEMMA MaxIs ==
    ASSUME NEW S \in SUBSET Int, NEW k \in S, \A m \in S : m <= k
    PROVE  Max(S) = k
<1>1. \E x \in S : \A y \in S : x >= y
  OBVIOUS
<1>2. Max(S) \in S /\ \A y \in S : Max(S) >= y
  BY <1>1 DEF Max
<1> DEFINE m == Max(S)
<1>3. m \in Int /\ k \in Int /\ m >= k /\ m <= k
  BY <1>2
<1> HIDE DEF m
<1>4. m = k
  BY <1>3
<1>5. QED
  BY <1>4 DEF m

(* Among positions, the greatest of some is one of them. *)
LEMMA MaxWithin ==
    ASSUME NEW n \in Nat, NEW S \in SUBSET (1 .. n), S # {}
    PROVE  Max(S) \in S
<1> DEFINE gaps == {n - k : k \in S}
<1>1. gaps \in SUBSET Nat /\ gaps # {}
  <2>1. \A k \in S : n - k \in Nat
    OBVIOUS
  <2>2. QED
    BY <2>1
<1>2. PICK g \in gaps : \A m \in gaps : g <= m
  <2> HIDE DEF gaps
  <2>1. QED
    BY <1>1, LeastNumber
<1>3. PICK k \in S : g = n - k
  BY <1>2
<1>4. ASSUME NEW m \in S PROVE m <= k
  <2>1. n - m \in gaps
    OBVIOUS
  <2>2. n - k <= n - m
    BY <1>2, <1>3, <2>1
  <2>3. QED
    BY <2>2
<1>5. QED
  BY <1>3, <1>4, MaxIs

(***************************************************************************)
(* FoldLeft goes by a function on the sets of positions.  There is one for *)
(* every step function: a set of positions below k + 1 either has no k + 1 *)
(* or has it for its greatest.                                             *)
(***************************************************************************)
IsFold(f, n, V, base, step) ==
    /\ f \in [SUBSET (1 .. n) -> V]
    /\ f[{}] = base
    /\ \A t \in SUBSET (1 .. n) : t # {} => f[t] = step[Max(t)][f[t \ {Max(t)}]]

LEMMA FoldExists ==
    ASSUME NEW n \in Nat, NEW V, NEW base \in V, NEW step \in [1 .. n -> [V -> V]]
    PROVE  \E f : IsFold(f, n, V, base, step)
<1> DEFINE Fold(k, f) ==
               /\ f \in [SUBSET (1 .. k) -> V]
               /\ \A t \in SUBSET (1 .. k) :
                      f[t] = IF t = {} THEN base ELSE step[Max(t)][f[t \ {Max(t)}]]
           S == {k \in 0 .. n : \E f : Fold(k, f)}
<1>1. 0 \in S
  <2>1. SUBSET (1 .. 0) = {{}}
    OBVIOUS
  <2>2. Fold(0, [t \in SUBSET (1 .. 0) |-> base])
    BY <2>1
  <2> HIDE DEF Fold
  <2>3. QED
    BY <2>2
<1>2. ASSUME NEW k \in 1 .. n, k - 1 \in S PROVE k \in S
  <2>1. PICK f : Fold(k - 1, f)
    BY <1>2
  <2> DEFINE low == SUBSET (1 .. k - 1)
             g == [t \in SUBSET (1 .. k) |-> IF t \in low THEN f[t] ELSE step[k][f[t \ {k}]]]
  <2>2. ASSUME NEW t \in SUBSET (1 .. k), t \notin low
        PROVE  Max(t) = k /\ t # {} /\ t \ {k} \in low /\ k \notin t \ {k}
    <3>1. k \in t /\ t \in SUBSET Int /\ \A m \in t : m <= k
      BY <2>2
    <3>2. Max(t) = k
      BY <3>1, MaxIs
    <3>3. QED
      BY <3>1, <3>2, <2>2
  <2>3. \A t \in SUBSET (1 .. k) : g[t] \in V
    <3>1. \A t \in low : f[t] \in V
      BY <2>1
    <3>2. \A v \in V : step[k][v] \in V
      BY <1>2
    <3>3. QED
      BY <2>2, <3>1, <3>2
  <2>4. ASSUME NEW t \in SUBSET (1 .. k)
        PROVE  g[t] = IF t = {} THEN base ELSE step[Max(t)][g[t \ {Max(t)}]]
    <3>1. CASE t \in low
      <4>1. t \ {Max(t)} \in low /\ t \ {Max(t)} \in SUBSET (1 .. k)
        BY <3>1
      <4>2. g[t \ {Max(t)}] = f[t \ {Max(t)}] /\ g[t] = f[t]
        BY <3>1, <4>1
      <4>3. QED
        BY <2>1, <3>1, <4>2
    <3>2. CASE t \notin low
      <4>1. g[t] = step[k][f[t \ {k}]] /\ t \ {k} \in SUBSET (1 .. k)
        BY <3>2
      <4>2. g[t \ {k}] = f[t \ {k}]
        BY <2>2, <3>2
      <4>3. QED
        BY <2>2, <3>2, <4>1, <4>2
    <3>3. QED
      BY <3>1, <3>2
  <2>5. Fold(k, g)
    <3> HIDE DEF low
    <3>1. g \in [SUBSET (1 .. k) -> V]
      BY <2>3
    <3> HIDE DEF g
    <3>2. QED
      BY <2>4, <3>1
  <2> HIDE DEF Fold, g, low
  <2>6. QED
    BY <1>2, <2>5
<1>3. n \in S
  <2> HIDE DEF S
  <2>1. \A k \in 1 .. n : k - 1 \in S => k \in S
    BY <1>2
  <2>2. 0 .. n \subseteq S
    BY <1>1, <2>1, CountUp
  <2>3. QED
    BY <2>2
<1>4. PICK f : Fold(n, f)
  BY <1>3
<1>5. f \in [SUBSET (1 .. n) -> V] /\ f[{}] = base
  BY <1>4
<1>6. \A t \in SUBSET (1 .. n) : t # {} => f[t] = step[Max(t)][f[t \ {Max(t)}]]
  BY <1>4
<1>7. QED
  BY <1>5, <1>6 DEF IsFold

(* Along the initial segments the fold is taken one position at a time. *)
LEMMA Segments ==
    ASSUME NEW n \in Nat, NEW k \in 1 .. n
    PROVE  /\ 1 .. k \in SUBSET (1 .. n) /\ 1 .. k # {}
           /\ Max(1 .. k) = k /\ (1 .. k) \ {k} = 1 .. (k - 1)
<1>1. 1 .. k \in SUBSET Int /\ k \in 1 .. k /\ \A m \in 1 .. k : m <= k
  OBVIOUS
<1>2. Max(1 .. k) = k
  BY <1>1, MaxIs
<1>3. QED
  BY <1>2

(***************************************************************************)
(* get_free_timer returns a slot that is not in use, or -1; not if none is *)
(* in use.                                                                 *)
(***************************************************************************)
LEMMA FreeTimer ==
    ASSUME EventsAssumption, last_timer \in Slot
    PROVE  /\ get_free_timer # -1 => /\ get_free_timer \in Slot
                                     /\ timers_state[get_free_timer] = "TIMER_UNUSED"
           /\ (\A ix \in Slot : timers_state[ix] = "TIMER_UNUSED") => get_free_timer # -1
<1> DEFINE free == {k \in Slot : timers_state[ScanOrder[k]] = "TIMER_UNUSED"}
<1>1. \A k \in Slot : ScanOrder[k] \in Slot
  BY DEF ScanOrder, Slot, EventsAssumption
<1>2. 0 \in Slot /\ free \subseteq Nat /\ -1 \notin Slot
  BY DEF Slot, EventsAssumption
<1>3. CASE free = {}
  <2>1. get_free_timer = -1
    BY <1>3 DEF get_free_timer
  <2>2. timers_state[ScanOrder[0]] # "TIMER_UNUSED"
    BY <1>2, <1>3
  <2>3. QED
    BY <1>1, <1>2, <2>1, <2>2
<1>4. CASE free # {}
  <2>1. Min(free) \in free
    BY <1>2, <1>4, MinExists
  <2>2. get_free_timer = ScanOrder[Min(free)]
    BY <1>4 DEF get_free_timer
  <2>3. QED
    BY <1>1, <1>2, <2>1, <2>2
<1>5. QED
  BY <1>3, <1>4
-----------------------------------------------------------------------------
(* The three places an event may be due in. *)
Running(pool, evt) == Cardinality({ix \in Slot : pool[ix] = evt})

Expired(cookies, evt) == Cardinality({k \in DOMAIN cookies : cookies[k].stc_evt = evt})

Pending(cookies, ix) == Cardinality({k \in DOMAIN cookies : cookies[k].stc_timer_idx = ix})

LEMMA DueIsSum ==
    \A evt : Due(evt) = Running(timers_pool, evt) + Expired(sigrt_timerexp, evt)
                            + Count(sigrt_deliver, evt)
BY DEF Due, Running, Expired

LEMMA CountIs ==
    ASSUME NEW q \in Seq(Event), NEW evt \in Event
    PROVE  /\ Count(q, evt) \in Nat
           /\ Count(q, evt) = 0 <=> \A k \in 1 .. Len(q) : q[k] # evt
           /\ \A e \in Event :
                 Count(Append(q, e), evt) = Count(q, evt) + IF e = evt THEN 1 ELSE 0
           /\ q # <<>> =>
                 Count(q, evt) = Count(Tail(q), evt) + IF Head(q) = evt THEN 1 ELSE 0
<1> DEFINE T == {evt}
<1>1. \A s : Count(s, evt) = NumberIn(s, T)
  BY DEF Count, NumberIn
<1>2. \A e : e \in T <=> e = evt
  OBVIOUS
<1> HIDE DEF T
<1>3. /\ NumberIn(q, T) \in Nat
      /\ NumberIn(q, T) = 0 <=> \A k \in 1 .. Len(q) : q[k] \notin T
  BY NumberInType
<1>4. \A e \in Event : NumberIn(Append(q, e), T) = NumberIn(q, T) + IF e \in T THEN 1 ELSE 0
  BY NumberInAppend
<1>5. q # <<>> => NumberIn(q, T) = NumberIn(Tail(q), T) + IF Head(q) \in T THEN 1 ELSE 0
  BY NumberInTail
<1>6. QED
  BY <1>1, <1>2, <1>3, <1>4, <1>5

LEMMA ExpiredIs ==
    ASSUME NEW c \in Seq(Cookie), NEW evt \in Event
    PROVE  /\ Expired(c, evt) \in Nat
           /\ Expired(c, evt) = 0 <=> \A k \in 1 .. Len(c) : c[k].stc_evt # evt
           /\ \A stc \in Cookie :
                 Expired(Append(c, stc), evt)
                     = Expired(c, evt) + IF stc.stc_evt = evt THEN 1 ELSE 0
           /\ c # <<>> =>
                 Expired(c, evt) = Expired(Tail(c), evt) + IF Head(c).stc_evt = evt THEN 1 ELSE 0
<1> DEFINE T == {stc \in Cookie : stc.stc_evt = evt}
<1>1. ASSUME NEW s \in Seq(Cookie) PROVE Expired(s, evt) = NumberIn(s, T)
  <2>1. \A k \in DOMAIN s : s[k].stc_evt = evt <=> s[k] \in T
    BY LenProperties, ElementOfSeq
  <2> HIDE DEF T
  <2>2. QED
    BY <2>1 DEF Expired, NumberIn
<1>2. \A stc \in Cookie : stc \in T <=> stc.stc_evt = evt
  OBVIOUS
<1>3. \A k \in 1 .. Len(c) : c[k] \in Cookie
  BY ElementOfSeq
<1>4. /\ \A stc \in Cookie : Append(c, stc) \in Seq(Cookie)
      /\ c # <<>> => Tail(c) \in Seq(Cookie) /\ Head(c) \in Cookie
  BY AppendProperties, HeadTailProperties
<1> HIDE DEF T
<1>5. /\ NumberIn(c, T) \in Nat
      /\ NumberIn(c, T) = 0 <=> \A k \in 1 .. Len(c) : c[k] \notin T
  BY NumberInType
<1>6. \A stc \in Cookie :
         NumberIn(Append(c, stc), T) = NumberIn(c, T) + IF stc \in T THEN 1 ELSE 0
  BY NumberInAppend
<1>7. c # <<>> => NumberIn(c, T) = NumberIn(Tail(c), T) + IF Head(c) \in T THEN 1 ELSE 0
  BY NumberInTail
<1>8. QED
  BY <1>1, <1>2, <1>3, <1>4, <1>5, <1>6, <1>7

LEMMA PendingIs ==
    ASSUME NEW c \in Seq(Cookie), NEW ix \in Slot
    PROVE  /\ Pending(c, ix) \in Nat
           /\ \A stc \in Cookie :
                 Pending(Append(c, stc), ix)
                     = Pending(c, ix) + IF stc.stc_timer_idx = ix THEN 1 ELSE 0
           /\ c # <<>> =>
                 Pending(c, ix)
                     = Pending(Tail(c), ix) + IF Head(c).stc_timer_idx = ix THEN 1 ELSE 0
<1> DEFINE T == {stc \in Cookie : stc.stc_timer_idx = ix}
<1>1. ASSUME NEW s \in Seq(Cookie) PROVE Pending(s, ix) = NumberIn(s, T)
  <2>1. \A k \in DOMAIN s : s[k].stc_timer_idx = ix <=> s[k] \in T
    BY LenProperties, ElementOfSeq
  <2> HIDE DEF T
  <2>2. QED
    BY <2>1 DEF Pending, NumberIn
<1>2. \A stc \in Cookie : stc \in T <=> stc.stc_timer_idx = ix
  OBVIOUS
<1>3. /\ \A stc \in Cookie : Append(c, stc) \in Seq(Cookie)
      /\ c # <<>> => Tail(c) \in Seq(Cookie) /\ Head(c) \in Cookie
  BY AppendProperties, HeadTailProperties
<1> HIDE DEF T
<1>4. NumberIn(c, T) \in Nat
  BY NumberInType
<1>5. \A stc \in Cookie :
         NumberIn(Append(c, stc), T) = NumberIn(c, T) + IF stc \in T THEN 1 ELSE 0
  BY NumberInAppend
<1>6. c # <<>> => NumberIn(c, T) = NumberIn(Tail(c), T) + IF Head(c) \in T THEN 1 ELSE 0
  BY NumberInTail
<1>7. QED
  BY <1>1, <1>2, <1>3, <1>4, <1>5, <1>6

LEMMA RunningIs ==
    ASSUME EventsAssumption, NEW pool \in [Slot -> Event \cup {"none"}], NEW evt \in Event
    PROVE  /\ Running(pool, evt) \in Nat
           /\ Running(pool, evt) = 0 <=> \A ix \in Slot : pool[ix] # evt
           /\ \A ix \in Slot : \A e \in Event \cup {"none"} :
                 Running([pool EXCEPT ![ix] = e], evt) + (IF pool[ix] = evt THEN 1 ELSE 0)
                     = Running(pool, evt) + IF e = evt THEN 1 ELSE 0
<1> DEFINE On(pl) == {ix \in Slot : pl[ix] = evt}
<1>1. IsFiniteSet(Slot)
  BY FS_Interval DEF Slot, EventsAssumption
<1>2. \A pl : IsFiniteSet(On(pl)) /\ Cardinality(On(pl)) \in Nat
  <2>1. ASSUME NEW pl PROVE IsFiniteSet(On(pl))
    BY <1>1, FS_Subset
  <2> HIDE DEF On
  <2>2. QED
    BY <2>1, FS_CardinalityType
<1>3. On(pool) = {} <=> Cardinality(On(pool)) = 0
  <2> HIDE DEF On
  <2>1. QED
    BY <1>2, FS_EmptySet
<1>4. ASSUME NEW ix \in Slot, NEW e \in Event \cup {"none"}
      PROVE  Cardinality(On([pool EXCEPT ![ix] = e])) + (IF pool[ix] = evt THEN 1 ELSE 0)
                 = Cardinality(On(pool)) + IF e = evt THEN 1 ELSE 0
  <2> DEFINE new == [pool EXCEPT ![ix] = e]
             rest == On(pool) \ {ix}
  <2>1. ix \in On(pool) <=> pool[ix] = evt
    OBVIOUS
  <2>2. On(new) = IF e = evt THEN rest \cup {ix} ELSE rest
    OBVIOUS
  <2> HIDE DEF On, new
  <2>3. /\ IsFiniteSet(rest)
        /\ Cardinality(rest) = IF ix \in On(pool) THEN Cardinality(On(pool)) - 1
                                                  ELSE Cardinality(On(pool))
    BY <1>2, FS_RemoveElement
  <2>4. ix \notin rest
    OBVIOUS
  <2> HIDE DEF rest
  <2>5. Cardinality(rest \cup {ix}) = Cardinality(rest) + 1 /\ Cardinality(rest) \in Nat
    BY <2>3, <2>4, FS_AddElement, FS_CardinalityType
  <2>6. Cardinality(On(pool)) \in Nat
    BY <1>2
  <2>7. Cardinality(On(new)) + (IF pool[ix] = evt THEN 1 ELSE 0)
            = Cardinality(On(pool)) + IF e = evt THEN 1 ELSE 0
    BY <2>1, <2>2, <2>3, <2>5, <2>6
  <2>8. QED
    BY <2>7 DEF new
<1>5. QED
  BY <1>2, <1>3, <1>4 DEF Running
-----------------------------------------------------------------------------
(***************************************************************************)
(* The steps of the engine and the calls of handlers, in a state where its *)
(* bookkeeping is right.                                                   *)
(***************************************************************************)
EngineOK == EventsTypeOK /\ SlotsMatchTimers /\ SignalsCoverSocket

(* No timer is for another event than evt. *)
TimersAreFor(evt) ==
    /\ \A ix \in Slot : timers_pool[ix] \in {"none", evt}
    /\ \A k \in 1 .. Len(sigrt_timerexp) : sigrt_timerexp[k].stc_evt = evt

LEMMA SlotsMatch ==
    SlotsMatchTimers <=>
        \A ix \in Slot :
            (IF timers_pool[ix] # "none" THEN 1 ELSE 0) + Pending(sigrt_timerexp, ix)
                = IF timers_state[ix] = "TIMER_ARMED" THEN 1 ELSE 0
BY DEF SlotsMatchTimers, Pending

(* If the only event with a timer is not due there, all slots are free. *)
LEMMA PoolIsFree ==
    ASSUME EventsAssumption, EngineOK, NEW evt \in Event, TimersAreFor(evt),
           Running(timers_pool, evt) = 0, Expired(sigrt_timerexp, evt) = 0
    PROVE  /\ get_free_timer \in Slot /\ get_free_timer # -1
           /\ timers_pool[get_free_timer] = "none"
           /\ sigrt_timerexp = <<>>
           /\ timers_state[get_free_timer] = "TIMER_UNUSED"
<1>1. /\ timers_pool \in [Slot -> Event \cup {"none"}]
      /\ timers_state \in [Slot -> {"TIMER_UNUSED", "TIMER_ARMED"}]
      /\ sigrt_timerexp \in Seq(Cookie)
      /\ last_timer \in Slot
  BY DEF EngineOK, EventsTypeOK
<1>2. \A ix \in Slot : timers_pool[ix] = "none"
  BY <1>1, RunningIs DEF TimersAreFor
<1>3. Len(sigrt_timerexp) = 0
  <2>1. Len(sigrt_timerexp) \in Nat
    BY <1>1, LenProperties
  <2>2. \A k \in 1 .. Len(sigrt_timerexp) : FALSE
    BY <1>1, ExpiredIs DEF TimersAreFor
  <2>3. QED
    BY <2>1, <2>2
<1>4. sigrt_timerexp = <<>>
  BY <1>1, <1>3, EmptySeq
<1>5. \A ix \in Slot : Pending(sigrt_timerexp, ix) = 0
  <2>1. ASSUME NEW ix \in Slot PROVE {k \in DOMAIN <<>> : <<>>[k].stc_timer_idx = ix} = {}
    OBVIOUS
  <2>2. QED
    BY <1>4, <2>1, FS_EmptySet DEF Pending
<1>6. \A ix \in Slot : timers_state[ix] = "TIMER_UNUSED"
  BY <1>1, <1>2, <1>5, SlotsMatch DEF EngineOK
<1>7. QED
  BY <1>1, <1>2, <1>4, <1>6, FreeTimer DEF Slot, EventsAssumption

(* schedule_event with a free slot: one more timer runs. *)
LEMMA Scheduled ==
    ASSUME EventsAssumption, EngineOK, NEW evt \in Event, NEW secs \in Nat \ {0},
           schedule_event(evt, secs), UNCHANGED sigrt_timerexp,
           get_free_timer \in Slot, get_free_timer # -1,
           timers_pool[get_free_timer] = "none",
           timers_state[get_free_timer] = "TIMER_UNUSED"
    PROVE  /\ timers_state' \in [Slot -> {"TIMER_UNUSED", "TIMER_ARMED"}]
           /\ timers_pool' \in [Slot -> Event \cup {"none"}]
           /\ last_timer' \in Slot
           /\ SlotsMatchTimers'
           /\ TimersAreFor(evt) => TimersAreFor(evt)'
           /\ \A e \in Event : Running(timers_pool', e)
                                   = Running(timers_pool, e) + IF e = evt THEN 1 ELSE 0
<1> DEFINE tidx == get_free_timer
<1>1. /\ timers_pool \in [Slot -> Event \cup {"none"}]
      /\ timers_state \in [Slot -> {"TIMER_UNUSED", "TIMER_ARMED"}]
      /\ sigrt_timerexp \in Seq(Cookie)
  BY DEF EngineOK, EventsTypeOK
<1>2. /\ last_timer' = tidx
      /\ timers_state' = [timers_state EXCEPT ![tidx] = "TIMER_ARMED"]
      /\ timers_pool' = [timers_pool EXCEPT ![tidx] = evt]
  BY DEF schedule_event
<1>3. "none" \notin Event
  BY DEF Event
<1> HIDE DEF tidx
<1>4. tidx \in Slot /\ timers_pool[tidx] = "none" /\ timers_state[tidx] = "TIMER_UNUSED"
  BY DEF tidx
<1>5. SlotsMatchTimers'
  <2>1. ASSUME NEW ix \in Slot
        PROVE  (IF timers_pool'[ix] # "none" THEN 1 ELSE 0) + Pending(sigrt_timerexp, ix)
                   = IF timers_state'[ix] = "TIMER_ARMED" THEN 1 ELSE 0
    <3>1. /\ Pending(sigrt_timerexp, ix) \in Nat
          /\ (IF timers_pool[ix] # "none" THEN 1 ELSE 0) + Pending(sigrt_timerexp, ix)
                 = IF timers_state[ix] = "TIMER_ARMED" THEN 1 ELSE 0
      BY <1>1, PendingIs, SlotsMatch DEF EngineOK
    <3>2. CASE ix = tidx
      BY <1>1, <1>2, <1>3, <1>4, <3>1, <3>2
    <3>3. CASE ix # tidx
      BY <1>1, <1>2, <3>1, <3>3
    <3>4. QED
      BY <3>2, <3>3
  <2>2. QED
    BY <2>1 DEF SlotsMatchTimers, Pending
<1>6. TimersAreFor(evt) => TimersAreFor(evt)'
  BY <1>1, <1>2, <1>4 DEF TimersAreFor
<1>7. \A e \in Event : Running(timers_pool', e)
                           = Running(timers_pool, e) + IF e = evt THEN 1 ELSE 0
  <2>1. ASSUME NEW e \in Event
        PROVE  Running(timers_pool', e) = Running(timers_pool, e) + IF e = evt THEN 1 ELSE 0
    <3>1. Running(timers_pool', e) + (IF timers_pool[tidx] = e THEN 1 ELSE 0)
              = Running(timers_pool, e) + IF evt = e THEN 1 ELSE 0
      <4>1. \A j \in Slot : \A x \in Event \cup {"none"} :
               Running([timers_pool EXCEPT ![j] = x], e) + (IF timers_pool[j] = e THEN 1 ELSE 0)
                   = Running(timers_pool, e) + IF x = e THEN 1 ELSE 0
        BY <1>1, RunningIs
      <4>2. QED
        BY <1>2, <1>4, <4>1
    <3>2. timers_pool' \in [Slot -> Event \cup {"none"}]
      BY <1>1, <1>2, <1>4
    <3>3. Running(timers_pool', e) \in Nat /\ Running(timers_pool, e) \in Nat
      BY <1>1, <3>2, RunningIs
    <3>4. timers_pool[tidx] # e
      BY <1>3, <1>4
    <3>5. QED
      BY <3>1, <3>3, <3>4
  <2>2. QED
    BY <2>1
<1>8. QED
  BY <1>1, <1>2, <1>4, <1>5, <1>6, <1>7

(* A timer expires: its event is due in the signal instead. *)
LEMMA TimerExpiresOK ==
    ASSUME EventsAssumption, EngineOK, NEW ix \in Slot, TimerExpires(ix)
    PROVE  /\ EngineOK'
           /\ \A evt \in Event : TimersAreFor(evt) => TimersAreFor(evt)'
           /\ \A evt \in Event : Due(evt)' = Due(evt)
<1> DEFINE e == timers_pool[ix]
           stc == [stc_timer_idx |-> ix, stc_evt |-> e]
<1>1. /\ timers_pool \in [Slot -> Event \cup {"none"}]
      /\ sigrt_timerexp \in Seq(Cookie)
      /\ sigrt_deliver \in Seq(Event)
  BY DEF EngineOK, EventsTypeOK
<1>2. /\ e # "none" /\ e \in Event
      /\ stc \in Cookie /\ stc.stc_timer_idx = ix /\ stc.stc_evt = e
      /\ timers_pool' = [timers_pool EXCEPT ![ix] = "none"]
      /\ sigrt_timerexp' = Append(sigrt_timerexp, stc)
      /\ UNCHANGED <<timers_state, sigrt_deliver>>
  BY <1>1 DEF TimerExpires, Cookie
<1> HIDE DEF stc
<1>3. EventsTypeOK'
  <2>1. sigrt_timerexp' \in Seq(Cookie)
    BY <1>1, <1>2, AppendProperties
  <2>2. timers_pool' \in [Slot -> Event \cup {"none"}]
    BY <1>1, <1>2
  <2>3. QED
    BY <2>1, <2>2 DEF EngineOK, EventsTypeOK, TimerExpires, netioVars
<1>4. SlotsMatchTimers'
  <2>1. ASSUME NEW j \in Slot
        PROVE  (IF timers_pool'[j] # "none" THEN 1 ELSE 0) + Pending(sigrt_timerexp', j)
                   = IF timers_state'[j] = "TIMER_ARMED" THEN 1 ELSE 0
    <3>1. /\ Pending(sigrt_timerexp, j) \in Nat
          /\ Pending(sigrt_timerexp', j) = Pending(sigrt_timerexp, j) + IF ix = j THEN 1 ELSE 0
      BY <1>1, <1>2, PendingIs
    <3>2. (IF timers_pool[j] # "none" THEN 1 ELSE 0) + Pending(sigrt_timerexp, j)
              = IF timers_state[j] = "TIMER_ARMED" THEN 1 ELSE 0
      BY SlotsMatch DEF EngineOK
    <3>3. CASE j = ix
      BY <1>1, <1>2, <3>1, <3>2, <3>3
    <3>4. CASE j # ix
      BY <1>1, <1>2, <3>1, <3>2, <3>4
    <3>5. QED
      BY <3>3, <3>4
  <2>2. QED
    BY <2>1 DEF SlotsMatchTimers, Pending
<1>5. SignalsCoverSocket'
  BY DEF SignalsCoverSocket, Count, EngineOK, TimerExpires, netioVars
<1>6. ASSUME NEW evt \in Event, TimersAreFor(evt) PROVE TimersAreFor(evt)'
  <2>1. /\ Len(sigrt_timerexp') = Len(sigrt_timerexp) + 1
        /\ Len(sigrt_timerexp) \in Nat
        /\ \A k \in 1 .. Len(sigrt_timerexp) : sigrt_timerexp'[k] = sigrt_timerexp[k]
        /\ sigrt_timerexp'[Len(sigrt_timerexp) + 1] = stc
    BY <1>1, <1>2, AppendProperties, LenProperties
  <2>2. \A k \in 1 .. Len(sigrt_timerexp') :
           k \in 1 .. Len(sigrt_timerexp) \/ k = Len(sigrt_timerexp) + 1
    BY <2>1
  <2>3. e = evt
    BY <1>2, <1>6 DEF TimersAreFor
  <2>4. QED
    BY <1>1, <1>2, <1>6, <2>1, <2>2, <2>3 DEF TimersAreFor
<1>7. ASSUME NEW evt \in Event PROVE Due(evt)' = Due(evt)
  <2>1. /\ Expired(sigrt_timerexp', evt)
               = Expired(sigrt_timerexp, evt) + IF e = evt THEN 1 ELSE 0
        /\ Expired(sigrt_timerexp, evt) \in Nat
    BY <1>1, <1>2, ExpiredIs
  <2>2. /\ timers_pool' \in [Slot -> Event \cup {"none"}]
        /\ "none" # evt
    BY <1>1, <1>2 DEF Event
  <2>3. /\ Running(timers_pool', evt) + (IF e = evt THEN 1 ELSE 0)
               = Running(timers_pool, evt) + IF "none" = evt THEN 1 ELSE 0
        /\ Running(timers_pool', evt) \in Nat
        /\ Running(timers_pool, evt) \in Nat
    <3>1. /\ \A j \in Slot : \A x \in Event \cup {"none"} :
                Running([timers_pool EXCEPT ![j] = x], evt)
                        + (IF timers_pool[j] = evt THEN 1 ELSE 0)
                    = Running(timers_pool, evt) + IF x = evt THEN 1 ELSE 0
          /\ Running(timers_pool, evt) \in Nat
      BY <1>1, RunningIs
    <3>2. Running(timers_pool', evt) \in Nat
      BY <2>2, RunningIs
    <3>3. QED
      BY <1>2, <3>1, <3>2
  <2>4. Count(sigrt_deliver', evt) = Count(sigrt_deliver, evt)
        /\ Count(sigrt_deliver, evt) \in Nat
    BY <1>1, <1>2, CountIs
  <2>5. Due(evt)' = Running(timers_pool', evt) + Expired(sigrt_timerexp', evt)
                        + Count(sigrt_deliver', evt)
    BY DEF Due, Running, Expired, Count
  <2> HIDE DEF e
  <2>6. QED
    BY <2>1, <2>2, <2>3, <2>4, <2>5, DueIsSum
<1>8. QED
  BY <1>3, <1>4, <1>5, <1>6, <1>7 DEF EngineOK

(* A packet arrives: nothing else is due. *)
LEMMA PacketArrivesOK ==
    ASSUME EngineOK, NEW P, socket \in Seq(P), NEW pkt \in P, PacketArrives(pkt)
    PROVE  /\ EngineOK'
           /\ socket' \in Seq(P)
           /\ \A evt \in Event : TimersAreFor(evt) => TimersAreFor(evt)'
           /\ \A evt \in Event : Due(evt)' = Due(evt)
<1>1. /\ socket' = Append(socket, pkt)
      /\ UNCHANGED <<sigrt_timerexp, sigrt_deliver, timers_pool, timers_state>>
  BY DEF PacketArrives, timerVars
<1>2. socket' \in Seq(P) /\ Len(socket') = Len(socket) + 1
  BY <1>1, AppendProperties
<1>3. EventsTypeOK'
  BY DEF EngineOK, EventsTypeOK, PacketArrives, timerVars
<1>4. SlotsMatchTimers'
  BY <1>1, SlotsMatch DEF EngineOK, SlotsMatchTimers, Pending
<1>5. SignalsCoverSocket'
  <2> DEFINE packs == Count(sigrt_deliver, "PACK_IN")
  <2>1. packs \in Nat /\ early \in Nat /\ sigrt_network \in Nat
    BY CountIs DEF EngineOK, EventsTypeOK, Event
  <2>2. Len(socket) = early + sigrt_network + packs
    BY DEF EngineOK, SignalsCoverSocket
  <2>3. Count(sigrt_deliver', "PACK_IN") = packs
    BY <1>1
  <2> HIDE DEF packs
  <2>4. \/ early' = early /\ sigrt_network' = sigrt_network + 1
        \/ early' = early + 1 /\ sigrt_network' = sigrt_network
    BY DEF PacketArrives
  <2>5. Len(socket') = early' + sigrt_network' + Count(sigrt_deliver', "PACK_IN")
    BY <1>2, <2>1, <2>2, <2>3, <2>4
  <2>6. QED
    BY <2>5 DEF SignalsCoverSocket, Count
<1>6. QED
  BY <1>1, <1>2, <1>3, <1>4, <1>5 DEF EngineOK, TimersAreFor, Due, Count

(* The handler of SIGRT_NETWORK exchanges a signal for a queued PACK_IN. *)
LEMMA NetworkioOK ==
    ASSUME EngineOK, networkio_handler
    PROVE  /\ EngineOK'
           /\ \A evt \in Event : TimersAreFor(evt) => TimersAreFor(evt)'
           /\ \A evt \in Event \ {"PACK_IN"} : Due(evt)' = Due(evt)
<1>1. /\ sigrt_network > 0
      /\ sigrt_network' = sigrt_network - 1
      /\ sigrt_deliver' = Append(sigrt_deliver, "PACK_IN")
      /\ UNCHANGED <<socket, early, sigrt_timerexp, timers_pool, timers_state>>
  BY DEF networkio_handler, QueuePackIn, deliver_event, netioVars, timerVars
<1>2. /\ sigrt_deliver \in Seq(Event) /\ "PACK_IN" \in Event
      /\ sigrt_network \in Nat /\ early \in Nat
  BY DEF EngineOK, EventsTypeOK, Event
<1>3. EventsTypeOK'
  <2>1. sigrt_deliver' \in Seq(Event) /\ sigrt_network' \in Nat
    BY <1>1, <1>2, AppendProperties
  <2>2. QED
    BY <2>1 DEF EngineOK, EventsTypeOK, networkio_handler, netioVars, timerVars
<1>4. SlotsMatchTimers'
  BY <1>1, SlotsMatch DEF EngineOK, SlotsMatchTimers, Pending
<1>5. \A evt \in Event : Count(sigrt_deliver', evt)
                             = Count(sigrt_deliver, evt) + IF "PACK_IN" = evt THEN 1 ELSE 0
  BY <1>1, <1>2, CountIs
<1>6. \A evt \in Event : Count(sigrt_deliver, evt) \in Nat
  BY <1>2, CountIs
<1>7. SignalsCoverSocket'
  <2>1. Len(socket) = early + sigrt_network + Count(sigrt_deliver, "PACK_IN")
    BY DEF EngineOK, SignalsCoverSocket
  <2>2. Len(socket') = early' + sigrt_network' + Count(sigrt_deliver', "PACK_IN")
    BY <1>1, <1>2, <1>5, <1>6, <2>1
  <2>3. QED
    BY <2>2 DEF SignalsCoverSocket, Count
<1>8. ASSUME NEW evt \in Event \ {"PACK_IN"} PROVE Due(evt)' = Due(evt)
  <2>1. Count(sigrt_deliver', evt) = Count(sigrt_deliver, evt)
    BY <1>5, <1>6
  <2>2. QED
    BY <1>1, <2>1 DEF Due, Count
<1>9. QED
  BY <1>1, <1>3, <1>4, <1>7, <1>8 DEF EngineOK, TimersAreFor

(* The handler of SIGRT_TIMEREXP frees the slot and queues the event. *)
LEMMA TimerExpireHandlerOK ==
    ASSUME EventsAssumption, EngineOK, timer_expire_handler,
           NEW only \in Event \ {"PACK_IN"}, TimersAreFor(only)
    PROVE  /\ EngineOK'
           /\ TimersAreFor(only)'
           /\ \A evt \in Event : Due(evt)' = Due(evt)
<1> DEFINE stc == Head(sigrt_timerexp)
<1>1. /\ sigrt_timerexp \in Seq(Cookie) /\ sigrt_deliver \in Seq(Event)
      /\ timers_pool \in [Slot -> Event \cup {"none"}]
      /\ timers_state \in [Slot -> {"TIMER_UNUSED", "TIMER_ARMED"}]
  BY DEF EngineOK, EventsTypeOK
<1>2. /\ sigrt_timerexp # <<>>
      /\ timers_state' = [timers_state EXCEPT ![stc.stc_timer_idx] = "TIMER_UNUSED"]
      /\ sigrt_deliver' = Append(sigrt_deliver, stc.stc_evt)
      /\ sigrt_timerexp' = Tail(sigrt_timerexp)
      /\ UNCHANGED <<socket, early, sigrt_network, timers_pool>>
  BY DEF timer_expire_handler, FreeSlot, deliver_event, netioVars
<1>3. /\ stc \in Cookie
      /\ stc = sigrt_timerexp[1]
      /\ Tail(sigrt_timerexp) \in Seq(Cookie)
      /\ Len(Tail(sigrt_timerexp)) = Len(sigrt_timerexp) - 1
      /\ Len(sigrt_timerexp) \in Nat \ {0}
      /\ \A k \in 1 .. Len(Tail(sigrt_timerexp)) :
            Tail(sigrt_timerexp)[k] = sigrt_timerexp[k + 1]
  BY <1>1, <1>2, HeadTailProperties, LenProperties, EmptySeq
<1> HIDE DEF stc
<1>4. stc.stc_timer_idx \in Slot /\ stc.stc_evt \in Event /\ stc.stc_evt = only
  BY <1>3 DEF Cookie, TimersAreFor
<1>5. EventsTypeOK'
  <2>1. /\ sigrt_deliver' \in Seq(Event)
        /\ timers_state' \in [Slot -> {"TIMER_UNUSED", "TIMER_ARMED"}]
        /\ sigrt_timerexp' \in Seq(Cookie)
    BY <1>1, <1>2, <1>3, <1>4, AppendProperties
  <2>2. QED
    BY <2>1 DEF EngineOK, EventsTypeOK, timer_expire_handler, netioVars
<1>6. SlotsMatchTimers'
  <2>1. ASSUME NEW j \in Slot
        PROVE  (IF timers_pool'[j] # "none" THEN 1 ELSE 0) + Pending(sigrt_timerexp', j)
                   = IF timers_state'[j] = "TIMER_ARMED" THEN 1 ELSE 0
    <3>1. /\ Pending(sigrt_timerexp, j) \in Nat
          /\ Pending(sigrt_timerexp, j)
                 = Pending(Tail(sigrt_timerexp), j) + IF stc.stc_timer_idx = j THEN 1 ELSE 0
      BY <1>1, <1>2, PendingIs DEF stc
    <3>2. Pending(sigrt_timerexp', j) \in Nat
      BY <1>2, <1>3, PendingIs
    <3>3. (IF timers_pool[j] # "none" THEN 1 ELSE 0) + Pending(sigrt_timerexp, j)
              = IF timers_state[j] = "TIMER_ARMED" THEN 1 ELSE 0
      BY SlotsMatch DEF EngineOK
    <3>4. CASE j = stc.stc_timer_idx
      BY <1>1, <1>2, <3>1, <3>2, <3>3, <3>4
    <3>5. CASE j # stc.stc_timer_idx
      BY <1>1, <1>2, <3>1, <3>2, <3>3, <3>5
    <3>6. QED
      BY <3>4, <3>5
  <2>2. QED
    BY <2>1 DEF SlotsMatchTimers, Pending
<1>7. ASSUME NEW evt \in Event
      PROVE  /\ Count(sigrt_deliver', evt)
                    = Count(sigrt_deliver, evt) + IF stc.stc_evt = evt THEN 1 ELSE 0
             /\ Count(sigrt_deliver, evt) \in Nat
  BY <1>1, <1>2, <1>4, CountIs
<1>8. SignalsCoverSocket'
  <2>1. Count(sigrt_deliver', "PACK_IN") = Count(sigrt_deliver, "PACK_IN")
    BY <1>4, <1>7 DEF Event
  <2>2. QED
    BY <1>2, <2>1 DEF EngineOK, SignalsCoverSocket, Count
<1>9. ASSUME NEW evt \in Event PROVE Due(evt)' = Due(evt)
  <2>1. /\ Expired(sigrt_timerexp, evt)
               = Expired(Tail(sigrt_timerexp), evt) + IF stc.stc_evt = evt THEN 1 ELSE 0
        /\ Expired(Tail(sigrt_timerexp), evt) \in Nat
    BY <1>1, <1>2, <1>3, ExpiredIs DEF stc
  <2>2. Running(timers_pool, evt) \in Nat
    BY <1>1, RunningIs
  <2>3. Due(evt)' = Running(timers_pool, evt) + Expired(Tail(sigrt_timerexp), evt)
                        + Count(sigrt_deliver', evt)
    BY <1>2 DEF Due, Running, Expired, Count
  <2>4. QED
    BY <1>7, <2>1, <2>2, <2>3, DueIsSum
<1>10. TimersAreFor(only)'
  BY <1>2, <1>3 DEF TimersAreFor
<1>11. QED
  BY <1>5, <1>6, <1>8, <1>9, <1>10 DEF EngineOK

(* What a handler of a program finds: the signals of timers have been handled. *)
LEMMA Handling ==
    ASSUME EngineOK, NEW evt \in Event, Handles(evt)
    PROVE  /\ sigrt_timerexp = <<>>
           /\ Tail(sigrt_deliver) \in Seq(Event)
           /\ \A e \in Event :
                 /\ Count(Tail(sigrt_deliver), e) \in Nat
                 /\ Count(sigrt_deliver, e)
                        = Count(Tail(sigrt_deliver), e) + IF e = evt THEN 1 ELSE 0
<1>1. sigrt_deliver \in Seq(Event)
  BY DEF EngineOK, EventsTypeOK
<1>2. sigrt_timerexp = <<>> /\ sigrt_deliver # <<>> /\ Head(sigrt_deliver) = evt
  BY DEF Handles
<1>3. Tail(sigrt_deliver) \in Seq(Event)
  BY <1>1, <1>2, HeadTailProperties
<1>4. QED
  BY <1>1, <1>2, <1>3, CountIs

(* At the start nothing is due. *)
LEMMA EventsInitOK ==
    ASSUME EventsAssumption, EventsInit
    PROVE  /\ EngineOK
           /\ \A evt \in Event : Due(evt) = 0 /\ TimersAreFor(evt)
<1>1. /\ \A ix \in Slot : timers_pool[ix] = "none" /\ timers_state[ix] = "TIMER_UNUSED"
      /\ timers_pool \in [Slot -> Event \cup {"none"}]
      /\ sigrt_timerexp = <<>> /\ sigrt_deliver = <<>>
      /\ socket = <<>> /\ early = 0 /\ sigrt_network = 0
  BY DEF EventsInit
<1>2. EventsTypeOK
  BY DEF EventsInit, EventsTypeOK, EventsAssumption, Slot
<1>3. Len(<<>>) = 0
  OBVIOUS
<1>4. \A evt \in Event : Running(timers_pool, evt) = 0
  BY <1>1, RunningIs DEF Event
<1>5. \A evt : Expired(<<>>, evt) = 0 /\ Count(<<>>, evt) = 0
  <2>1. \A evt : /\ {k \in DOMAIN <<>> : <<>>[k].stc_evt = evt} = {}
                 /\ {k \in DOMAIN <<>> : <<>>[k] = evt} = {}
    OBVIOUS
  <2>2. QED
    BY <2>1, FS_EmptySet DEF Expired, Count
<1>6. \A ix : Pending(<<>>, ix) = 0
  <2>1. \A ix : {k \in DOMAIN <<>> : <<>>[k].stc_timer_idx = ix} = {}
    OBVIOUS
  <2>2. QED
    BY <2>1, FS_EmptySet DEF Pending
<1>7. \A evt \in Event : Due(evt) = 0
  BY <1>1, <1>4, <1>5, DueIsSum
<1>8. SlotsMatchTimers
  BY <1>1, <1>6, SlotsMatch
<1>9. SignalsCoverSocket
  BY <1>1, <1>3, <1>5 DEF SignalsCoverSocket
<1>10. \A evt \in Event : TimersAreFor(evt)
  BY <1>1, <1>3 DEF TimersAreFor
<1>11. QED
  BY <1>2, <1>7, <1>8, <1>9, <1>10 DEF EngineOK

(* An event is due nowhere only if it is in none of the places. *)
LEMMA DueNowhere ==
    ASSUME EventsAssumption, EventsTypeOK, NEW evt \in Event
    PROVE  /\ Due(evt) \in Nat
           /\ Count(sigrt_deliver, evt) <= Due(evt)
           /\ Due(evt) <= Count(sigrt_deliver, evt) =>
                 /\ Running(timers_pool, evt) = 0
                 /\ Expired(sigrt_timerexp, evt) = 0
           /\ Running(timers_pool, evt) = 0 /\ Expired(sigrt_timerexp, evt) = 0 =>
                 Due(evt) = Count(sigrt_deliver, evt)
<1> DEFINE r == Running(timers_pool, evt)
           x == Expired(sigrt_timerexp, evt)
           c == Count(sigrt_deliver, evt)
<1>1. r \in Nat /\ x \in Nat /\ c \in Nat
  BY RunningIs, ExpiredIs, CountIs DEF EventsTypeOK
<1>2. Due(evt) = r + x + c
  BY DueIsSum
<1> HIDE DEF r, x, c
<1>3. /\ Due(evt) \in Nat
      /\ c <= Due(evt)
      /\ Due(evt) <= c => r = 0 /\ x = 0
      /\ r = 0 /\ x = 0 => Due(evt) = c
  BY <1>1, <1>2
<1>4. QED
  BY <1>3 DEF r, x, c
=============================================================================
