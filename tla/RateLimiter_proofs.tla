------------------------- MODULE RateLimiter_proofs -------------------------
(***************************************************************************)
(* Safety of RateLimiter for every set of processes, clients and paths,    *)
(* every limit and window, and that it implements SlidingWindow.           *)
(***************************************************************************)
EXTENDS RateLimiter, FiniteSetTheorems, TLAPS

-----------------------------------------------------------------------------
\* The inductive invariant, as named conjuncts.

Finite == IsFiniteSet(log) /\ \A key \in Key : IsFiniteSet(zset[key])

\* Requests are numbered in the order of their decisions.
Numbered ==
  /\ \A d, e \in log : d.no = e.no => d = e
  /\ \A d \in log : d.no <= Cardinality(log)

\* Nothing is dated in the future, no request stalls for too long, and a key
\* outlives its members.
Dated ==
  /\ \A p \in Process : \A r \in inflight[p] : r.now <= now /\ now - r.now <= MaxStall
  /\ \A d \in log : d.at <= now
  /\ \A key \in Key : expires[key] <= now + Window
  /\ \A key \in Key : \A m \in zset[key] : m.score + Window <= expires[key]

\* What Redis keeps of a decision.
MemberOf(d) == [no |-> d.no, score |-> d.at]

\* Redis keeps requests that were made, and forgets none that a window may still
\* have to count.
Remembered ==
  /\ \A key \in Key : \A m \in zset[key] : \E d \in log : d.key = key /\ MemberOf(d) = m
  /\ \A d \in log : MemberOf(d) \in zset[d.key] \/ d.at + Window <= now

Inv == TypeOK /\ Finite /\ Numbered /\ Dated /\ Remembered

-----------------------------------------------------------------------------
\* The bounds are natural numbers, a window is longer than a stall.
LEMMA Bounds ==
  /\ Window \in Nat /\ Window > 0 /\ MaxStall \in Nat /\ MaxStall < Window
  /\ MaxRequests \in Nat /\ MaxTime \in Nat
BY TimeAssumption DEF TimeAssumption

\* Every key has a limit.
LEMMA Limits == \A key \in Key : LimitOf[key] \in Nat /\ LimitOf[key] > 0
BY LimitAssumption DEF LimitAssumption, LimitOf, _get_limit, Key

\* The fields of decisions, members and pending requests.
LEMMA Fields ==
  ASSUME TypeOK
  PROVE  /\ now \in Nat /\ now <= MaxTime
         /\ \A d \in log : /\ d.no \in Nat /\ d.key \in Key /\ d.at \in Nat
                           /\ d.admitted \in BOOLEAN
         /\ \A key \in Key : \A m \in zset[key] : m.no \in Nat /\ m.score \in Nat
         /\ \A key \in Key : expires[key] \in Nat
         /\ \A p \in Process : \A r \in inflight[p] :
              r.key \in Key /\ r.now \in Nat /\ r.now \in Time
<1>1. now \in Nat /\ now <= MaxTime
  BY Bounds DEF TypeOK, Time
<1>2. \A d \in log : /\ d.no \in Nat /\ d.key \in Key /\ d.at \in Nat
                     /\ d.admitted \in BOOLEAN
  BY Bounds DEF TypeOK, Decision, Time
<1>3. ASSUME NEW key \in Key
      PROVE  (\A m \in zset[key] : m.no \in Nat /\ m.score \in Nat) /\ expires[key] \in Nat
  BY Bounds DEF TypeOK, Member, Time
<1>4. ASSUME NEW p \in Process, NEW r \in inflight[p]
      PROVE  r.key \in Key /\ r.now \in Nat /\ r.now \in Time
  BY Bounds DEF TypeOK, Pending, Time
<1>. QED
  BY <1>1, <1>2, <1>3, <1>4

\* Distinct members come from distinct decisions, so they can be counted either way.
LEMMA CountMembers ==
  ASSUME TypeOK, Numbered, NEW D \in SUBSET log, NEW M, IsFiniteSet(D), IsFiniteSet(M)
  PROVE  /\ (\A d \in D : MemberOf(d) \in M) => Cardinality(D) <= Cardinality(M)
         /\ (\A m \in M : \E d \in D : MemberOf(d) = m) => Cardinality(M) <= Cardinality(D)
<1>1. ASSUME \A d \in D : MemberOf(d) \in M
      PROVE  Cardinality(D) <= Cardinality(M)
  <2> DEFINE f == [d \in D |-> MemberOf(d)]
  <2>1. f \in [D -> M]
    BY <1>1
  <2>2. ASSUME NEW d \in D, NEW e \in D, f[d] = f[e] PROVE d = e
    <3>1. d.no = e.no
      BY <2>2 DEF MemberOf
    <3>. QED
      BY <3>1 DEF Numbered
  <2>3. f \in Injection(D, M)
    BY <2>1, <2>2 DEF Injection, IsInjective
  <2>. QED
    BY <2>3, FS_Injection
<1>2. ASSUME \A m \in M : \E d \in D : MemberOf(d) = m
      PROVE  Cardinality(M) <= Cardinality(D)
  <2> DEFINE g == [m \in M |-> CHOOSE d \in D : MemberOf(d) = m]
  <2>1. \A m \in M : g[m] \in D /\ MemberOf(g[m]) = m
    BY <1>2
  <2>2. g \in [M -> D]
    BY <2>1
  <2> HIDE DEF g
  <2>3. \A m, n \in M : g[m] = g[n] => m = n
    BY <2>1
  <2>4. g \in Injection(M, D)
    BY <2>2, <2>3 DEF Injection, IsInjective
  <2>. QED
    BY <2>4, FS_Injection
<1>. QED
  BY <1>1, <1>2

-----------------------------------------------------------------------------
\* What one execution of the pipeline does, for the request r it is about.
Decides(p, r) ==
  LET kept == Pruned(r.key, r.now)
      no == Cardinality(log) + 1
  IN  /\ Cardinality(log) < MaxRequests
      /\ zset' = [zset EXCEPT ![r.key] = kept \cup {[no |-> no, score |-> r.now]}]
      /\ expires' = [expires EXCEPT ![r.key] = now + Window]
      /\ log' = log \cup {[no |-> no, key |-> r.key, at |-> r.now,
                           admitted |-> Admits(r.key, Cardinality(kept))]}
      /\ inflight' = [inflight EXCEPT ![p] = {}]
      /\ UNCHANGED now

\* Execute decides one of the process's requests.
LEMMA ExecuteDecides ==
  ASSUME NEW p \in Process, Execute(p)
  PROVE  \E r \in inflight[p] : Decides(p, r)
BY DEF Execute, Decides

\* What is left of a key after the pruning, and its count.
LEMMA Kept ==
  ASSUME Inv, NEW p \in Process, NEW r \in inflight[p]
  PROVE  LET kept == Pruned(r.key, r.now) IN
         /\ kept \subseteq zset[r.key] /\ IsFiniteSet(kept) /\ Cardinality(kept) \in Nat
         /\ \A m \in zset[r.key] : m \in kept <=> m.score > r.now - Window
<1>1. r.key \in Key
  BY Fields DEF Inv
<1>2. IsFiniteSet(zset[r.key]) /\ Pruned(r.key, r.now) \in SUBSET zset[r.key]
  BY <1>1 DEF Inv, Finite, Pruned
<1>. QED
  BY <1>2, FS_Subset, FS_CardinalityType DEF Pruned

\* The new decision is numbered as no other.
LEMMA NextNumber ==
  ASSUME Inv, NEW p \in Process, NEW r \in inflight[p], Decides(p, r)
  PROVE  /\ Cardinality(log) \in Nat /\ Cardinality(log') = Cardinality(log) + 1
         /\ IsFiniteSet(log') /\ Cardinality(log) + 1 \in 1..MaxRequests
<1> DEFINE d == [no |-> Cardinality(log) + 1, key |-> r.key, at |-> r.now,
                 admitted |-> Admits(r.key, Cardinality(Pruned(r.key, r.now)))]
<1>1. Cardinality(log) \in Nat /\ IsFiniteSet(log) /\ Cardinality(log) < MaxRequests
  BY FS_CardinalityType DEF Inv, Finite, Decides
<1>2. d \notin log
  BY <1>1 DEF Inv, Numbered
<1>3. log' = log \cup {d}
  BY DEF Decides
<1> HIDE DEF d
<1>4. IsFiniteSet(log') /\ Cardinality(log') = Cardinality(log) + 1
  BY <1>1, <1>2, <1>3, FS_AddElement
<1>. QED
  BY <1>1, <1>4, Bounds

\* An execution of the pipeline keeps the invariant.
LEMMA ExecuteKeepsInv ==
  ASSUME Inv, NEW p \in Process, NEW r \in inflight[p], Decides(p, r)
  PROVE  Inv'
<1> DEFINE kept == Pruned(r.key, r.now)
           no == Cardinality(log) + 1
           d == [no |-> no, key |-> r.key, at |-> r.now,
                 admitted |-> Admits(r.key, Cardinality(kept))]
<1>1. /\ zset' = [zset EXCEPT ![r.key] = kept \cup {MemberOf(d)}]
      /\ expires' = [expires EXCEPT ![r.key] = now + Window]
      /\ log' = log \cup {d}
      /\ inflight' = [inflight EXCEPT ![p] = {}]
      /\ now' = now
  BY DEF Decides, MemberOf
<1>2. /\ kept \subseteq zset[r.key] /\ IsFiniteSet(kept) /\ Cardinality(kept) \in Nat
      /\ \A m \in zset[r.key] : m \in kept <=> m.score > r.now - Window
  BY Kept
<1>3. /\ Cardinality(log) \in Nat /\ Cardinality(log') = no
      /\ IsFiniteSet(log') /\ no \in 1..MaxRequests
  BY NextNumber
<1>4. /\ r.key \in Key /\ r.now \in Time /\ r.now \in Nat /\ now \in Nat /\ now <= MaxTime
      /\ r.now <= now
  BY Fields DEF Inv, Dated
<1>5. /\ d.no = no /\ d.key = r.key /\ d.at = r.now
      /\ d \in Decision /\ MemberOf(d) \in Member
  BY <1>3, <1>4 DEF Decision, Member, MemberOf, Admits
<1>6. TypeOK /\ Finite /\ Numbered /\ Dated /\ Remembered
  BY DEF Inv
<1>7. \A key \in Key : zset'[key] = IF key = r.key THEN kept \cup {MemberOf(d)} ELSE zset[key]
  BY <1>1, <1>6 DEF TypeOK
<1>8. \A key \in Key : expires'[key] = IF key = r.key THEN now + Window ELSE expires[key]
  BY <1>1, <1>6 DEF TypeOK
<1>9. MemberOf(d).no = no /\ MemberOf(d).score = r.now
  BY DEF MemberOf
<1> HIDE DEF kept, no, d
<1>10. TypeOK'
  <2>1. kept \cup {MemberOf(d)} \in SUBSET Member
    BY <1>2, <1>4, <1>5, <1>6 DEF TypeOK
  <2>2. now + Window \in 0..(MaxTime + Window)
    BY <1>4, Bounds
  <2>. QED
    BY <1>1, <1>4, <1>5, <1>6, <2>1, <2>2 DEF TypeOK
<1>11. Finite'
  <2>1. IsFiniteSet(kept \cup {MemberOf(d)})
    BY <1>2, FS_AddElement
  <2>. QED
    BY <1>3, <1>6, <1>7, <2>1 DEF Finite
<1>12. Numbered'
  <2>1. \A e \in log : e.no \in Nat /\ e.no <= Cardinality(log) /\ e.no # no
    BY <1>3, <1>6, Fields DEF Numbered, no
  <2>2. \A e, f \in log' : e.no = f.no => e = f
    BY <1>1, <1>5, <1>6, <2>1 DEF Numbered
  <2>3. \A e \in log' : e.no <= Cardinality(log')
    BY <1>1, <1>3, <1>5, <2>1 DEF no
  <2>. QED
    BY <2>2, <2>3 DEF Numbered
<1>13. Dated'
  <2>1. \A q \in Process : \A s \in inflight'[q] : s \in inflight[q]
    BY <1>1, <1>6 DEF TypeOK
  <2>2. \A key \in Key : expires[key] \in Nat /\ expires[key] <= now + Window
    BY <1>6, Fields DEF Dated
  <2>3. ASSUME NEW key \in Key, NEW m \in zset'[key] PROVE m.score + Window <= expires'[key]
    <3>1. CASE key = r.key /\ m = MemberOf(d)
      BY <1>4, <1>8, <1>9, <3>1, Bounds
    <3>2. CASE m \in zset[key]
      <4>1. m.score \in Nat /\ m.score + Window <= expires[key]
        BY <1>6, <3>2, Fields DEF Dated
      <4>. QED
        BY <1>4, <1>8, <2>2, <4>1, Bounds
    <3>. QED
      BY <1>2, <1>7, <2>3, <3>1, <3>2
  <2>4. \A key \in Key : expires'[key] <= now' + Window
    BY <1>1, <1>4, <1>8, <2>2, Bounds
  <2>5. \A e \in log' : e.at <= now'
    BY <1>1, <1>4, <1>5, <1>6 DEF Dated
  <2>. QED
    BY <1>1, <1>6, <2>1, <2>3, <2>4, <2>5 DEF Dated
<1>14. Remembered'
  <2>1. ASSUME NEW key \in Key, NEW m \in zset'[key]
        PROVE  \E e \in log' : e.key = key /\ MemberOf(e) = m
    <3>1. CASE key = r.key /\ m = MemberOf(d)
      BY <1>1, <1>5, <3>1
    <3>2. CASE m \in zset[key]
      BY <1>1, <1>6, <3>2 DEF Remembered
    <3>. QED
      BY <1>2, <1>7, <2>1, <3>1, <3>2
  <2>2. ASSUME NEW e \in log' PROVE MemberOf(e) \in zset'[e.key] \/ e.at + Window <= now'
    <3>1. CASE e = d
      BY <1>4, <1>5, <1>7, <3>1
    <3>2. CASE e \in log
      <4>1. /\ e.key \in Key /\ e.at \in Nat
            /\ MemberOf(e) \in zset[e.key] \/ e.at + Window <= now
        BY <1>6, <3>2, Fields DEF Remembered
      <4>2. CASE e.key = r.key /\ MemberOf(e) \in zset[e.key] /\ MemberOf(e) \notin kept
        <5>1. ~(e.at > r.now - Window)
          BY <1>2, <4>2 DEF MemberOf
        <5>. QED
          BY <1>1, <1>4, <4>1, <5>1, Bounds
      <4>. QED
        BY <1>1, <1>7, <4>1, <4>2
    <3>. QED
      BY <1>1, <3>1, <3>2
  <2>. QED
    BY <2>1, <2>2 DEF Remembered
<1>. QED
  BY <1>10, <1>11, <1>12, <1>13, <1>14 DEF Inv

\* A key that is dropped has no member that a window may still have to count.
LEMMA ExpireKeepsInv ==
  ASSUME Inv, NEW key \in Key, Expire(key)
  PROVE  Inv'
<1>1. TypeOK /\ Finite /\ Numbered /\ Dated /\ Remembered
  BY DEF Inv
<1>2. /\ UNCHANGED <<now, inflight, expires, log>> /\ now >= expires[key]
      /\ \A k \in Key : zset'[k] = IF k = key THEN {} ELSE zset[k]
  BY <1>1 DEF Expire, TypeOK
<1>3. TypeOK'
  BY <1>1, <1>2 DEF Expire, TypeOK
<1>4. Finite'
  BY <1>1, <1>2, FS_EmptySet DEF Finite
<1>5. Numbered' /\ Dated'
  BY <1>1, <1>2 DEF Numbered, Dated
<1>6. ASSUME NEW d \in log PROVE MemberOf(d) \in zset'[d.key] \/ d.at + Window <= now
  <2>1. /\ d.key \in Key /\ d.at \in Nat
        /\ MemberOf(d) \in zset[d.key] \/ d.at + Window <= now
    BY <1>1, Fields DEF Remembered
  <2>2. CASE d.key = key /\ MemberOf(d) \in zset[d.key]
    <3>1. d.at + Window <= expires[key]
      BY <1>1, <2>2 DEF Dated, MemberOf
    <3>. QED
      BY <1>1, <1>2, <2>1, <3>1, Fields, Bounds
  <2>. QED
    BY <1>2, <2>1, <2>2
<1>7. Remembered'
  BY <1>1, <1>2, <1>6 DEF Remembered, MemberOf
<1>. QED
  BY <1>3, <1>4, <1>5, <1>7 DEF Inv

\* The limiter forgets nothing that still counts.
THEOREM Invariance == Spec => []Inv
<1>1. Init => Inv
  <2> SUFFICES ASSUME Init PROVE Inv
    OBVIOUS
  <2>1. TypeOK
    BY Bounds DEF Init, TypeOK, Time
  <2>2. Finite /\ Numbered
    BY FS_EmptySet DEF Init, Finite, Numbered
  <2>3. Dated /\ Remembered
    BY Bounds DEF Init, Dated, Remembered
  <2>. QED
    BY <2>1, <2>2, <2>3 DEF Inv
<1>2. Inv /\ [Next]_vars => Inv'
  <2> SUFFICES ASSUME Inv, [Next]_vars PROVE Inv'
    OBVIOUS
  <2>a. TypeOK /\ Finite /\ Numbered /\ Dated /\ Remembered
    BY DEF Inv
  <2>b. now \in Nat /\ now <= MaxTime
    BY <2>a, Fields
  <2>1. CASE Tick
    <3>1. now' = now + 1 /\ now' \in Time /\ UNCHANGED <<inflight, zset, expires, log>>
      BY <2>b, <2>1, Bounds DEF Tick, Time
    <3>2. TypeOK' /\ Finite' /\ Numbered'
      BY <2>a, <3>1 DEF TypeOK, Finite, Numbered
    <3>3. ASSUME NEW p \in Process, NEW r \in inflight[p]
          PROVE  r.now <= now' /\ now' - r.now <= MaxStall
      BY <2>a, <2>b, <2>1, Fields, Bounds DEF Tick, Dated
    <3>4. \A d \in log : d.at <= now'
      BY <2>a, <2>b, <3>1, Fields DEF Dated
    <3>5. \A key \in Key : expires[key] <= now' + Window
      BY <2>a, <2>b, <3>1, Fields, Bounds DEF Dated
    <3>6. Dated'
      BY <2>a, <3>1, <3>3, <3>4, <3>5 DEF Dated
    <3>7. \A d \in log : MemberOf(d) \in zset[d.key] \/ d.at + Window <= now + 1
      BY <2>a, <2>b, Fields, Bounds DEF Remembered
    <3>8. Remembered'
      BY <2>a, <3>1, <3>7 DEF Remembered, MemberOf
    <3>. QED
      BY <3>2, <3>6, <3>8 DEF Inv
  <2>2. ASSUME NEW p \in Process, NEW client \in Client, NEW path \in Path,
               Arrive(p, client, path)
        PROVE  Inv'
    <3> DEFINE r == [key |-> <<client, path>>, now |-> now]
    <3>1. r \in Pending /\ r.now = now
      BY <2>a DEF TypeOK, Pending, Key
    <3>2. inflight' = [inflight EXCEPT ![p] = {r}] /\ UNCHANGED <<now, zset, expires, log>>
      BY <2>2 DEF Arrive
    <3> HIDE DEF r
    <3>3. TypeOK'
      BY <2>a, <3>1, <3>2 DEF TypeOK
    <3>4. \A q \in Process : \A s \in inflight'[q] : s \in inflight[q] \/ s = r
      BY <2>a, <3>2 DEF TypeOK
    <3>5. Dated'
      BY <2>a, <2>b, <3>1, <3>2, <3>4, Bounds DEF Dated
    <3>. QED
      BY <2>a, <3>2, <3>3, <3>5 DEF Inv, Finite, Numbered, Remembered, MemberOf
  <2>3. ASSUME NEW p \in Process, Execute(p) PROVE Inv'
    BY <2>3, ExecuteDecides, ExecuteKeepsInv
  <2>4. ASSUME NEW p \in Process, RedisFails(p) PROVE Inv'
    <3>1. TypeOK'
      BY <2>a, <2>4 DEF TypeOK, RedisFails
    <3>2. \A q \in Process : \A s \in inflight'[q] : s \in inflight[q]
      BY <2>a, <2>4 DEF TypeOK, RedisFails
    <3>3. Dated'
      BY <2>a, <2>4, <3>2 DEF Dated, RedisFails
    <3>. QED
      BY <2>a, <2>4, <3>1, <3>3 DEF RedisFails, Inv, Finite, Numbered, Remembered, MemberOf
  <2>5. ASSUME NEW key \in Key, Expire(key) PROVE Inv'
    BY <2>5, ExpireKeepsInv
  <2>6. CASE UNCHANGED vars
    BY <2>a, <2>6 DEF vars, Inv, TypeOK, Finite, Numbered, Dated, Remembered, MemberOf
  <2>. QED
    BY <2>1, <2>2, <2>3, <2>4, <2>5, <2>6 DEF Next
<1>. QED
  BY <1>1, <1>2, PTL DEF Spec

\* Every reachable state is well typed.
THEOREM TypeCorrect == Spec => []TypeOK
<1>1. Inv => TypeOK
  BY DEF Inv
<1>. QED
  BY <1>1, Invariance, PTL

-----------------------------------------------------------------------------
\* The abstract limiter.

\* The instance counts as the module that uses it does.
LEMMA SameCardinality == \A S : Ideal!Cardinality(S) = Cardinality(S)
BY DEF Ideal!Cardinality, Cardinality

\* The pipeline decides as a limiter that remembers everything may decide, up to
\* the time a request may stall.
LEMMA ExecuteRefines ==
  ASSUME Inv, NEW p \in Process, NEW r \in inflight[p], Decides(p, r)
  PROVE  \E admitted \in BOOLEAN :
           /\ Ideal!Decide(r.key, r.now, admitted)
           /\ log' = log \cup {[no |-> Cardinality(log) + 1, key |-> r.key, at |-> r.now,
                                admitted |-> admitted]}
<1> DEFINE kept == Pruned(r.key, r.now)
           admitted == Admits(r.key, Cardinality(kept))
           recent == Ideal!InWindow(r.key, r.now, Window - MaxStall)
           window == Ideal!InWindow(r.key, r.now, Window)
<1>1. /\ kept \subseteq zset[r.key] /\ IsFiniteSet(kept) /\ Cardinality(kept) \in Nat
      /\ \A m \in zset[r.key] : m \in kept <=> m.score > r.now - Window
  BY Kept
<1>2. /\ r.key \in Key /\ r.now \in Nat /\ now \in Nat /\ r.now <= now
      /\ now - r.now <= MaxStall
  BY Fields DEF Inv, Dated
<1>3. TypeOK /\ Finite /\ Numbered /\ Dated /\ Remembered
  BY DEF Inv
<1>4. /\ recent \in SUBSET log /\ window \in SUBSET log
      /\ \A d \in recent : d.key = r.key /\ d.at > r.now - (Window - MaxStall)
      /\ \A d \in log : d.key = r.key /\ d.at > r.now - Window => d \in window
  BY DEF Ideal!InWindow
<1>5. /\ IsFiniteSet(recent) /\ IsFiniteSet(window)
      /\ Cardinality(recent) \in Nat /\ Cardinality(window) \in Nat
  BY <1>3, <1>4, FS_Subset, FS_CardinalityType DEF Finite
<1>6. admitted \in BOOLEAN /\ (admitted <=> Cardinality(kept) < LimitOf[r.key])
  BY DEF Admits
<1>7. log' = log \cup {[no |-> Cardinality(log) + 1, key |-> r.key, at |-> r.now,
                        admitted |-> admitted]}
  BY DEF Decides
<1> HIDE DEF kept, admitted, recent, window
<1>8. \A d \in log : d.key = r.key => d.at <= r.now + MaxStall
  BY <1>2, <1>3, Fields, Bounds DEF Dated
<1>9. Cardinality(recent) <= Cardinality(kept)
  <2>1. ASSUME NEW d \in recent PROVE MemberOf(d) \in kept
    <3>1. d \in log /\ d.key = r.key /\ d.at \in Nat /\ d.at > r.now - (Window - MaxStall)
      BY <1>3, <1>4, Fields
    <3>2. ~(d.at + Window <= now) /\ d.at > r.now - Window
      BY <1>2, <3>1, Bounds
    <3>3. MemberOf(d) \in zset[r.key]
      BY <1>3, <3>1, <3>2 DEF Remembered
    <3>. QED
      BY <1>1, <3>2, <3>3 DEF MemberOf
  <2>. QED
    BY <1>1, <1>3, <1>4, <1>5, <2>1, CountMembers
<1>10. Cardinality(kept) <= Cardinality(window)
  <2>1. ASSUME NEW m \in kept PROVE \E d \in window : MemberOf(d) = m
    <3>1. PICK d \in log : d.key = r.key /\ MemberOf(d) = m
      BY <1>1, <1>2, <1>3 DEF Remembered
    <3>2. d.at > r.now - Window
      BY <1>1, <3>1 DEF MemberOf
    <3>. QED
      BY <1>4, <3>1, <3>2
  <2>. QED
    BY <1>1, <1>3, <1>4, <1>5, <2>1, CountMembers
<1>11. admitted => Cardinality(recent) < LimitOf[r.key]
  BY <1>1, <1>2, <1>5, <1>6, <1>9, Limits
<1>12. ~admitted => Cardinality(window) >= LimitOf[r.key]
  BY <1>1, <1>2, <1>5, <1>6, <1>10, Limits
<1>13. Ideal!Decide(r.key, r.now, admitted)
  BY <1>7, <1>8, <1>11, <1>12, SameCardinality DEF Ideal!Decide, recent, window
<1>. QED
  BY <1>6, <1>7, <1>13

\* Every step of the limiter is one of the abstract limiter or leaves its log
\* alone.
LEMMA StepRefines == Inv /\ [Next]_vars => [Ideal!Next]_log
<1> SUFFICES ASSUME Inv, [Next]_vars PROVE [Ideal!Next]_log
  OBVIOUS
<1>1. ASSUME NEW p \in Process, Execute(p) PROVE Ideal!Next
  <2>1. PICK r \in inflight[p] : Decides(p, r)
    BY <1>1, ExecuteDecides
  <2>2. r.key \in Key /\ r.now \in Time
    BY Fields DEF Inv
  <2>. QED
    BY <2>1, <2>2, ExecuteRefines DEF Ideal!Next
<1>2. CASE ~\E p \in Process : Execute(p)
  BY <1>2 DEF Next, vars, Tick, Arrive, RedisFails, Expire
<1>. QED
  BY <1>1, <1>2

\* Forgetting old members and expired keys changes no decision: the limiter
\* implements the one that remembers everything (RateLimitMiddleware.dispatch
\* and the expiry of the keys by Redis).
THEOREM ImplementsSlidingWindow == Spec => IsSlidingWindow
<1>1. Init => Ideal!Init
  BY DEF Init, Ideal!Init
<1>. QED
  BY <1>1, StepRefines, Invariance, PTL DEF Spec, IsSlidingWindow, Ideal!Spec

-----------------------------------------------------------------------------
\* The limit.

\* What a client got through on a path in the window, less the stall, up to t.
Admitted(key, t) ==
  {d \in log : d.key = key /\ d.admitted /\ d.at <= t /\ d.at > t - (Window - MaxStall)}

\* A client gets at most the limit through in any window, less the stall, whatever
\* its requests in several processes and the expiry of the key do to each other
\* (RateLimitMiddleware.dispatch).
THEOREM NeverOverLimit == Spec => []AdmittedWithinLimit
<1>1. Init => AdmittedWithinLimit
  <2> SUFFICES ASSUME Init, NEW key \in Key, NEW t \in Time
               PROVE  Cardinality(Admitted(key, t)) <= LimitOf[key]
    BY DEF AdmittedWithinLimit, Admitted
  <2>1. Admitted(key, t) = {}
    BY DEF Init, Admitted
  <2>. QED
    BY <2>1, FS_EmptySet, Limits
<1>2. Inv /\ AdmittedWithinLimit /\ [Next]_vars => AdmittedWithinLimit'
  <2> SUFFICES ASSUME Inv, AdmittedWithinLimit, [Next]_vars, NEW key \in Key, NEW t \in Time
               PROVE  Cardinality(Admitted(key, t)') <= LimitOf[key]
    BY DEF AdmittedWithinLimit, Admitted
  <2>1. Cardinality(Admitted(key, t)) <= LimitOf[key]
    BY DEF AdmittedWithinLimit, Admitted
  <2>2. CASE UNCHANGED log
    BY <2>1, <2>2 DEF Admitted
  <2>3. ASSUME NEW p \in Process, Execute(p)
        PROVE  Cardinality(Admitted(key, t)') <= LimitOf[key]
    <3>1. PICK r \in inflight[p] : Decides(p, r)
      BY <2>3, ExecuteDecides
    <3>2. PICK admitted \in BOOLEAN :
             /\ Ideal!Decide(r.key, r.now, admitted)
             /\ log' = log \cup {[no |-> Cardinality(log) + 1, key |-> r.key, at |-> r.now,
                                  admitted |-> admitted]}
      BY <3>1, ExecuteRefines
    <3> DEFINE d == [no |-> Cardinality(log) + 1, key |-> r.key, at |-> r.now,
                     admitted |-> admitted]
               recent == Ideal!InWindow(r.key, r.now, Window - MaxStall)
    <3>3. log' = log \cup {d} /\ d.key = r.key /\ d.at = r.now /\ d.admitted = admitted
      BY <3>2
    <3>4. admitted => Cardinality(recent) < LimitOf[r.key]
      BY <3>2, SameCardinality DEF Ideal!Decide
    <3>5. /\ recent \in SUBSET log
          /\ \A e \in log : e.key = r.key /\ e.at > r.now - (Window - MaxStall) => e \in recent
      BY DEF Ideal!InWindow
    <3> HIDE DEF d, recent
    <3>6. CASE d \in Admitted(key, t)'
      <4>1. /\ r.key = key /\ admitted /\ r.now <= t
            /\ r.now \in Nat /\ t \in Nat
        BY <3>1, <3>3, <3>6, Fields, Bounds DEF Admitted, Inv, Time
      <4>2. Admitted(key, t)' \subseteq recent \cup {d}
        <5> SUFFICES ASSUME NEW e \in Admitted(key, t)', e # d PROVE e \in recent
          OBVIOUS
        <5>1. e \in log /\ e.key = key /\ e.at > t - (Window - MaxStall)
          BY <3>3 DEF Admitted
        <5>2. e.at \in Nat
          BY <5>1, Fields DEF Inv
        <5>. QED
          BY <3>5, <4>1, <5>1, <5>2, Bounds
      <4>3. IsFiniteSet(recent) /\ Cardinality(recent) \in Nat
        BY <3>5, FS_Subset, FS_CardinalityType DEF Inv, Finite
      <4>4. /\ IsFiniteSet(recent \cup {d})
            /\ Cardinality(recent \cup {d}) <= Cardinality(recent) + 1
        BY <4>3, FS_AddElement
      <4>5. /\ Cardinality(Admitted(key, t)') <= Cardinality(recent \cup {d})
            /\ Cardinality(Admitted(key, t)') \in Nat /\ Cardinality(recent \cup {d}) \in Nat
        BY <4>2, <4>4, FS_Subset, FS_CardinalityType
      <4>. QED
        BY <3>4, <4>1, <4>3, <4>4, <4>5, Limits
    <3>7. CASE d \notin Admitted(key, t)'
      <4>1. Admitted(key, t)' \subseteq Admitted(key, t)
        BY <3>3, <3>7 DEF Admitted
      <4>2. IsFiniteSet(Admitted(key, t))
        <5>1. Admitted(key, t) \in SUBSET log
          BY DEF Admitted
        <5>. QED
          BY <5>1, FS_Subset DEF Inv, Finite
      <4>3. /\ Cardinality(Admitted(key, t)') <= Cardinality(Admitted(key, t))
            /\ Cardinality(Admitted(key, t)') \in Nat /\ Cardinality(Admitted(key, t)) \in Nat
        BY <4>1, <4>2, FS_Subset, FS_CardinalityType
      <4>. QED
        BY <2>1, <4>3, Limits
    <3>. QED
      BY <3>6, <3>7
  <2>4. CASE ~\E p \in Process : Execute(p)
    <3>1. UNCHANGED log
      BY <2>4 DEF Next, vars, Tick, Arrive, RedisFails, Expire
    <3>. QED
      BY <2>2, <3>1
  <2>. QED
    BY <2>3, <2>4
<1>. QED
  BY <1>1, <1>2, Invariance, PTL DEF Spec
=============================================================================
