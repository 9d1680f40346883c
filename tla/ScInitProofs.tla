---------------------------- MODULE ScInitProofs ----------------------------
(***************************************************************************)
(* The registry of YANG models, for any number of models and any number of *)
(* subscriptions.                                                          *)
(***************************************************************************)
EXTENDS ScInit, SequenceTheorems, TLAPS

Walking == {"init", "init_failed", "ready", "exit"}

(***************************************************************************)
(* The lists: a constructor or destructor keeps them in step with the code *)
(* that is loaded, and between loading and unloading they are complete.    *)
(***************************************************************************)
Lists ==
  /\ registrations \in [Tags -> Seq(Models)]
  /\ loaded \in [Tags -> SUBSET Models]
  /\ RegistryExact
  /\ pc \in Walking => \A t \in Tags : loaded[t] = Models
  /\ pc \in Walking \cup {"loading", "unloading"}

\* The flag and the history of calls say the same.
Flags ==
  /\ is_called \in [Tags -> SUBSET Models]
  /\ calls \in [Models -> Nat]
  /\ \A m \in Models : calls[m] = IF m \in is_called["init"] THEN 1 ELSE 0

\* The init function in progress has its flag set.
Current ==
  /\ cur \in Models \cup {NoModel}
  /\ pc # "init" => cur = NoModel
  /\ cur # NoModel => cur \in is_called["init"]

\* Subscriptions: none before the call, not all before it returns.
Subscribed ==
  /\ subs \in [Models -> Nat]
  /\ \A m \in Models :
       /\ subs[m] <= NPoints[m]
       /\ m = cur => subs[m] < NPoints[m]
       /\ m \notin is_called["init"] => subs[m] = 0

\* What the walk has not reached yet is ahead of it.
Ahead ==
  /\ p \in Seq(Models)
  /\ pc = "init" => Models \subseteq is_called["init"] \cup Range(p)
  /\ pc = "ready" => Models \subseteq is_called["init"]

\* A call without an error has returned with all its subscriptions.
Returned ==
  /\ failed \subseteq Models /\ private_ctx \in BOOLEAN
  /\ pc = "loading" => is_called["init"] = {}
  /\ pc \in {"init", "init_failed", "ready"} =>
       \A m \in is_called["init"] :
         subs[m] = NPoints[m] \/ m = cur \/ m \in failed

(***************************************************************************)
(* The inductive invariant.                                                *)
(***************************************************************************)
RegistryInv == Lists /\ Flags /\ Current /\ Subscribed /\ Ahead /\ Returned

-----------------------------------------------------------------------------
(***************************************************************************)
(* Lists: a new head, the rest, and an element taken out.                  *)
(***************************************************************************)
LEMMA ConsElements ==
  ASSUME NEW S, NEW s \in Seq(S), NEW e \in S
  PROVE  /\ <<e>> \o s \in Seq(S)
         /\ Len(<<e>> \o s) = Len(s) + 1
         /\ (<<e>> \o s)[1] = e
         /\ \A i \in 1..Len(s) : (<<e>> \o s)[i + 1] = s[i]
         /\ \A i \in 2..(Len(s) + 1) : (<<e>> \o s)[i] = s[i - 1]
<1>1. <<e>> \in Seq(S) /\ Len(<<e>>) = 1 /\ <<e>>[1] = e
  OBVIOUS
<1>2. QED
  BY <1>1, ConcatProperties

\* Range and injectivity of a list with a new head.
LEMMA ConsRange ==
  ASSUME NEW S, NEW s \in Seq(S), NEW e \in S
  PROVE  /\ Range(<<e>> \o s) = {e} \cup Range(s)
         /\ IsInjective(s) /\ e \notin Range(s) => IsInjective(<<e>> \o s)
<1>. DEFINE t == <<e>> \o s
<1>1. /\ t \in Seq(S) /\ Len(t) = Len(s) + 1 /\ t[1] = e
      /\ \A i \in 1..Len(s) : t[i + 1] = s[i]
      /\ \A i \in 2..(Len(s) + 1) : t[i] = s[i - 1]
  BY ConsElements
<1>2. DOMAIN t = 1..(Len(s) + 1) /\ DOMAIN s = 1..Len(s) /\ Len(s) \in Nat
  BY <1>1, LenProperties
<1>. HIDE DEF t
<1>3. Range(t) = {e} \cup Range(s)
  <2>1. ASSUME NEW x \in Range(t) PROVE x \in {e} \cup Range(s)
    <3>1. PICK i \in 1..(Len(s) + 1) : x = t[i]
      BY <1>2 DEF Range
    <3>2. CASE i = 1
      BY <1>1, <3>1, <3>2
    <3>3. CASE i # 1
      <4>1. i \in 2..(Len(s) + 1) /\ i - 1 \in 1..Len(s)
        BY <1>2, <3>3
      <4>2. x = s[i - 1]
        BY <1>1, <3>1, <4>1
      <4>3. QED
        BY <1>2, <4>1, <4>2 DEF Range
    <3>4. QED
      BY <3>2, <3>3
  <2>2. ASSUME NEW x \in Range(s) PROVE x \in Range(t)
    <3>1. PICK i \in 1..Len(s) : x = s[i]
      BY <1>2 DEF Range
    <3>2. i + 1 \in DOMAIN t /\ t[i + 1] = x
      BY <1>1, <1>2, <3>1
    <3>3. QED
      BY <3>2 DEF Range
  <2>3. e \in Range(t)
    <3>1. 1 \in DOMAIN t
      BY <1>2
    <3>2. QED
      BY <1>1, <3>1 DEF Range
  <2>4. QED
    BY <2>1, <2>2, <2>3
<1>4. ASSUME IsInjective(s), e \notin Range(s),
             NEW a \in DOMAIN t, NEW b \in DOMAIN t, t[a] = t[b]
      PROVE  a = b
  <2>1. \A i \in 2..(Len(s) + 1) : i - 1 \in DOMAIN s /\ t[i] = s[i - 1]
    BY <1>1, <1>2
  <2>2. \A i \in 2..(Len(s) + 1) : t[i] # e
    BY <2>1, <1>4 DEF Range
  <2>3. a \in 1..(Len(s) + 1) /\ b \in 1..(Len(s) + 1)
    BY <1>2
  <2>4. CASE a = 1 \/ b = 1
    BY <1>1, <1>2, <1>4, <2>2, <2>3, <2>4
  <2>5. CASE a # 1 /\ b # 1
    <3>1. a \in 2..(Len(s) + 1) /\ b \in 2..(Len(s) + 1)
      BY <1>2, <2>3, <2>5
    <3>2. a - 1 = b - 1
      BY <1>4, <2>1, <3>1 DEF IsInjective
    <3>3. QED
      BY <3>1, <3>2
  <2>6. QED
    BY <2>4, <2>5
<1>5. QED
  BY <1>3, <1>4 DEF t, IsInjective

\* The head of a list and the elements behind it.
LEMMA TailRange ==
  ASSUME NEW S, NEW s \in Seq(S), s # <<>>
  PROVE  /\ Head(s) \in S /\ Tail(s) \in Seq(S)
         /\ Head(s) = s[1]
         /\ Len(Tail(s)) = Len(s) - 1 /\ Len(s) \in Nat \ {0}
         /\ \A i \in 1..Len(Tail(s)) : Tail(s)[i] = s[i + 1]
         /\ Range(s) = {Head(s)} \cup Range(Tail(s))
<1>1. /\ Head(s) \in S /\ Tail(s) \in Seq(S)
      /\ Len(Tail(s)) = Len(s) - 1 /\ Len(s) \in Nat \ {0}
      /\ \A i \in 1..Len(Tail(s)) : Tail(s)[i] = s[i + 1]
  BY HeadTailProperties, EmptySeq
<1>2. Head(s) = s[1]
  OBVIOUS
<1>3. /\ Range(s) = {s[i] : i \in 1..Len(s)}
      /\ Range(Tail(s)) = {Tail(s)[i] : i \in 1..Len(Tail(s))}
  BY <1>1, RangeEquality
<1>4. ASSUME NEW x \in Range(s) PROVE x \in {Head(s)} \cup Range(Tail(s))
  <2>1. PICK i \in 1..Len(s) : x = s[i]
    BY <1>3
  <2>2. CASE i = 1
    BY <2>1, <2>2, <1>2
  <2>3. CASE i # 1
    <3>1. i - 1 \in 1..Len(Tail(s)) /\ Tail(s)[i - 1] = x
      BY <1>1, <2>1, <2>3
    <3>2. QED
      BY <1>3, <3>1
  <2>4. QED
    BY <2>2, <2>3
<1>5. ASSUME NEW x \in {Head(s)} \cup Range(Tail(s)) PROVE x \in Range(s)
  <2>1. CASE x = Head(s)
    BY <1>1, <1>2, <1>3, <2>1
  <2>2. CASE x \in Range(Tail(s))
    <3>1. PICK i \in 1..Len(Tail(s)) : x = Tail(s)[i]
      BY <1>3, <2>2
    <3>2. i + 1 \in 1..Len(s) /\ x = s[i + 1]
      BY <1>1, <3>1
    <3>3. QED
      BY <1>3, <3>2
  <2>3. QED
    BY <2>1, <2>2
<1>6. QED
  BY <1>1, <1>2, <1>4, <1>5

\* What a destructor leaves of a list without duplicates.
LEMMA UnlinkRange ==
  ASSUME NEW S, NEW s \in Seq(S), IsInjective(s), NEW e \in Range(s)
  PROVE  /\ Unlink(s, e) \in Seq(S)
         /\ Range(Unlink(s, e)) = Range(s) \ {e}
         /\ IsInjective(Unlink(s, e))
<1>1. DOMAIN s = 1..Len(s) /\ Len(s) \in Nat /\ \A i \in 1..Len(s) : s[i] \in S
  BY LenProperties, ElementOfSeq
<1>2. PICK k \in 1..Len(s) : s[k] = e
  BY <1>1 DEF Range
<1>3. Unlink(s, e) = RemoveAt(s, k)
  <2>. DEFINE I == {i \in 1..Len(s) : s[i] = e}
  <2>1. I = {k}
    BY <1>1, <1>2 DEF IsInjective
  <2>2. Min(I) = k
    BY <2>1, <1>2, <1>1 DEF Min
  <2>3. SelectInSeq(s, LAMBDA v : v = e) = k
    BY <2>1, <2>2 DEF SelectInSeq
  <2>4. QED
    BY <1>2, <2>3 DEF Unlink, RemoveFirst
<1>. DEFINE t == RemoveAt(s, k)
<1>4. /\ t \in Seq(S) /\ Len(t) = Len(s) - 1
      /\ \A i \in 1..(Len(s) - 1) : t[i] = IF i < k THEN s[i] ELSE s[i + 1]
  <2>. DEFINE l == SubSeq(s, 1, k - 1)
              r == SubSeq(s, k + 1, Len(s))
  <2>1. /\ l \in Seq(S) /\ Len(l) = k - 1
        /\ \A i \in 1..(k - 1) : l[i] = s[i]
    <3>1. \A i \in 1..(k - 1) : s[i] \in S
      BY <1>1
    <3>2. k - 1 \in Int /\ (k - 1) - 1 + 1 = k - 1
      BY <1>1
    <3>3. QED
      BY <1>1, <3>1, <3>2, SubSeqProperties
  <2>2. /\ r \in Seq(S) /\ Len(r) = Len(s) - k
        /\ \A i \in 1..(Len(s) - k) : r[i] = s[k + i]
    <3>1. \A i \in (k + 1)..Len(s) : s[i] \in S
      BY <1>1
    <3>2. /\ k + 1 \in Int /\ Len(s) \in Int
          /\ Len(s) - (k + 1) + 1 = Len(s) - k
      BY <1>1
    <3>3. /\ r \in Seq(S)
          /\ Len(r) = IF k + 1 <= Len(s) THEN Len(s) - (k + 1) + 1 ELSE 0
          /\ \A i \in 1..(Len(s) - (k + 1) + 1) : r[i] = s[(k + 1) + i - 1]
      BY <3>1, <3>2, SubSeqProperties
    <3>. HIDE DEF r
    <3>4. \A i \in 1..(Len(s) - k) : (k + 1) + i - 1 = k + i
      BY <1>1
    <3>5. Len(r) = Len(s) - k
      <4>1. ASSUME NEW n \in Nat, k \in 1..n
            PROVE  (IF k + 1 <= n THEN n - (k + 1) + 1 ELSE 0) = n - k
        BY <4>1
      <4>2. QED
        BY <1>1, <3>3, <4>1
    <3>6. QED
      BY <3>2, <3>3, <3>4, <3>5
  <2>3. /\ l \o r \in Seq(S) /\ Len(l \o r) = Len(l) + Len(r)
        /\ \A i \in 1..(Len(l) + Len(r)) :
             (l \o r)[i] = IF i <= Len(l) THEN l[i] ELSE r[i - Len(l)]
    BY <2>1, <2>2, ConcatProperties
  <2>4. t = l \o r
    BY DEF RemoveAt
  <2>. HIDE DEF l, r, t
  <2>5. t \in Seq(S) /\ Len(t) = Len(s) - 1
    <3>1. (k - 1) + (Len(s) - k) = Len(s) - 1
      BY <1>1
    <3>2. Len(t) = (k - 1) + (Len(s) - k)
      BY <2>1, <2>2, <2>3, <2>4
    <3>3. QED
      BY <2>3, <2>4, <3>1, <3>2
  <2>6. ASSUME NEW i \in 1..(Len(s) - 1)
        PROVE  t[i] = IF i < k THEN s[i] ELSE s[i + 1]
    <3>1. i \in 1..(Len(l) + Len(r))
      BY <1>1, <2>1, <2>2
    <3>2. CASE i < k
      BY <1>1, <2>1, <2>3, <2>4, <3>1, <3>2
    <3>3. CASE ~(i < k)
      <4>1. i - Len(l) \in 1..(Len(s) - k) /\ k + (i - Len(l)) = i + 1
        BY <1>1, <2>1, <3>3
      <4>2. t[i] = r[i - Len(l)]
        BY <1>1, <2>1, <2>3, <2>4, <3>1, <3>3
      <4>3. QED
        BY <2>2, <3>3, <4>1, <4>2
    <3>4. QED
      BY <3>2, <3>3
  <2>7. QED
    BY <2>5, <2>6
<1>. HIDE DEF t
<1>5. DOMAIN t = 1..(Len(s) - 1)
  BY <1>4, LenProperties
<1>6. ASSUME NEW x \in Range(t) PROVE x \in Range(s) \ {e}
  <2>1. PICK i \in 1..(Len(s) - 1) : x = t[i]
    BY <1>5 DEF Range
  <2>2. PICK j \in 1..Len(s) : j # k /\ x = s[j]
    <3>1. CASE i < k
      BY <1>1, <1>4, <2>1, <3>1
    <3>2. CASE ~(i < k)
      <4>1. i + 1 \in 1..Len(s) /\ i + 1 # k /\ x = s[i + 1]
        BY <1>1, <1>4, <2>1, <3>2
      <4>2. QED
        BY <4>1
    <3>3. QED
      BY <3>1, <3>2
  <2>3. QED
    BY <1>1, <1>2, <2>2 DEF IsInjective, Range
<1>7. ASSUME NEW x \in Range(s) \ {e} PROVE x \in Range(t)
  <2>1. PICK j \in 1..Len(s) : x = s[j]
    BY <1>1 DEF Range
  <2>2. j # k
    BY <1>2, <2>1
  <2>3. \E i \in 1..(Len(s) - 1) : x = t[i]
    <3>1. CASE j < k
      BY <1>1, <1>4, <2>1, <3>1
    <3>2. CASE j > k
      <4>1. j - 1 \in 1..(Len(s) - 1) /\ t[j - 1] = x
        BY <1>1, <1>4, <2>1, <3>2
      <4>2. QED
        BY <4>1
    <3>3. QED
      BY <1>1, <2>2, <3>1, <3>2
  <2>4. QED
    BY <1>5, <2>3 DEF Range
<1>8. IsInjective(t)
  <2>1. \A i \in 1..(Len(s) - 1) : i \in DOMAIN s /\ i + 1 \in DOMAIN s
    BY <1>1
  <2>2. ASSUME NEW a \in 1..(Len(s) - 1), NEW b \in 1..(Len(s) - 1),
               t[a] = t[b]
        PROVE  a = b
    <3>. DEFINE at(i) == IF i < k THEN i ELSE i + 1
    <3>1. at(a) \in DOMAIN s /\ at(b) \in DOMAIN s
      BY <2>1
    <3>2. s[at(a)] = s[at(b)]
      BY <1>4, <2>2
    <3>3. at(a) = at(b)
      BY <3>1, <3>2 DEF IsInjective
    <3>4. QED
      BY <1>1, <3>3
  <2>3. QED
    BY <1>5, <2>2 DEF IsInjective
<1>9. QED
  BY <1>3, <1>4, <1>6, <1>7, <1>8 DEF t

-----------------------------------------------------------------------------
(***************************************************************************)
(* Loading and unloading change the lists only.                            *)
(***************************************************************************)
CallVars == <<is_called, p, cur, subs, private_ctx, calls, failed>>

\* The parts of the invariant about calls, when a step touches none of them.
LEMMA CallsUntouched ==
  ASSUME RegistryInv, UNCHANGED CallVars,
         pc' = pc \/ pc' \in {"exit", "unloading"}, pc' # "init" => cur = NoModel
  PROVE  Flags' /\ Current' /\ Subscribed' /\ Ahead' /\ Returned'
<1>. USE DEF RegistryInv, CallVars
<1>1. Flags'
  BY DEF Flags
<1>2. Current'
  BY DEF Current
<1>3. Subscribed'
  BY DEF Subscribed
<1>4. Ahead'
  BY DEF Ahead
<1>5. Returned'
  BY DEF Returned
<1>6. QED
  BY <1>1, <1>2, <1>3, <1>4, <1>5

\* A constructor puts its function at the head of a list.
LEMMA ConstructStep ==
  ASSUME RegistryInv, NEW t \in Tags, NEW m \in Models, Construct(t, m)
  PROVE  RegistryInv'
<1>1. Flags' /\ Current' /\ Subscribed' /\ Ahead' /\ Returned'
  BY CallsUntouched DEF Construct, CallVars, RegistryInv, Current
<1>2. /\ registrations \in [Tags -> Seq(Models)] /\ loaded \in [Tags -> SUBSET Models]
      /\ \A u \in Tags : Range(registrations[u]) = loaded[u]
                         /\ IsInjective(registrations[u])
  BY DEF RegistryInv, Lists, RegistryExact
<1>3. /\ registrations' = [registrations EXCEPT ![t] = <<m>> \o registrations[t]]
      /\ loaded' = [loaded EXCEPT ![t] = loaded[t] \cup {m}]
      /\ m \notin loaded[t] /\ pc = "loading" /\ pc' = "loading"
  BY DEF Construct
<1>4. /\ <<m>> \o registrations[t] \in Seq(Models)
      /\ Range(<<m>> \o registrations[t]) = loaded[t] \cup {m}
      /\ IsInjective(<<m>> \o registrations[t])
  BY <1>2, <1>3, ConsElements, ConsRange
<1>5. /\ registrations' \in [Tags -> Seq(Models)]
      /\ loaded' \in [Tags -> SUBSET Models]
  BY <1>2, <1>3, <1>4
<1>6. ASSUME NEW u \in Tags
      PROVE  Range(registrations'[u]) = loaded'[u] /\ IsInjective(registrations'[u])
  BY <1>2, <1>3, <1>4
<1>7. Lists'
  BY <1>3, <1>5, <1>6 DEF Lists, RegistryExact, Walking
<1>8. QED
  BY <1>1, <1>7 DEF RegistryInv

\* A destructor takes its function out of the list.
LEMMA DestructStep ==
  ASSUME RegistryInv, NEW t \in Tags, NEW m \in Models, Destruct(t, m)
  PROVE  RegistryInv'
<1>1. /\ registrations \in [Tags -> Seq(Models)] /\ loaded \in [Tags -> SUBSET Models]
      /\ \A u \in Tags : Range(registrations[u]) = loaded[u]
                         /\ IsInjective(registrations[u])
  BY DEF RegistryInv, Lists, RegistryExact
<1>2. m \in Range(registrations[t]) /\ pc = "unloading"
  BY <1>1 DEF Destruct
<1>3. registrations[t] # <<>>
  BY <1>2 DEF Range
<1>4. /\ registrations' = [registrations EXCEPT ![t] = Unlink(registrations[t], m)]
      /\ loaded' = [loaded EXCEPT ![t] = loaded[t] \ {m}]
      /\ pc' = "unloading" /\ UNCHANGED CallVars
  BY <1>2, <1>3 DEF Destruct, CallVars
<1>5. Flags' /\ Current' /\ Subscribed' /\ Ahead' /\ Returned'
  BY <1>2, <1>4, CallsUntouched DEF RegistryInv, Current
<1>6. /\ Unlink(registrations[t], m) \in Seq(Models)
      /\ Range(Unlink(registrations[t], m)) = loaded[t] \ {m}
      /\ IsInjective(Unlink(registrations[t], m))
  BY <1>1, <1>2, UnlinkRange
<1>7. /\ registrations' \in [Tags -> Seq(Models)]
      /\ loaded' \in [Tags -> SUBSET Models]
  BY <1>1, <1>4, <1>6
<1>8. ASSUME NEW u \in Tags
      PROVE  Range(registrations'[u]) = loaded'[u] /\ IsInjective(registrations'[u])
  BY <1>1, <1>4, <1>6
<1>9. Lists'
  BY <1>4, <1>7, <1>8 DEF Lists, RegistryExact, Walking
<1>10. QED
  BY <1>5, <1>9 DEF RegistryInv

-----------------------------------------------------------------------------
(***************************************************************************)
(* The initialisation walks complete lists.                                *)
(***************************************************************************)
LEMMA ListsKept ==
  ASSUME RegistryInv, UNCHANGED <<registrations, loaded>>,
         pc' \in Walking \cup {"unloading"},
         pc' \in Walking =>
           pc \in Walking \/ \A t \in Tags : loaded[t] = Models
  PROVE  Lists'
  BY DEF RegistryInv, Lists, RegistryExact, Walking

\* A call of sc_call_all_init_function() starts its walk at the head.
LEMMA CallAllInitStep ==
  ASSUME RegistryInv, CallAllInit
  PROVE  RegistryInv'
<1>. USE DEF RegistryInv
<1>1. /\ pc' = "init" /\ p' = registrations["init"]
      /\ UNCHANGED <<registrations, loaded, is_called, cur, subs,
                     private_ctx, calls, failed>>
      /\ pc \in {"loading", "init_failed"}
      /\ \A t \in Tags : loaded[t] = Models
  BY DEF CallAllInit, Lists, Walking
<1>2. Lists'
  BY <1>1, ListsKept DEF Walking
<1>3. cur = NoModel
  BY <1>1 DEF Current
<1>4. Flags' /\ Current'
  BY <1>1, <1>3 DEF Flags, Current
<1>5. Subscribed'
  BY <1>1 DEF Subscribed
<1>6. Ahead'
  BY <1>1 DEF Ahead, Lists, RegistryExact, Tags
<1>7. Returned'
  BY <1>1 DEF Returned
<1>8. QED
  BY <1>2, <1>4, <1>5, <1>6, <1>7

(***************************************************************************)
(* The walk enters the init function of an element not called yet, which   *)
(* therefore has subscribed nothing.                                       *)
(***************************************************************************)
LEMMA AllInitCallStep ==
  ASSUME RegistryInv, AllInitCall
  PROVE  RegistryInv'
<1>. USE DEF RegistryInv
<1>. DEFINE m == Head(p)
<1>1. /\ pc = "init" /\ cur = NoModel /\ p # <<>> /\ p' = Tail(p)
      /\ m \notin is_called["init"]
      /\ is_called' = [is_called EXCEPT !["init"] = is_called["init"] \cup {m}]
      /\ calls' = [calls EXCEPT ![m] = calls[m] + 1]
      /\ cur' = m
      /\ UNCHANGED <<registrations, loaded, pc, subs, private_ctx, failed>>
  BY DEF AllInitCall, EnterInit
<1>2. /\ m \in Models /\ Tail(p) \in Seq(Models)
      /\ Range(p) = {m} \cup Range(Tail(p))
  BY <1>1, TailRange DEF Ahead
<1>. HIDE DEF m
<1>3. "init" \in Tags /\ is_called \in [Tags -> SUBSET Models]
  BY DEF Flags, Tags
<1>4. is_called'["init"] = is_called["init"] \cup {m}
  BY <1>1, <1>3
<1>5. Lists'
  BY <1>1, ListsKept DEF Walking
<1>6. Flags'
  <2>1. is_called' \in [Tags -> SUBSET Models]
    BY <1>1, <1>2, <1>3
  <2>2. calls' \in [Models -> Nat]
    BY <1>1, <1>2 DEF Flags
  <2>3. ASSUME NEW x \in Models
        PROVE  calls'[x] = IF x \in is_called'["init"] THEN 1 ELSE 0
    <3>1. CASE x = m
      BY <1>1, <1>4, <3>1 DEF Flags
    <3>2. CASE x # m
      BY <1>1, <1>4, <3>2 DEF Flags
    <3>3. QED
      BY <3>1, <3>2
  <2>4. QED
    BY <2>1, <2>2, <2>3 DEF Flags
<1>7. Current'
  BY <1>1, <1>2, <1>4 DEF Current
<1>8. subs[m] = 0 /\ NPoints[m] \in Nat \ {0}
  BY <1>1, <1>2, ScInitAssumption DEF Subscribed
<1>9. Subscribed'
  BY <1>1, <1>4, <1>8 DEF Subscribed
<1>10. Ahead'
  BY <1>1, <1>2, <1>4 DEF Ahead
<1>11. Returned'
  <2>1. ASSUME NEW x \in is_called'["init"]
        PROVE  subs'[x] = NPoints[x] \/ x = cur' \/ x \in failed'
    <3>1. CASE x = m
      BY <1>1, <3>1
    <3>2. CASE x # m
      <4>1. x \in is_called["init"] /\ x # cur
        BY <1>1, <1>3, <1>4, <3>2, ScInitAssumption
      <4>2. QED
        BY <1>1, <4>1 DEF Returned
    <3>3. QED
      BY <3>1, <3>2
  <2>2. QED
    BY <1>1, <2>1 DEF Returned
<1>12. QED
  BY <1>5, <1>6, <1>7, <1>9, <1>10, <1>11

\* The walk passes over an element, ends, or goes on to the exit functions.
LEMMA WalkStep ==
  ASSUME RegistryInv, AllInitSkip \/ AllInitDone
  PROVE  RegistryInv'
<1>. USE DEF RegistryInv
<1>1. CASE AllInitSkip
  <2>1. /\ pc = "init" /\ cur = NoModel /\ p # <<>>
        /\ Head(p) \in is_called["init"] /\ p' = Tail(p)
        /\ UNCHANGED <<registrations, loaded, is_called, pc, cur, subs,
                       private_ctx, calls, failed>>
    BY <1>1 DEF AllInitSkip
  <2>2. Tail(p) \in Seq(Models) /\ Range(p) = {Head(p)} \cup Range(Tail(p))
    BY <2>1, TailRange DEF Ahead
  <2>3. Lists'
    BY <2>1, ListsKept DEF Walking
  <2>4. Flags' /\ Current'
    BY <2>1 DEF Flags, Current
  <2>5. Subscribed' /\ Returned'
    BY <2>1 DEF Subscribed, Returned
  <2>6. Ahead'
    BY <2>1, <2>2 DEF Ahead
  <2>7. QED
    BY <2>3, <2>4, <2>5, <2>6
<1>2. CASE AllInitDone
  <2>1. /\ pc = "init" /\ cur = NoModel /\ p = <<>> /\ pc' \in {"ready", "init_failed"}
        /\ private_ctx' = TRUE
        /\ UNCHANGED <<registrations, loaded, is_called, p, cur, subs,
                       calls, failed>>
    BY <1>2 DEF AllInitDone
  <2>2. Range(p) = {}
    BY <2>1 DEF Range
  <2>3. Lists'
    BY <2>1, ListsKept DEF Walking
  <2>4. Flags' /\ Current'
    BY <2>1 DEF Flags, Current
  <2>5. Subscribed' /\ Returned'
    BY <2>1 DEF Subscribed, Returned
  <2>6. Ahead'
    BY <2>1, <2>2 DEF Ahead
  <2>7. QED
    BY <2>3, <2>4, <2>5, <2>6
<1>3. QED
  BY <1>1, <1>2

\* One subscription more: the init function returns with its last.
LEMMA SubscribePointStep ==
  ASSUME RegistryInv, SubscribePoint
  PROVE  RegistryInv'
<1>. USE DEF RegistryInv
<1>1. /\ pc = "init" /\ cur \in Models /\ cur \in is_called["init"]
      /\ subs' = [subs EXCEPT ![cur] = subs[cur] + 1]
      /\ cur' = IF subs[cur] + 1 = NPoints[cur] THEN NoModel ELSE cur
      /\ UNCHANGED <<registrations, loaded, is_called, pc, p, private_ctx,
                     calls, failed>>
  BY DEF SubscribePoint, Current
<1>2. /\ subs[cur] \in Nat /\ subs[cur] < NPoints[cur]
      /\ NPoints[cur] \in Nat /\ subs \in [Models -> Nat]
  BY <1>1, ScInitAssumption DEF Subscribed
<1>3. Lists'
  BY <1>1, ListsKept DEF Walking
<1>4. Flags' /\ Ahead'
  BY <1>1 DEF Flags, Ahead
<1>5. Current'
  BY <1>1 DEF Current
<1>6. /\ subs' \in [Models -> Nat] /\ subs'[cur] = subs[cur] + 1
      /\ \A x \in Models : x # cur => subs'[x] = subs[x]
  BY <1>1, <1>2
<1>7. \A x \in Models : x = cur' => x = cur
  BY <1>1, ScInitAssumption
<1>8. Subscribed'
  <2>1. ASSUME NEW x \in Models
        PROVE  /\ subs'[x] <= NPoints[x]
               /\ x = cur' => subs'[x] < NPoints[x]
               /\ x \notin is_called["init"] => subs'[x] = 0
    <3>1. CASE x = cur
      BY <1>1, <1>2, <1>6, <3>1, ScInitAssumption
    <3>2. CASE x # cur
      BY <1>6, <1>7, <3>2 DEF Subscribed
    <3>3. QED
      BY <3>1, <3>2
  <2>2. QED
    BY <1>1, <1>6, <2>1 DEF Subscribed
<1>9. Returned'
  <2>1. ASSUME NEW x \in is_called["init"]
        PROVE  subs'[x] = NPoints[x] \/ x = cur' \/ x \in failed
    <3>1. x \in Models
      BY DEF Flags, Tags
    <3>2. CASE x = cur
      BY <1>1, <1>6, <3>2
    <3>3. CASE x # cur
      BY <1>1, <1>6, <3>1, <3>3 DEF Returned
    <3>4. QED
      BY <3>2, <3>3
  <2>2. QED
    BY <1>1, <2>1 DEF Returned
<1>10. QED
  BY <1>3, <1>4, <1>5, <1>8, <1>9

\* An error ends the call in progress, and is remembered.
LEMMA SubscribeFailsStep ==
  ASSUME RegistryInv, SubscribeFails
  PROVE  RegistryInv'
<1>. USE DEF RegistryInv
<1>1. /\ pc = "init" /\ cur \in Models
      /\ failed' = failed \cup {cur}
      /\ cur' = NoModel /\ p' = <<>> /\ pc' = "init_failed"
      /\ UNCHANGED <<registrations, loaded, is_called, subs, private_ctx, calls>>
  BY DEF SubscribeFails, Current
<1>2. Lists'
  BY <1>1, ListsKept DEF Walking
<1>3. Flags' /\ Current'
  BY <1>1 DEF Flags, Current
<1>4. Ahead'
  BY <1>1, EmptySeq DEF Ahead
<1>5. Subscribed'
  BY <1>1, ScInitAssumption DEF Subscribed
<1>6. Returned'
  BY <1>1 DEF Returned
<1>7. QED
  BY <1>2, <1>3, <1>4, <1>5, <1>6

-----------------------------------------------------------------------------
\* The exit functions, and the end of all subscriptions.
LEMMA ExitStep ==
  ASSUME RegistryInv, CallAllExit \/ AllExitNext \/ Unsubscribe
  PROVE  RegistryInv'
<1>. USE DEF RegistryInv
<1>1. CASE CallAllExit
  <2>1. /\ pc = "ready" /\ pc' = "exit" /\ p' = registrations["exit"]
        /\ UNCHANGED <<registrations, loaded, is_called, cur, subs,
                       private_ctx, calls, failed>>
    BY <1>1 DEF CallAllExit
  <2>2. Lists'
    BY <2>1, ListsKept DEF Walking
  <2>3. Flags' /\ Current'
    BY <2>1 DEF Flags, Current
  <2>4. Ahead'
    BY <2>1 DEF Ahead, Lists, Tags
  <2>5. Subscribed' /\ Returned'
    BY <2>1 DEF Subscribed, Returned
  <2>6. QED
    BY <2>2, <2>3, <2>4, <2>5
<1>2. CASE AllExitNext
  <2>1. /\ pc = "exit" /\ p # <<>> /\ p' = Tail(p)
        /\ is_called' = [is_called EXCEPT !["exit"] = is_called["exit"] \cup {Head(p)}]
        /\ UNCHANGED <<registrations, loaded, pc, cur, subs, private_ctx,
                       calls, failed>>
    BY <1>2 DEF AllExitNext
  <2>2. Head(p) \in Models /\ Tail(p) \in Seq(Models)
    BY <2>1, TailRange DEF Ahead
  <2>3. is_called' \in [Tags -> SUBSET Models] /\ is_called'["init"] = is_called["init"]
    BY <2>1, <2>2 DEF Flags, Tags
  <2>4. Lists'
    BY <2>1, ListsKept DEF Walking
  <2>5. Flags' /\ Current' /\ Ahead'
    BY <2>1, <2>2, <2>3 DEF Flags, Current, Ahead
  <2>6. Subscribed' /\ Returned'
    BY <2>1, <2>3 DEF Subscribed, Returned
  <2>7. QED
    BY <2>4, <2>5, <2>6
<1>3. CASE Unsubscribe
  <2>1. /\ pc = "exit" /\ pc' = "unloading" /\ cur = NoModel
        /\ subs' \in {[m \in Models |-> 0], subs}
        /\ UNCHANGED <<registrations, loaded, is_called, p, cur, private_ctx,
                       calls, failed>>
    BY <1>3 DEF Unsubscribe, Current
  <2>2. Lists'
    BY <2>1, ListsKept DEF Walking
  <2>3. Flags' /\ Current' /\ Ahead'
    BY <2>1 DEF Flags, Current, Ahead
  <2>4. Returned'
    BY <2>1 DEF Returned
  <2>6. Subscribed'
    BY <2>1, ScInitAssumption DEF Subscribed
  <2>7. QED
    BY <2>2, <2>3, <2>4, <2>6
<1>4. QED
  BY <1>1, <1>2, <1>3

\* The inductive invariant holds in every reachable state.
THEOREM RegistryInvariance == Spec => []RegistryInv
<1>1. Init => RegistryInv
  <2>. SUFFICES ASSUME Init PROVE RegistryInv
    OBVIOUS
  <2>1. <<>> \in Seq(Models) /\ Len(<<>>) = 0
        /\ Range(<<>>) = {} /\ IsInjective(<<>>)
    BY EmptySeq DEF Range, IsInjective
  <2>2. Lists
    BY <2>1 DEF Init, Lists, RegistryExact, Walking
  <2>3. Flags
    BY DEF Init, Flags, Tags
  <2>4. Current
    BY <2>1 DEF Init, Current
  <2>5. Ahead
    BY <2>1 DEF Init, Ahead
  <2>7. Subscribed
    BY ScInitAssumption DEF Init, Subscribed
  <2>8. Returned
    BY DEF Init, Returned, Tags
  <2>9. QED
    BY <2>2, <2>3, <2>4, <2>5, <2>7, <2>8 DEF RegistryInv
<1>2. RegistryInv /\ [Next]_vars => RegistryInv'
  <2>. SUFFICES ASSUME RegistryInv, [Next]_vars PROVE RegistryInv'
    OBVIOUS
  <2>1. CASE UNCHANGED vars
    <3>1. Flags' /\ Current' /\ Subscribed' /\ Ahead' /\ Returned'
      BY <2>1, CallsUntouched DEF vars, CallVars, RegistryInv, Current
    <3>2. Lists'
      BY <2>1 DEF vars, RegistryInv, Lists, RegistryExact
    <3>3. QED
      BY <3>1, <3>2 DEF RegistryInv
  <2>2. QED
    BY <2>1, ConstructStep, DestructStep, CallAllInitStep, AllInitCallStep,
       WalkStep, SubscribePointStep, SubscribeFailsStep,
       ExitStep
       DEF Next, InitStep
<1>3. QED
  BY <1>1, <1>2, PTL DEF Spec

\* Type correctness; no model ever has more subscriptions than it makes.
THEOREM RegistryTypes == Spec => []TypeOK
<1>1. RegistryInv => TypeOK
  <2>. SUFFICES ASSUME RegistryInv PROVE TypeOK
    OBVIOUS
  <2>1. \A m \in Models : subs[m] \in 0..NPoints[m]
    BY ScInitAssumption DEF RegistryInv, Subscribed
  <2>2. QED
    BY <2>1 DEF RegistryInv, Lists, Flags, Current, Ahead, Returned, Walking,
                TypeOK
<1>2. QED
  BY <1>1, RegistryInvariance, PTL

\* CalledOnce: sc_call_all_init_function() enters no init function twice,
\* wherever a call of it stopped and however often it is called again.
THEOREM CalledOnceSound == Spec => []CalledOnce
<1>1. RegistryInv => CalledOnce
  BY DEF RegistryInv, Flags, CalledOnce
<1>2. QED
  BY <1>1, RegistryInvariance, PTL

\* ReadyComplete: when sr_plugin_init_cb() succeeds, after any number of
\* failed calls, every model whose own init function never failed has made
\* every subscription.
THEOREM ReadySound == Spec => []ReadyComplete
<1>1. RegistryInv => ReadyComplete
  <2>. SUFFICES ASSUME RegistryInv, pc = "ready", NEW m \in Models \ failed
                PROVE  subs[m] = NPoints[m]
    BY DEF ReadyComplete
  <2>1. m \in is_called["init"] /\ m # cur
    BY ScInitAssumption DEF RegistryInv, Ahead, Current
  <2>2. QED
    BY <2>1 DEF RegistryInv, Returned
<1>2. QED
  BY <1>1, RegistryInvariance, PTL

\* RegistryExact: the lists name exactly the functions that are loaded, and
\* no destructor dereferences an empty list.
THEOREM RegistrySound == Spec => []RegistryExact
<1>1. RegistryInv => RegistryExact
  BY DEF RegistryInv, Lists
<1>2. QED
  BY <1>1, RegistryInvariance, PTL
=============================================================================
