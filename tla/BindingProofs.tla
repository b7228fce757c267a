---------------------------- MODULE BindingProofs ----------------------------
(***************************************************************************)
(* The proofs about the binding engine (Binding), as MCMachine composes    *)
(* it, for any devices and WANs: what it plans is one to one, and what its *)
(* scripts write is what was planned.                                      *)
(***************************************************************************)
EXTENDS MCMachine, FiniteSetTheorems, SequenceTheorems, TLAPS

\* The entries of the planner.
Entries == [dev : LanDevices \cup {0}, ip : LanDevices, wan : LanWans, pref : Nat]

\* No WAN and no device twice, except for devices nobody knows.
Apart(S) ==
  \A a, b \in S : a # b => a.wan # b.wan /\ (a.dev = b.dev => a.dev = 0)

-----------------------------------------------------------------------------
(***************************************************************************)
(* What the parts of a plan are.                                           *)
(***************************************************************************)

\* The sets of the instance, and what is not in them.
LEMMA BindingSets ==
  /\ IsFiniteSet(LanDevices) /\ IsFiniteSet(LanWans) /\ LanDevices \subseteq Nat
  /\ Bind!Nobody = 0 /\ 0 \notin LanDevices
  /\ Bind!None \notin LanWans
  /\ Cardinality(LanWans) \in Nat /\ Bind!Prefs = 1..Cardinality(LanWans)
  /\ IsFiniteSet(Bind!Rules)
<1>1. /\ IsFiniteSet(LanDevices) /\ IsFiniteSet(LanWans) /\ LanDevices \subseteq Nat
      /\ 0 \notin LanDevices /\ Bind!None \notin LanWans /\ Bind!Nobody = 0
  BY BindingAssumption DEF Bind!None, Bind!Nobody
<1>2. Cardinality(LanWans) \in Nat
  BY <1>1, FS_CardinalityType
<1>3. Bind!Prefs = 1..Cardinality(LanWans)
  BY DEF Bind!Prefs, Bind!Cardinality, Cardinality
<1>4. IsFiniteSet(Bind!Prefs)
  BY <1>2, <1>3, FS_Interval
<1>5. IsFiniteSet(Bind!Rules)
  <2> DEFINE triples == (Bind!Prefs \X LanDevices) \X LanWans
             rule == [t \in triples |-> [pref |-> t[1][1], dev |-> t[1][2], wan |-> t[2]]]
  <2>1. IsFiniteSet(Bind!Prefs \X LanDevices)
    BY <1>1, <1>4, FS_Product
  <2>2. IsFiniteSet(triples)
    BY <1>1, <2>1, FS_Product
  <2>3. ASSUME NEW r \in Bind!Rules PROVE \E t \in triples : r = rule[t]
    <3>1. r.pref \in Bind!Prefs /\ r.dev \in LanDevices /\ r.wan \in LanWans
      BY DEF Bind!Rules
    <3>2. r = [pref |-> r.pref, dev |-> r.dev, wan |-> r.wan]
      BY DEF Bind!Rules
    <3>3. <<<<r.pref, r.dev>>, r.wan>> \in triples
      BY <3>1
    <3>4. rule[<<<<r.pref, r.dev>>, r.wan>>] = [pref |-> r.pref, dev |-> r.dev, wan |-> r.wan]
      BY <3>3
    <3>5. QED
      BY <3>2, <3>3, <3>4
  <2>4. Bind!Rules \subseteq {rule[t] : t \in triples}
    BY <2>3
  <2>5. IsFiniteSet({rule[t] : t \in triples})
    <3>1. rule \in Surjection(triples, {rule[t] : t \in triples})
      BY DEF Surjection
    <3>2. QED
      BY <2>2, <3>1, FS_Surjection
  <2>6. QED
    BY <2>4, <2>5, FS_Subset
<1>6. QED
  BY <1>1, <1>2, <1>3, <1>5

\* The rules of a model as entries.
LEMMA ActualAre ==
  ASSUME NEW m \in Bind!Routers, NEW mem, NEW chosen,
         NEW e \in Bind!Actual(m, mem, chosen)
  PROVE  /\ e \in Entries /\ e.pref \in Bind!Prefs
         /\ e.dev = 0 => e.ip \notin m.leases
<1>1. PICK r \in m.rules : e = [dev |-> Bind!MacOf(r, m, mem, chosen), ip |-> r.dev,
                                wan |-> r.wan, pref |-> r.pref]
  BY DEF Bind!Actual
<1>2. /\ r.pref \in Bind!Prefs /\ r.dev \in LanDevices /\ r.wan \in LanWans
      /\ m.leases \subseteq LanDevices
  BY DEF Bind!Routers, Bind!Rules
<1>3. r.pref \in Nat
  BY <1>2, BindingSets
<1> DEFINE choosers == {d \in m.leases : chosen[d] = r.wan}
<1>4. ASSUME Bind!Cardinality(choosers) = 1 PROVE (CHOOSE d \in choosers : TRUE) \in LanDevices
  <2>1. Cardinality(choosers) = 1
    BY <1>4 DEF Bind!Cardinality, Cardinality
  <2>2. choosers # {}
    BY <2>1, FS_EmptySet
  <2>3. QED
    BY <1>2, <2>2
<1>5. Bind!MacOf(r, m, mem, chosen) =
        IF r.dev \in m.leases \cup mem.devices THEN r.dev
        ELSE IF Bind!Cardinality(choosers) = 1 THEN CHOOSE d \in choosers : TRUE ELSE 0
  BY BindingSets DEF Bind!MacOf
<1>6. Bind!MacOf(r, m, mem, chosen) \in LanDevices \cup {0}
  BY <1>2, <1>4, <1>5
<1>7. Bind!MacOf(r, m, mem, chosen) = 0 => r.dev \notin m.leases
  BY <1>2, <1>5, BindingSets
<1>8. QED
  BY <1>1, <1>2, <1>3, <1>6, <1>7 DEF Entries

\* What a scan has taken, and what it cannot have taken: an entry whose WAN is an orphan's.
LEMMA KeptAre ==
  ASSUME NEW actual, NEW orphans, NEW able, NEW m,
         NEW kept \in Bind!Kept(actual, orphans, able, m)
  PROVE  /\ kept \subseteq actual
         /\ \A e \in kept : e.dev \in able /\ e.wan \notin Bind!WansOf(orphans)
         /\ \A a, b \in kept : a # b => a.dev # b.dev /\ a.wan # b.wan
BY DEF Bind!Kept, Bind!Firsts

\* A list of all members of a finite set.
LEMMA SortedAre ==
  ASSUME NEW S, IsFiniteSet(S), NEW o \in [1..Bind!Cardinality(S) -> S],
         \A d \in S : \E i \in DOMAIN o : o[i] = d
  PROVE  /\ Cardinality(S) \in Nat /\ o \in Seq(S) /\ DOMAIN o = 1..Cardinality(S)
         /\ Len(o) = Cardinality(S) /\ Bind!Range(o) = S
         /\ \A i, j \in DOMAIN o : o[i] = o[j] => i = j
<1>1. Cardinality(S) \in Nat /\ Bind!Cardinality(S) = Cardinality(S)
  BY FS_CardinalityType DEF Bind!Cardinality, Cardinality
<1>2. DOMAIN o = 1..Cardinality(S) /\ o \in Seq(S) /\ Len(o) = Cardinality(S)
  BY <1>1
<1>3. Bind!Range(o) = S
  BY <1>2 DEF Bind!Range
<1>4. IsFiniteSet(1..Cardinality(S)) /\ Cardinality(1..Cardinality(S)) = Cardinality(S)
  BY <1>1, FS_Interval
<1>5. o \in Surjection(1..Cardinality(S), S)
  BY <1>1 DEF Surjection
<1>6. o \in Bijection(1..Cardinality(S), S)
  BY <1>1, <1>4, <1>5, FS_SurjSameCardinalityImpliesInj DEF Bijection
<1>7. \A i, j \in DOMAIN o : o[i] = o[j] => i = j
  BY <1>2, <1>6 DEF Bijection, Injection, IsInjective
<1>8. QED
  BY <1>1, <1>2, <1>3, <1>7

\* What a plan may start from: orphans, and rules of devices that may keep their WAN.
Starts(actual, orphans, kept, moved, able) ==
  /\ orphans \subseteq actual /\ \A e \in orphans : e.dev = 0
  /\ \A a, b \in orphans : a # b => a.wan # b.wan
  /\ kept \subseteq actual
  /\ \A e \in kept : e.dev \in able /\ e.wan \notin Bind!WansOf(orphans)
  /\ \A a, b \in kept : a # b => a.dev # b.dev /\ a.wan # b.wan
  /\ moved \subseteq kept

\* What a plan starts from is apart.
LEMMA StayAre ==
  ASSUME NEW m \in Bind!Routers, NEW mem, NEW chosen, NEW able \in SUBSET LanDevices,
         NEW orphans, NEW kept, NEW moved,
         Starts(Bind!Actual(m, mem, chosen), orphans, kept, moved, able),
         NEW stay, stay = orphans \cup (kept \ moved)
  PROVE  /\ stay \subseteq Entries /\ Apart(stay)
         /\ \A e \in stay : /\ e.pref \in Bind!Prefs /\ e.dev \in able \cup {0}
                            /\ e.dev = 0 => e.ip \notin m.leases
         /\ Bind!MacsOf(moved) \cap Bind!MacsOf(stay) = {}
<1> USE DEF Starts
<1>1. \A e \in orphans \cup kept : /\ e \in Entries /\ e.pref \in Bind!Prefs
                                   /\ e.dev = 0 => e.ip \notin m.leases
  BY ActualAre
<1>2. 0 \notin able
  BY BindingSets
<1>3. Apart(stay)
  BY <1>2 DEF Apart, Bind!WansOf
<1>4. Bind!MacsOf(moved) \cap Bind!MacsOf(stay) = {}
  <2>1. SUFFICES ASSUME NEW a \in moved, NEW b \in stay, a.dev = b.dev PROVE FALSE
    BY DEF Bind!MacsOf
  <2>2. CASE b \in orphans
    BY <1>2, <2>1, <2>2
  <2>3. CASE b \in kept \ moved
    BY <2>1, <2>3
  <2>4. QED
    BY <2>1, <2>2, <2>3
<1>5. QED
  BY <1>1, <1>3, <1>4

\* Requests of devices that have nothing, each once.
Once(requests, stay) ==
  /\ requests \in Seq(LanDevices)
  /\ \A i, j \in DOMAIN requests : requests[i] = requests[j] => i = j
  /\ Bind!Range(requests) \cap Bind!MacsOf(stay) = {}

\* What requests are given: a WAN each that nobody has, as long as there is one.
LEMMA AllocationsAre ==
  ASSUME NEW m \in Bind!Routers, NEW chosen, NEW forced, NEW avoid, NEW stay,
         NEW requests, Once(requests, stay),
         NEW gifts \in Bind!Allocations(requests, stay, m, chosen, forced, avoid),
         NEW fresh, fresh = Bind!Fresh(gifts)
  PROVE  /\ fresh \subseteq Entries
         /\ \A e \in fresh : /\ e.dev \in Bind!Range(requests) /\ e.ip = e.dev /\ e.pref = 0
                             /\ e.wan \notin Bind!WansOf(stay)
         /\ \A a, b \in fresh : a # b => a.dev # b.dev /\ a.wan # b.wan
         /\ \A i \in DOMAIN requests :
              \/ requests[i] \in Bind!MacsOf(fresh)
              \/ Bind!Usable(m) \subseteq Bind!WansOf(stay \cup fresh)
<1>0. /\ requests \in Seq(LanDevices)
      /\ \A i, j \in DOMAIN requests : requests[i] = requests[j] => i = j
      /\ Bind!Range(requests) \cap Bind!MacsOf(stay) = {}
  BY DEF Once
<1> USE <1>0
<1> DEFINE Taken(i) == Bind!WansOf(stay) \cup {gifts[requests[j]] : j \in 1..(i - 1)}
           Free(i) == Bind!Usable(m) \ Taken(i)
<1>1. gifts \in [Bind!Range(requests) -> LanWans \cup {Bind!None}]
  BY DEF Bind!Allocations
<1>2. ASSUME NEW i \in DOMAIN requests
      PROVE  \/ gifts[requests[i]] = Bind!None /\ Free(i) = {}
             \/ gifts[requests[i]] \in Free(i)
  <2> DEFINE d == requests[i]
             others == IF Bind!Cardinality(Free(i)) > 1 THEN Free(i) \ {avoid[d]} ELSE Free(i)
  <2>1. IF Free(i) = {} THEN gifts[d] = Bind!None
        ELSE IF d \notin forced /\ chosen[d] \in Free(i) THEN gifts[d] = chosen[d]
        ELSE gifts[d] \in others
    BY DEF Bind!Allocations
  <2>2. others \subseteq Free(i)
    OBVIOUS
  <2> HIDE DEF others, Free
  <2>3. QED
    BY <2>1, <2>2
<1>3. Bind!Usable(m) \subseteq LanWans /\ Bind!None \notin Bind!Usable(m)
  BY BindingSets DEF Bind!Usable
<1>4. ASSUME NEW e \in fresh
      PROVE  \E i \in DOMAIN requests :
               /\ e = [dev |-> requests[i], ip |-> requests[i],
                       wan |-> gifts[requests[i]], pref |-> 0]
               /\ gifts[requests[i]] # Bind!None /\ gifts[requests[i]] \in Free(i)
  <2>1. PICK d \in DOMAIN gifts :
          e = [dev |-> d, ip |-> d, wan |-> gifts[d], pref |-> 0] /\ gifts[d] # Bind!None
    BY DEF Bind!Fresh
  <2>2. PICK i \in DOMAIN requests : requests[i] = d
    BY <1>1, <2>1 DEF Bind!Range
  <2>3. gifts[requests[i]] \in Free(i)
    BY <1>2, <2>1, <2>2
  <2>4. QED
    BY <2>1, <2>2, <2>3
<1>5. ASSUME NEW e \in fresh
      PROVE  /\ e \in Entries /\ e.dev \in Bind!Range(requests) /\ e.ip = e.dev /\ e.pref = 0
             /\ e.wan \notin Bind!WansOf(stay)
  <2>1. PICK i \in DOMAIN requests :
               /\ e = [dev |-> requests[i], ip |-> requests[i],
                       wan |-> gifts[requests[i]], pref |-> 0]
               /\ gifts[requests[i]] # Bind!None /\ gifts[requests[i]] \in Free(i)
    BY <1>4
  <2>2. requests[i] \in LanDevices /\ requests[i] \in Bind!Range(requests)
    BY DEF Bind!Range
  <2>3. gifts[requests[i]] \in LanWans /\ gifts[requests[i]] \notin Bind!WansOf(stay)
    BY <1>3, <2>1
  <2>4. QED
    BY <2>1, <2>2, <2>3 DEF Entries
<1>6. ASSUME NEW i \in DOMAIN requests, NEW j \in DOMAIN requests, i < j,
             gifts[requests[j]] \in Free(j)
      PROVE  gifts[requests[i]] # gifts[requests[j]]
  <2>1. i \in 1..(j - 1)
    BY <1>6
  <2>2. QED
    BY <1>6, <2>1
<1>7. ASSUME NEW a \in fresh, NEW b \in fresh, a # b PROVE a.dev # b.dev /\ a.wan # b.wan
  <2>1. PICK i \in DOMAIN requests :
               /\ a = [dev |-> requests[i], ip |-> requests[i],
                       wan |-> gifts[requests[i]], pref |-> 0]
               /\ gifts[requests[i]] \in Free(i)
    BY <1>4
  <2>2. PICK j \in DOMAIN requests :
               /\ b = [dev |-> requests[j], ip |-> requests[j],
                       wan |-> gifts[requests[j]], pref |-> 0]
               /\ gifts[requests[j]] \in Free(j)
    BY <1>4
  <2>3. requests[i] # requests[j]
    BY <1>7, <2>1, <2>2
  <2>4. i \in Nat /\ j \in Nat /\ (i < j \/ j < i)
    BY <2>3
  <2>5. gifts[requests[i]] # gifts[requests[j]]
    BY <1>6, <2>1, <2>2, <2>4
  <2>6. QED
    BY <2>1, <2>2, <2>3, <2>5
<1>8. ASSUME NEW i \in DOMAIN requests
      PROVE  \/ requests[i] \in Bind!MacsOf(fresh)
             \/ Bind!Usable(m) \subseteq Bind!WansOf(stay \cup fresh)
  <2>1. ASSUME NEW j \in DOMAIN requests, gifts[requests[j]] # Bind!None
        PROVE  /\ requests[j] \in Bind!MacsOf(fresh)
               /\ gifts[requests[j]] \in Bind!WansOf(fresh)
    <3> DEFINE e == [dev |-> requests[j], ip |-> requests[j],
                     wan |-> gifts[requests[j]], pref |-> 0]
    <3>1. requests[j] \in DOMAIN gifts
      BY <1>1 DEF Bind!Range
    <3>2. e \in fresh
      BY <2>1, <3>1 DEF Bind!Fresh
    <3>3. e.dev = requests[j] /\ e.wan = gifts[requests[j]]
      OBVIOUS
    <3>4. QED
      BY <3>2, <3>3 DEF Bind!MacsOf, Bind!WansOf
  <2>2. CASE gifts[requests[i]] # Bind!None
    BY <2>1, <2>2
  <2>3. CASE gifts[requests[i]] = Bind!None
    <3>1. Free(i) = {}
      BY <1>2, <1>3, <2>3
    <3>2. ASSUME NEW w \in Bind!Usable(m) PROVE w \in Bind!WansOf(stay \cup fresh)
      <4>1. w \in Bind!WansOf(stay) \/ \E j \in 1..(i - 1) : w = gifts[requests[j]]
        BY <3>1
      <4>2. 1..(i - 1) \subseteq DOMAIN requests
        OBVIOUS
      <4>3. w \in Bind!WansOf(stay) \/ w \in Bind!WansOf(fresh)
        BY <1>3, <2>1, <4>1, <4>2
      <4>4. QED
        BY <4>3 DEF Bind!WansOf
    <3>3. QED
      BY <3>2
  <2>4. QED
    BY <2>2, <2>3
<1>9. QED
  BY <1>5, <1>7, <1>8

\* The preferences that are kept are different ones.
LEMMA HoldingIs ==
  ASSUME NEW orphans, NEW stay, orphans \subseteq stay, NEW m,
         NEW holding \in Bind!Holding(orphans, stay, m)
  PROVE  /\ holding \subseteq stay
         /\ \A a, b \in holding : a # b => a.pref # b.pref
<1> DEFINE first == holding \cap orphans
           Rest == {e \in stay \ orphans : e.pref \notin Bind!PrefsOf(first)}
<1>1. /\ holding \subseteq stay /\ holding \ first \subseteq Rest
      /\ \A a, b \in first : a # b => a.pref # b.pref
      /\ \A a, b \in holding \ first : a # b => a.pref # b.pref
  BY DEF Bind!Holding, Bind!Firsts
<1>2. \A a \in first : \A b \in holding \ first : a.pref # b.pref
  BY <1>1 DEF Bind!PrefsOf
<1> HIDE DEF first
<1>3. QED
  BY <1>1, <1>2

\* Entries with the preferences they keep or get: one each.
Numbers(leases, entries, holding, num) ==
  /\ entries \subseteq Entries /\ Apart(entries)
  /\ \A e \in entries : e.dev = 0 => e.ip \notin leases
  /\ holding \subseteq entries /\ \A e \in holding : e.pref \in Bind!Prefs
  /\ \A a, b \in holding : a # b => a.pref # b.pref
  /\ num \in [entries \ holding -> Bind!Prefs \ Bind!PrefsOf(holding)]
  /\ \A a, b \in entries \ holding : a # b => num[a] # num[b]

\* The rules of a plan are one to one, as its entries are.
LEMMA RulesAre ==
  ASSUME NEW leases, NEW entries, NEW holding, NEW num, Numbers(leases, entries, holding, num),
         NEW written, written = Bind!RulesOf(holding, num)
  PROVE  /\ written \subseteq Bind!Rules /\ Bind!OneToOne(written, leases)
         /\ Bind!WansOf(entries) \subseteq {r.wan : r \in written}
<1>0. /\ entries \subseteq Entries /\ Apart(entries)
      /\ \A e \in entries : e.dev = 0 => e.ip \notin leases
      /\ holding \subseteq entries
      /\ \A e \in holding : e.pref \in Bind!Prefs
      /\ \A a, b \in holding : a # b => a.pref # b.pref
      /\ num \in [entries \ holding -> Bind!Prefs \ Bind!PrefsOf(holding)]
      /\ \A a, b \in entries \ holding : a # b => num[a] # num[b]
  BY DEF Numbers
<1> USE <1>0
<1> DEFINE Ip(e) == IF e.dev = 0 THEN e.ip ELSE e.dev
           Pref(e) == IF e \in holding THEN e.pref ELSE num[e]
           Of(e) == [pref |-> Pref(e), dev |-> Ip(e), wan |-> e.wan]
<1>1. DOMAIN num = entries \ holding
  OBVIOUS
<1>2. ASSUME NEW r \in written PROVE \E e \in entries : r = Of(e)
  <2>1. \/ \E e \in holding : r = [pref |-> e.pref, dev |-> Ip(e), wan |-> e.wan]
        \/ \E e \in DOMAIN num : r = [pref |-> num[e], dev |-> Ip(e), wan |-> e.wan]
    BY BindingSets DEF Bind!RulesOf
  <2>2. QED
    BY <1>1, <2>1
<1>3. ASSUME NEW e \in entries PROVE Of(e) \in written
  <2>1. CASE e \in holding
    <3>1. [pref |-> e.pref, dev |-> Ip(e), wan |-> e.wan] \in written
      BY <2>1, BindingSets DEF Bind!RulesOf
    <3>2. QED
      BY <2>1, <3>1
  <2>2. CASE e \notin holding
    <3>1. [pref |-> num[e], dev |-> Ip(e), wan |-> e.wan] \in written
      BY <1>1, <2>2, BindingSets DEF Bind!RulesOf
    <3>2. QED
      BY <2>2, <3>1
  <2>3. QED
    BY <2>1, <2>2
<1>4. ASSUME NEW e \in entries
      PROVE  /\ Of(e).pref = Pref(e) /\ Of(e).dev = Ip(e) /\ Of(e).wan = e.wan
             /\ Pref(e) \in Bind!Prefs /\ Ip(e) \in LanDevices /\ e.wan \in LanWans
             /\ Of(e) \in Bind!Rules
  <2>1. e.dev \in LanDevices \cup {0} /\ e.ip \in LanDevices /\ e.wan \in LanWans
    BY DEF Entries
  <2>2. Pref(e) \in Bind!Prefs
    OBVIOUS
  <2>3. QED
    BY <2>1, <2>2 DEF Bind!Rules
<1>5. ASSUME NEW a \in entries, NEW b \in entries, a # b
      PROVE  /\ Pref(a) # Pref(b) /\ a.wan # b.wan
             /\ Ip(a) \in leases => Ip(a) # Ip(b)
  <2>1. Pref(a) # Pref(b)
    <3>1. \A e \in entries \ holding : \A h \in holding : num[e] # h.pref
      BY DEF Bind!PrefsOf
    <3>2. CASE a \in holding /\ b \in holding
      BY <1>5, <3>2
    <3>3. CASE a \in holding /\ b \notin holding
      BY <3>1, <3>3
    <3>4. CASE a \notin holding /\ b \in holding
      BY <3>1, <3>4
    <3>5. CASE a \notin holding /\ b \notin holding
      BY <1>5, <3>5
    <3>6. QED
      BY <3>2, <3>3, <3>4, <3>5
  <2>2. a.wan # b.wan /\ (a.dev = b.dev => a.dev = 0)
    BY <1>5 DEF Apart
  <2>3. Ip(a) \in leases => Ip(a) # Ip(b)
    BY <2>2
  <2>4. QED
    BY <2>1, <2>2, <2>3
<1> HIDE DEF Pref, Ip, Of
<1>6. Bind!OneToOne(written, leases)
  BY <1>2, <1>4, <1>5 DEF Bind!OneToOne
<1>7. Bind!WansOf(entries) \subseteq {r.wan : r \in written}
  BY <1>3, <1>4 DEF Bind!WansOf
<1>8. QED
  BY <1>2, <1>4, <1>6, <1>7

\* The WAN of each device is that of its entry.
LEMMA WanOfIs ==
  ASSUME NEW entries, entries \subseteq Entries
  PROVE  /\ Bind!WanOf(entries) \in [LanDevices -> LanWans \cup {Bind!None}]
         /\ \A d \in LanDevices :
              Bind!WanOf(entries)[d] = Bind!None <=> d \notin Bind!MacsOf(entries)
<1>1. ASSUME NEW d \in LanDevices, d \in Bind!MacsOf(entries)
      PROVE  (CHOOSE e \in entries : e.dev = d).wan \in LanWans
  <2>1. PICK e \in entries : e.dev = d
    BY <1>1 DEF Bind!MacsOf
  <2>2. (CHOOSE x \in entries : x.dev = d) \in entries
    BY <2>1
  <2>3. QED
    BY <2>2 DEF Entries
<1>2. QED
  BY <1>1, BindingSets DEF Bind!WanOf

\* A finite set of rules or devices has finitely many members less.
LEMMA SubsetsAreFinite ==
  /\ \A S \in SUBSET Bind!Rules : IsFiniteSet(S)
  /\ \A S \in SUBSET LanDevices : IsFiniteSet(S)
BY BindingSets, FS_Subset

\* The devices that are asked for, each once.
LEMMA RequestsAre ==
  ASSUME NEW m \in Bind!Routers, NEW mem, NEW forced, NEW moved, NEW stay,
         NEW requests \in Bind!Requests(m, mem, forced, moved, stay)
  PROVE  /\ requests \in Seq(LanDevices)
         /\ \A i, j \in DOMAIN requests : requests[i] = requests[j] => i = j
         /\ Bind!Range(requests) =
              {d \in m.leases \ mem.held :
                 d \in forced \cup Bind!MacsOf(moved) \/ d \notin Bind!MacsOf(stay)}
<1> DEFINE first == forced \cup Bind!MacsOf(moved)
           S == {d \in m.leases \ mem.held : d \in first \/ d \notin Bind!MacsOf(stay)}
<1>1. S \subseteq LanDevices
  BY DEF Bind!Routers
<1>2. IsFiniteSet(S)
  BY <1>1, SubsetsAreFinite
<1>3. /\ requests \in [1..Bind!Cardinality(S) -> S]
      /\ \A d \in S : \E i \in DOMAIN requests : requests[i] = d
  BY DEF Bind!Requests, Bind!Sorted
<1> HIDE DEF S
<1>4. /\ requests \in Seq(S) /\ Bind!Range(requests) = S
      /\ \A i, j \in DOMAIN requests : requests[i] = requests[j] => i = j
  BY <1>2, <1>3, SortedAre
<1>5. requests \in Seq(LanDevices)
  BY <1>1, <1>4
<1>6. QED
  BY <1>4, <1>5 DEF S

\* What stays and what is asked for: nobody has or asks for two, and nobody who is held
\* has or asks for one.
Asks(m, mem, stay, requests) ==
  /\ stay \subseteq Entries /\ Apart(stay)
  /\ \A e \in stay : e.dev \notin mem.held /\ (e.dev = 0 => e.ip \notin m.leases)
  /\ requests \in Seq(LanDevices)
  /\ \A i, j \in DOMAIN requests : requests[i] = requests[j] => i = j
  /\ Bind!Range(requests) \cap (Bind!MacsOf(stay) \cup mem.held) = {}

\* The entries of a plan: they are apart, and who has asked in vain finds every usable WAN
\* taken.
Fills(m, mem, stay, requests, entries) ==
  /\ entries \subseteq Entries /\ Apart(entries) /\ stay \subseteq entries
  /\ \A e \in entries : e.dev \notin mem.held /\ (e.dev = 0 => e.ip \notin m.leases)
  /\ \A d \in Bind!Range(requests) :
       d \in Bind!MacsOf(entries) \/ Bind!Usable(m) \subseteq Bind!WansOf(entries)

\* What stays and what is given fill a plan.
LEMMA EntriesAre ==
  ASSUME NEW m \in Bind!Routers, NEW mem, NEW chosen, NEW forced, NEW avoid, NEW stay,
         NEW requests, Asks(m, mem, stay, requests),
         NEW gifts \in Bind!Allocations(requests, stay, m, chosen, forced, avoid),
         NEW entries, entries = stay \cup Bind!Fresh(gifts)
  PROVE  Fills(m, mem, stay, requests, entries)
<1> DEFINE fresh == Bind!Fresh(gifts)
<1>1. /\ stay \subseteq Entries /\ Apart(stay)
      /\ \A e \in stay : e.dev \notin mem.held /\ (e.dev = 0 => e.ip \notin m.leases)
      /\ requests \in Seq(LanDevices)
      /\ \A i, j \in DOMAIN requests : requests[i] = requests[j] => i = j
      /\ Bind!Range(requests) \cap Bind!MacsOf(stay) = {}
      /\ Bind!Range(requests) \cap mem.held = {}
  BY DEF Asks
<1>2. /\ fresh \subseteq Entries
      /\ \A e \in fresh : /\ e.dev \in Bind!Range(requests) /\ e.ip = e.dev /\ e.pref = 0
                          /\ e.wan \notin Bind!WansOf(stay)
      /\ \A a, b \in fresh : a # b => a.dev # b.dev /\ a.wan # b.wan
      /\ \A i \in DOMAIN requests :
           \/ requests[i] \in Bind!MacsOf(fresh)
           \/ Bind!Usable(m) \subseteq Bind!WansOf(stay \cup fresh)
  <2>1. Once(requests, stay)
    BY ONLY <1>1 DEF Once
  <2>2. QED
    BY <2>1, AllocationsAre
<1>3. \A e \in fresh : e.dev \in LanDevices /\ e.dev # 0
  BY <1>1, BindingSets, <1>2 DEF Bind!Range
<1>4. entries = stay \cup fresh
  OBVIOUS
<1> HIDE DEF fresh
<1>5. entries \subseteq Entries /\ Apart(entries) /\ stay \subseteq entries
  <2>1. ASSUME NEW a \in stay, NEW b \in fresh PROVE a.wan # b.wan /\ a.dev # b.dev
    <3>1. a.wan \in Bind!WansOf(stay) /\ a.dev \in Bind!MacsOf(stay)
      BY DEF Bind!WansOf, Bind!MacsOf
    <3>2. QED
      BY ONLY <1>1, <1>2, <2>1, <3>1
  <2>2. QED
    BY ONLY <1>1, <1>2, <1>4, <2>1 DEF Apart
<1>6. \A e \in entries : e.dev \notin mem.held /\ (e.dev = 0 => e.ip \notin m.leases)
  BY ONLY <1>1, <1>2, <1>3, <1>4
<1>7. ASSUME NEW d \in Bind!Range(requests)
      PROVE  d \in Bind!MacsOf(entries) \/ Bind!Usable(m) \subseteq Bind!WansOf(entries)
  <2>1. PICK i \in DOMAIN requests : requests[i] = d
    BY DEF Bind!Range
  <2>2. Bind!MacsOf(fresh) \subseteq Bind!MacsOf(entries)
    BY <1>4 DEF Bind!MacsOf
  <2>3. QED
    BY ONLY <1>2, <1>4, <2>1, <2>2
<1>8. QED
  BY ONLY <1>5, <1>6, <1>7 DEF Fills

\* What is remembered of a plan: nobody who is held has a WAN, and who waits has none.
Remembers(m, mem, entries, wan, new) ==
  /\ wan \in [LanDevices -> LanWans \cup {Bind!None}] /\ new \in Bind!Memories
  /\ \A d \in new.held : wan[d] = Bind!None
  /\ \A d \in Bind!Range(new.waiting) \ new.held :
       d \in m.leases \ mem.held /\ d \notin Bind!MacsOf(entries)

\* The memory of a plan whose entries have no held device.
LEMMA RememberedIs ==
  ASSUME NEW m \in Bind!Routers, NEW mem \in Bind!Memories, NEW lapsed,
         NEW entries, entries \subseteq Entries, \A e \in entries : e.dev \notin mem.held,
         NEW wan, wan = Bind!WanOf(entries),
         NEW S, S = {d \in m.leases : wan[d] = Bind!None},
         NEW waiting \in [1..Bind!Cardinality(S) -> S],
         \A d \in S : \E i \in DOMAIN waiting : waiting[i] = d,
         NEW new, new = Bind!Remembered(m, mem, wan, waiting, lapsed)
  PROVE  Remembers(m, mem, entries, wan, new)
<1>1. /\ m.leases \subseteq LanDevices /\ mem.devices \subseteq LanDevices
      /\ mem.held \subseteq LanDevices
  BY DEF Bind!Routers, Bind!Memories
<1>2. /\ wan \in [LanDevices -> LanWans \cup {Bind!None}]
      /\ \A d \in LanDevices : wan[d] = Bind!None <=> d \notin Bind!MacsOf(entries)
  BY WanOfIs
<1>3. waiting \in Seq(LanDevices) /\ Bind!Range(waiting) = S
  <2>1. IsFiniteSet(S) /\ S \subseteq LanDevices
    BY <1>1, SubsetsAreFinite
  <2>2. /\ Bind!Range(waiting) = S /\ Cardinality(S) \in Nat
        /\ DOMAIN waiting = 1..Cardinality(S)
    BY <2>1, SortedAre
  <2>3. waiting \in [1..Cardinality(S) -> LanDevices]
    BY <2>1, <2>2
  <2>4. QED
    BY ONLY <2>2, <2>3
<1>4. new = [devices |-> m.leases \cup {d \in mem.devices \ lapsed : wan[d] # Bind!None},
             wan |-> wan, held |-> mem.held \cap m.leases, waiting |-> waiting,
             errors |-> {w \in LanWans : m.wan[w] = "error"}]
  BY DEF Bind!Remembered
<1>5. new \in Bind!Memories
  <2>1. /\ m.leases \cup {d \in mem.devices \ lapsed : wan[d] # Bind!None} \subseteq LanDevices
        /\ mem.held \cap m.leases \subseteq LanDevices
        /\ {w \in LanWans : m.wan[w] = "error"} \subseteq LanWans
    BY <1>1
  <2>2. QED
    BY ONLY <1>2, <1>3, <1>4, <2>1 DEF Bind!Memories
<1>6. ASSUME NEW d \in new.held PROVE wan[d] = Bind!None
  <2>1. d \in mem.held /\ d \in LanDevices
    BY ONLY <1>1, <1>4, <1>6
  <2>2. d \notin Bind!MacsOf(entries)
    BY <2>1 DEF Bind!MacsOf
  <2>3. QED
    BY ONLY <1>2, <2>1, <2>2
<1>7. ASSUME NEW d \in Bind!Range(new.waiting) \ new.held
      PROVE  d \in m.leases \ mem.held /\ d \notin Bind!MacsOf(entries)
  <2>1. new.waiting = waiting /\ new.held = mem.held \cap m.leases
    BY ONLY <1>4
  <2>2. d \in m.leases /\ wan[d] = Bind!None /\ d \notin mem.held
    BY <1>3, <1>7, <2>1
  <2>3. QED
    BY ONLY <1>1, <1>2, <2>2
<1>8. QED
  BY ONLY <1>2, <1>5, <1>6, <1>7 DEF Remembers

-----------------------------------------------------------------------------
(***************************************************************************)
(* What the lines that are left still do to the rules of the router.       *)
(***************************************************************************)

\* The rules that lines add.
Added(lines) == {lines[i].rule : i \in {k \in DOMAIN lines : lines[k].do = "add"}}

\* The rules that lines delete before they have ended at those of a plan.
Stale(lines, planned, there) == {r \in there : r \notin planned \/ r \in Added(lines)}

\* Lines bring the rules that are there to those of a plan: each one to be deleted has
\* a line of its own, and nothing is deleted after an addition.
Fits(lines, planned, there) ==
  /\ Added(lines) \subseteq planned
  /\ \A i, j \in DOMAIN lines : i < j /\ lines[i].do = "add" =>
       lines[j].do = "add" /\ lines[j].rule # lines[i].rule
  /\ planned \subseteq there \cup Added(lines)
  /\ \A i \in DOMAIN lines : lines[i].do = "del" =>
       \A r \in planned : r.pref = lines[i].pref => r \in Added(lines)
  /\ \E line \in [Stale(lines, planned, there) -> DOMAIN lines] :
       /\ \A r, s \in Stale(lines, planned, there) : line[r] = line[s] => r = s
       /\ \A r \in Stale(lines, planned, there) :
            lines[line[r]].do = "del" /\ lines[line[r]].pref = r.pref

\* The parts of a list of lines.
LEMMA TwoParts ==
  ASSUME NEW S, NEW a \in Seq(S), NEW b \in Seq(S), NEW s, s = a \o b
  PROVE  /\ s \in Seq(S) /\ Len(s) = Len(a) + Len(b)
         /\ \A i \in 1..Len(a) : s[i] = a[i]
         /\ \A i \in 1..Len(b) : s[Len(a) + i] = b[i]
OBVIOUS

\* The parts of a list of lines.
LEMMA ThreeParts ==
  ASSUME NEW S, NEW a \in Seq(S), NEW b \in Seq(S), NEW c \in Seq(S),
         NEW s, s = a \o (b \o c)
  PROVE  /\ s \in Seq(S) /\ Len(s) = Len(a) + Len(b) + Len(c)
         /\ \A i \in 1..Len(a) : s[i] = a[i]
         /\ \A i \in 1..Len(b) : s[Len(a) + i] = b[i]
         /\ \A i \in 1..Len(c) : s[Len(a) + Len(b) + i] = c[i]
<1>1. PICK t : t = b \o c
  OBVIOUS
<1>2. /\ t \in Seq(S) /\ Len(t) = Len(b) + Len(c)
      /\ \A i \in 1..Len(b) : t[i] = b[i]
      /\ \A i \in 1..Len(c) : t[Len(b) + i] = c[i]
  BY <1>1, TwoParts
<1>3. t \in Seq(S) /\ s = a \o t
  BY <1>1, <1>2
<1>4. /\ s \in Seq(S) /\ Len(s) = Len(a) + Len(t)
      /\ \A i \in 1..Len(a) : s[i] = a[i]
      /\ \A i \in 1..Len(t) : s[Len(a) + i] = t[i]
  BY ONLY <1>3, a \in Seq(S), TwoParts
<1>5. Len(a) \in Nat /\ Len(b) \in Nat /\ Len(c) \in Nat
  OBVIOUS
<1>6. ASSUME NEW i \in 1..Len(b) PROVE s[Len(a) + i] = b[i]
  BY ONLY <1>2, <1>4, <1>5, <1>6
<1>7. ASSUME NEW i \in 1..Len(c) PROVE s[Len(a) + Len(b) + i] = c[i]
  <2>1. Len(b) + i \in 1..Len(t) /\ Len(a) + (Len(b) + i) = Len(a) + Len(b) + i
    BY ONLY <1>2, <1>5, <1>7
  <2>2. QED
    BY ONLY <1>2, <1>4, <1>7, <2>1
<1>8. QED
  BY ONLY <1>2, <1>4, <1>5, <1>6, <1>7

\* The members of a set, each once.
Lists(s, S) ==
  /\ s \in Seq(S) /\ \A x \in S : \E i \in 1..Len(s) : s[i] = x
  /\ \A i, j \in 1..Len(s) : s[i] = s[j] => i = j

\* The lines of a script: p repairs, a deletion for each rule of `del`, and an addition
\* for each one of `add`.
Script(lines, p, del, add) ==
  /\ Len(lines) = p + Len(del) + Len(add)
  /\ \A i \in 1..p : lines[i].do \notin {"add", "del"}
  /\ \A i \in 1..Len(del) : lines[p + i] = [do |-> "del", pref |-> del[i].pref]
  /\ \A i \in 1..Len(add) : lines[p + Len(del) + i] = [do |-> "add", rule |-> add[i]]

\* What a script deletes and adds: the rules of the preferences that differ.
LEMMA ScriptsAre ==
  ASSUME NEW m \in Bind!Routers, NEW force, NEW planned \in SUBSET Bind!Rules,
         NEW lines \in Bind!Scripts(m, force, planned),
         NEW old, old = Bind!Differing(m.rules, m.rules, planned),
         NEW new, new = Bind!Differing(planned, m.rules, planned)
  PROVE  /\ lines \in Seq(Bind!Lines)
         /\ \E p \in Nat, del \in Seq(old), add \in Seq(new) :
              Lists(del, old) /\ Lists(add, new) /\ Script(lines, p, del, add)
<1> DEFINE Sooner(a, b) == a.pref < b.pref
           Repairs == [do : {"route", "guard"}]
           route == IF force \/ ~m.guarded THEN <<[do |-> "route"]>> ELSE <<>>
           guard == IF ~m.guarded THEN <<[do |-> "guard"]>> ELSE <<>>
           repairs == route \o guard
           Dels(o) == [i \in DOMAIN o |-> [do |-> "del", pref |-> o[i].pref]]
           Adds(o) == [i \in DOMAIN o |-> [do |-> "add", rule |-> o[i]]]
<1>1. /\ old \subseteq Bind!Rules /\ new \subseteq Bind!Rules
      /\ IsFiniteSet(old) /\ IsFiniteSet(new)
  <2>1. m.rules \subseteq Bind!Rules
    BY DEF Bind!Routers
  <2>2. old \subseteq m.rules /\ new \subseteq planned
    BY DEF Bind!Differing
  <2>3. QED
    BY <2>1, <2>2, SubsetsAreFinite
<1>2. \E del \in [1..Bind!Cardinality(old) -> old], add \in [1..Bind!Cardinality(new) -> new] :
        /\ \A r \in old : \E i \in DOMAIN del : del[i] = r
        /\ \A r \in new : \E i \in DOMAIN add : add[i] = r
        /\ lines = repairs \o (Dels(del) \o Adds(add))
  <2>1. PICK diff \in Bind!Changes(m.rules, planned) : lines = repairs \o diff
    BY DEF Bind!Scripts
  <2>2. PICK o \in Bind!Sorted(old, Sooner) \X Bind!Sorted(new, Sooner) :
          diff = Dels(o[1]) \o Adds(o[2])
    BY <2>1 DEF Bind!Changes
  <2>3. /\ o[1] \in [1..Bind!Cardinality(old) -> old]
        /\ \A r \in old : \E i \in DOMAIN o[1] : o[1][i] = r
        /\ o[2] \in [1..Bind!Cardinality(new) -> new]
        /\ \A r \in new : \E i \in DOMAIN o[2] : o[2][i] = r
    BY <2>2 DEF Bind!Sorted
  <2>4. lines = repairs \o (Dels(o[1]) \o Adds(o[2]))
    BY <2>1, <2>2
  <2> HIDE DEF Dels, Adds, repairs
  <2>5. QED
    BY <2>3, <2>4, Zenon
<1>3. PICK del \in [1..Bind!Cardinality(old) -> old],
           add \in [1..Bind!Cardinality(new) -> new] :
        /\ \A r \in old : \E i \in DOMAIN del : del[i] = r
        /\ \A r \in new : \E i \in DOMAIN add : add[i] = r
        /\ lines = repairs \o (Dels(del) \o Adds(add))
  BY ONLY <1>2
<1>4. lines = repairs \o (Dels(del) \o Adds(add))
  BY ONLY <1>3
<1>5. Lists(del, old) /\ DOMAIN del = 1..Len(del)
  <2>1. /\ del \in Seq(old) /\ DOMAIN del = 1..Len(del)
        /\ \A i, j \in DOMAIN del : del[i] = del[j] => i = j
    <3>1. IsFiniteSet(old)
      BY ONLY <1>1
    <3>2. del \in [1..Bind!Cardinality(old) -> old]
      BY ONLY <1>3
    <3>3. \A x \in old : \E i \in DOMAIN del : del[i] = x
      BY ONLY <1>3
    <3>4. /\ del \in Seq(old) /\ DOMAIN del = 1..Cardinality(old) /\ Len(del) = Cardinality(old)
          /\ \A i, j \in DOMAIN del : del[i] = del[j] => i = j
      BY ONLY <3>1, <3>2, <3>3, SortedAre, Zenon
    <3>5. QED
      BY ONLY <3>4
  <2>2. QED
    BY ONLY <1>3, <2>1 DEF Lists
<1>6. Lists(add, new) /\ DOMAIN add = 1..Len(add)
  <2>1. /\ add \in Seq(new) /\ DOMAIN add = 1..Len(add)
        /\ \A i, j \in DOMAIN add : add[i] = add[j] => i = j
    <3>1. IsFiniteSet(new)
      BY ONLY <1>1
    <3>2. add \in [1..Bind!Cardinality(new) -> new]
      BY ONLY <1>3
    <3>3. \A x \in new : \E i \in DOMAIN add : add[i] = x
      BY ONLY <1>3
    <3>4. /\ add \in Seq(new) /\ DOMAIN add = 1..Cardinality(new) /\ Len(add) = Cardinality(new)
          /\ \A i, j \in DOMAIN add : add[i] = add[j] => i = j
      BY ONLY <3>1, <3>2, <3>3, SortedAre, Zenon
    <3>5. QED
      BY ONLY <3>4
  <2>2. QED
    BY ONLY <1>3, <2>1 DEF Lists
<1>7. repairs \in Seq(Repairs) /\ repairs \in Seq(Bind!Lines)
  <2>1. [do |-> "route"] \in Repairs /\ [do |-> "guard"] \in Repairs
    OBVIOUS
  <2>2. Repairs \subseteq Bind!Lines
    BY DEF Bind!Lines
  <2> HIDE DEF Repairs
  <2>3. route \in Seq(Repairs) /\ guard \in Seq(Repairs)
    BY ONLY <2>1
  <2>4. route \in Seq(Bind!Lines) /\ guard \in Seq(Bind!Lines)
    BY ONLY <2>1, <2>2
  <2> HIDE DEF route, guard
  <2>5. QED
    BY ONLY <2>3, <2>4
<1>8. \A i \in 1..Len(repairs) : repairs[i].do \notin {"add", "del"}
  <2> HIDE DEF repairs, Repairs
  <2>1. \A i \in 1..Len(repairs) : repairs[i] \in Repairs
    BY ONLY <1>7
  <2>2. \A r \in Repairs : r.do \notin {"add", "del"}
    BY DEF Repairs
  <2>3. QED
    BY ONLY <2>1, <2>2
<1>9. /\ Dels(del) \in Seq(Bind!Lines) /\ Len(Dels(del)) = Len(del)
       /\ \A i \in 1..Len(del) : Dels(del)[i] = [do |-> "del", pref |-> del[i].pref]
  <2>1. ASSUME NEW i \in DOMAIN del PROVE [do |-> "del", pref |-> del[i].pref] \in Bind!Lines
    <3>1. del[i] \in Bind!Rules
      BY ONLY <1>1, <1>5, <2>1 DEF Lists
    <3>2. del[i].pref \in Bind!Prefs
      BY ONLY <3>1 DEF Bind!Rules
    <3>3. QED
      BY ONLY <3>2 DEF Bind!Lines
  <2>2. DOMAIN del = 1..Len(del) /\ Len(del) \in Nat
    BY ONLY <1>5 DEF Lists
  <2>3. Dels(del) \in [1..Len(del) -> Bind!Lines]
    BY ONLY <2>1, <2>2
  <2>4. \A i \in 1..Len(del) : Dels(del)[i] = [do |-> "del", pref |-> del[i].pref]
    BY ONLY <2>2
  <2> HIDE DEF Dels
  <2>5. QED
    BY ONLY <2>2, <2>3, <2>4
<1>10. /\ Adds(add) \in Seq(Bind!Lines) /\ Len(Adds(add)) = Len(add)
       /\ \A i \in 1..Len(add) : Adds(add)[i] = [do |-> "add", rule |-> add[i]]
  <2>1. ASSUME NEW i \in DOMAIN add PROVE [do |-> "add", rule |-> add[i]] \in Bind!Lines
    <3>1. add[i] \in Bind!Rules
      BY ONLY <1>1, <1>6, <2>1 DEF Lists
    <3>2. QED
      BY ONLY <3>1 DEF Bind!Lines
  <2>2. DOMAIN add = 1..Len(add) /\ Len(add) \in Nat
    BY ONLY <1>6 DEF Lists
  <2>3. Adds(add) \in [1..Len(add) -> Bind!Lines]
    BY ONLY <2>1, <2>2
  <2>4. \A i \in 1..Len(add) : Adds(add)[i] = [do |-> "add", rule |-> add[i]]
    BY ONLY <2>2
  <2> HIDE DEF Adds
  <2>5. QED
    BY ONLY <2>2, <2>3, <2>4
<1> HIDE DEF Dels, Adds, repairs
<1>11. /\ lines \in Seq(Bind!Lines)
       /\ Len(lines) = Len(repairs) + Len(Dels(del)) + Len(Adds(add))
       /\ \A i \in 1..Len(repairs) : lines[i] = repairs[i]
       /\ \A i \in 1..Len(Dels(del)) : lines[Len(repairs) + i] = Dels(del)[i]
       /\ \A i \in 1..Len(Adds(add)) :
            lines[Len(repairs) + Len(Dels(del)) + i] = Adds(add)[i]
  <2>1. repairs \in Seq(Bind!Lines)
    BY ONLY <1>7
  <2>2. Dels(del) \in Seq(Bind!Lines)
    BY ONLY <1>9
  <2>3. Adds(add) \in Seq(Bind!Lines)
    BY ONLY <1>10
  <2>4. QED
    BY ONLY <1>4, <2>1, <2>2, <2>3, ThreeParts
<1>12. Script(lines, Len(repairs), del, add)
  BY ONLY <1>8, <1>9, <1>10, <1>11 DEF Script
<1>13. Len(repairs) \in Nat /\ del \in Seq(old) /\ add \in Seq(new)
  BY ONLY <1>5, <1>6, <1>7 DEF Lists
<1>14. QED
  BY ONLY <1>5, <1>6, <1>11, <1>12, <1>13

\* A script that was made from the rules that are there brings them to the plan.
LEMMA ScriptsFit ==
  ASSUME NEW m \in Bind!Routers, NEW force, NEW planned \in SUBSET Bind!Rules,
         NEW lines \in Bind!Scripts(m, force, planned)
  PROVE  lines \in Seq(Bind!Lines) /\ Fits(lines, planned, m.rules)
<1>1. PICK old, new : /\ old = Bind!Differing(m.rules, m.rules, planned)
                      /\ new = Bind!Differing(planned, m.rules, planned)
  OBVIOUS
<1>2. /\ lines \in Seq(Bind!Lines)
      /\ \E p \in Nat, del \in Seq(old), add \in Seq(new) :
           Lists(del, old) /\ Lists(add, new) /\ Script(lines, p, del, add)
  BY <1>1, ScriptsAre, Zenon
<1>3. PICK p \in Nat, del \in Seq(old), add \in Seq(new) :
        Lists(del, old) /\ Lists(add, new) /\ Script(lines, p, del, add)
  BY <1>2
<1>4. PICK k, n : k = Len(del) /\ n = Len(add)
  OBVIOUS
<1>5. /\ k \in Nat /\ n \in Nat
      /\ \A i \in 1..k : del[i] \in old
      /\ \A r \in old : \E i \in 1..k : del[i] = r
      /\ \A i \in 1..n : add[i] \in new
      /\ \A r \in new : \E i \in 1..n : add[i] = r
      /\ \A i, j \in 1..n : add[i] = add[j] => i = j
  BY ONLY <1>3, <1>4 DEF Lists
<1>6. /\ DOMAIN lines = 1..(p + k + n)
      /\ \A i \in 1..p : lines[i].do \notin {"add", "del"}
      /\ \A i \in 1..k : lines[p + i] = [do |-> "del", pref |-> del[i].pref]
      /\ \A i \in 1..n : lines[p + k + i] = [do |-> "add", rule |-> add[i]]
  <2>1. Len(lines) = p + k + n /\ DOMAIN lines = 1..Len(lines)
    <3>1. lines \in Seq(Bind!Lines)
      BY ONLY <1>2
    <3>2. DOMAIN lines = 1..Len(lines)
      BY ONLY <3>1
    <3>3. Len(lines) = p + k + n
      BY ONLY <1>3, <1>4 DEF Script
    <3>4. QED
      BY ONLY <3>2, <3>3
  <2>2. QED
    BY ONLY <1>3, <1>4, <2>1 DEF Script
<1>7. p \in Nat
  OBVIOUS
<1>8. ASSUME NEW i \in DOMAIN lines
      PROVE  \/ i \in 1..p /\ lines[i].do \notin {"add", "del"}
             \/ /\ i - p \in 1..k /\ lines[i].do = "del"
                /\ lines[i].pref = del[i - p].pref
             \/ /\ i - p - k \in 1..n /\ lines[i].do = "add"
                /\ lines[i].rule = add[i - p - k]
  <2>1. CASE i \in 1..p
    BY ONLY <1>6, <2>1
  <2>2. CASE i - p \in 1..k
    <3>1. p + (i - p) = i
      BY ONLY <1>5, <1>6, <1>7, <1>8
    <3>2. lines[i] = [do |-> "del", pref |-> del[i - p].pref]
      BY ONLY <1>6, <2>2, <3>1
    <3>3. QED
      BY ONLY <2>2, <3>2
  <2>3. CASE i - p - k \in 1..n
    <3>1. p + k + (i - p - k) = i
      BY ONLY <1>5, <1>6, <1>7, <1>8
    <3>2. lines[i] = [do |-> "add", rule |-> add[i - p - k]]
      BY ONLY <1>6, <2>3, <3>1
    <3>3. QED
      BY ONLY <2>3, <3>2
  <2>4. QED
    BY ONLY <1>5, <1>6, <1>7, <1>8, <2>1, <2>2, <2>3
<1>9. ASSUME NEW i \in 1..k
      PROVE  /\ p + i \in DOMAIN lines /\ lines[p + i].do = "del"
             /\ lines[p + i].pref = del[i].pref
  <2>1. p + i \in 1..(p + k + n)
    BY ONLY <1>5, <1>7, <1>9
  <2>2. lines[p + i] = [do |-> "del", pref |-> del[i].pref]
    BY ONLY <1>6, <1>9
  <2>3. QED
    BY ONLY <1>6, <2>1, <2>2
<1>10. ASSUME NEW i \in 1..n
       PROVE  /\ p + k + i \in DOMAIN lines /\ lines[p + k + i].do = "add"
              /\ lines[p + k + i].rule = add[i]
  <2>1. p + k + i \in 1..(p + k + n)
    BY ONLY <1>5, <1>7, <1>10
  <2>2. lines[p + k + i] = [do |-> "add", rule |-> add[i]]
    BY ONLY <1>6, <1>10
  <2>3. QED
    BY ONLY <1>6, <2>1, <2>2
<1>11. Added(lines) = new
  <2>1. ASSUME NEW r \in Added(lines) PROVE r \in new
    <3>1. PICK i \in DOMAIN lines : lines[i].do = "add" /\ r = lines[i].rule
      BY DEF Added
    <3>2. i - p - k \in 1..n /\ r = add[i - p - k]
      BY ONLY <1>8, <3>1
    <3>3. QED
      BY ONLY <1>5, <3>2
  <2>2. ASSUME NEW r \in new PROVE r \in Added(lines)
    <3>1. PICK i \in 1..n : add[i] = r
      BY ONLY <1>5, <2>2
    <3>2. QED
      BY ONLY <1>10, <3>1 DEF Added
  <2>3. QED
    BY ONLY <2>1, <2>2
<1>12. /\ old \subseteq m.rules /\ new \subseteq planned
       /\ \A r \in planned : r \in new \/ r \in m.rules
       /\ \A x \in old : \A r \in planned : r.pref = x.pref => r \in new
       /\ \A r \in m.rules : r \notin planned \/ r \in new => r \in old
  <2> DEFINE Group(S, q) == {x \in S : x.pref = q}
  <2>1. /\ old = {r \in m.rules : Group(m.rules, r.pref) # Group(planned, r.pref)}
        /\ new = {r \in planned : Group(m.rules, r.pref) # Group(planned, r.pref)}
    BY <1>1 DEF Bind!Differing
  <2>2. ASSUME NEW r \in m.rules, r \notin planned
        PROVE  Group(m.rules, r.pref) # Group(planned, r.pref)
    BY ONLY <2>2
  <2>3. ASSUME NEW r \in planned, r \notin m.rules
        PROVE  Group(m.rules, r.pref) # Group(planned, r.pref)
    BY ONLY <2>3
  <2> HIDE DEF Group
  <2>4. QED
    BY ONLY <2>1, <2>2, <2>3
<1>13. \A i, j \in DOMAIN lines : i < j /\ lines[i].do = "add" =>
         lines[j].do = "add" /\ lines[j].rule # lines[i].rule
  <2>1. SUFFICES ASSUME NEW i \in DOMAIN lines, NEW j \in DOMAIN lines, i < j,
                        lines[i].do = "add"
                 PROVE  lines[j].do = "add" /\ lines[j].rule # lines[i].rule
    OBVIOUS
  <2>2. i - p - k \in 1..n /\ lines[i].rule = add[i - p - k] /\ i \in Nat /\ j \in Nat
    BY ONLY <1>6, <1>7, <1>5, <1>8, <2>1
  <2>3. ~(j \in 1..p) /\ ~(j - p \in 1..k)
    BY ONLY <1>5, <1>7, <2>1, <2>2
  <2>4. j - p - k \in 1..n /\ lines[j].do = "add" /\ lines[j].rule = add[j - p - k]
    BY ONLY <1>8, <2>1, <2>3
  <2>5. i - p - k # j - p - k
    BY ONLY <1>5, <1>7, <2>1, <2>2
  <2>6. QED
    BY ONLY <1>5, <2>2, <2>4, <2>5
<1>14. ASSUME NEW i \in DOMAIN lines, lines[i].do = "del", NEW r \in planned,
              r.pref = lines[i].pref
       PROVE  r \in Added(lines)
  <2>1. i - p \in 1..k /\ lines[i].pref = del[i - p].pref
    BY ONLY <1>8, <1>14
  <2>2. del[i - p] \in old
    BY ONLY <1>5, <2>1
  <2>3. QED
    BY ONLY <1>11, <1>12, <1>14, <2>1, <2>2
<1>15. PICK stale : stale = Stale(lines, planned, m.rules)
  OBVIOUS
<1>16. stale \subseteq old
  BY ONLY <1>11, <1>12, <1>15 DEF Stale
<1> DEFINE At(r) == CHOOSE i \in 1..k : del[i] = r
           line == [r \in stale |-> p + At(r)]
<1>17. ASSUME NEW r \in stale PROVE At(r) \in 1..k /\ del[At(r)] = r
  BY ONLY <1>5, <1>16, <1>17
<1> HIDE DEF At
<1>18. /\ line \in [stale -> DOMAIN lines]
       /\ \A r \in stale : lines[line[r]].do = "del" /\ lines[line[r]].pref = r.pref
  <2>1. ASSUME NEW r \in stale
        PROVE  /\ line[r] = p + At(r) /\ p + At(r) \in DOMAIN lines
               /\ lines[p + At(r)].do = "del" /\ lines[p + At(r)].pref = r.pref
    BY ONLY <1>9, <1>17, <2>1
  <2>2. QED
    BY ONLY <2>1
<1>19. ASSUME NEW r \in stale, NEW s \in stale, line[r] = line[s] PROVE r = s
  <2>1. p + At(r) = p + At(s)
    BY ONLY <1>19
  <2>2. At(r) = At(s)
    BY ONLY <1>7, <1>17, <1>19, <2>1
  <2>3. QED
    BY ONLY <1>17, <1>19, <2>2
<1> HIDE DEF line
<1>20. \E f \in [stale -> DOMAIN lines] :
         /\ \A r, s \in stale : f[r] = f[s] => r = s
         /\ \A r \in stale : lines[f[r]].do = "del" /\ lines[f[r]].pref = r.pref
  BY ONLY <1>18, <1>19
<1>21. Added(lines) \subseteq planned /\ planned \subseteq m.rules \cup Added(lines)
  BY ONLY <1>11, <1>12
<1>22. Fits(lines, planned, m.rules)
  BY ONLY <1>13, <1>14, <1>15, <1>20, <1>21 DEF Fits
<1>23. QED
  BY <1>2, <1>22

-----------------------------------------------------------------------------
(***************************************************************************)
(* The operations.                                                         *)
(***************************************************************************)

\* What an operation has planned for a model.
Planned(o, m, runs) ==
  /\ o \in [kind : Bind!Kinds, lines : Seq(Bind!Lines), undo : Bind!Undos, exact : BOOLEAN,
            plan : Bind!Plans]
  /\ Bind!OneToOne(o.plan.rules, m.leases)
  /\ \A d \in o.plan.memory.held : o.plan.wan[d] = Bind!None
  /\ runs /\ Bind!Range(o.plan.memory.waiting) \ o.plan.memory.held # {}
       => Bind!Usable(m) \subseteq {r.wan : r \in o.plan.rules}

\* What reconcileModel() plans, whatever it chooses.
LEMMA ReconcileIsSound ==
  ASSUME NEW m \in Bind!Routers, NEW mem \in Bind!Memories, NEW chosen, NEW runs \in BOOLEAN,
         NEW force, NEW forced, NEW avoid, NEW rebooted,
         NEW kind \in Bind!Kinds, NEW undo \in Bind!Undos,
         Bind!Reconcile(kind, m, mem, chosen, runs, force, forced, avoid, rebooted, undo)
  PROVE  /\ Planned(bindingOp', m, runs)
         /\ bindingOp'.exact = (m.rules = router.rules)
         /\ bindingOp'.kind = kind
         /\ bindingOp'.lines \in Bind!Scripts(m, force, bindingOp'.plan.rules)
<1> DEFINE actual == Bind!Actual(m, mem, chosen)
           Sooner(d, e) == Bind!Ahead(d, e, mem.waiting)
           Outcome(lapsed, wan, written, waiting) ==
             \E lines \in Bind!Scripts(m, force, written) :
               bindingOp' = [kind |-> kind, lines |-> lines, undo |-> undo,
                             exact |-> m.rules = router.rules,
                             plan |-> [rules |-> written, wan |-> wan, memory |->
                                         Bind!Remembered(m, mem, wan, waiting, lapsed)]]
           Numbered(lapsed, orphans, stay, requests, entries) ==
             \E holding \in Bind!Holding(orphans, stay, m) :
             \E num \in Bind!Numberings(holding, entries, requests, m),
                waiting \in Bind!Sorted({d \in m.leases : Bind!WanOf(entries)[d] = Bind!None},
                                        Sooner) :
               Outcome(lapsed, Bind!WanOf(entries), Bind!RulesOf(holding, num), waiting)
           Allocated(lapsed, orphans, moved, stay) ==
             \E requests \in IF runs THEN Bind!Requests(m, mem, forced, moved, stay)
                             ELSE {<<>>} :
             \E gifts \in Bind!Allocations(requests, stay, m, chosen, forced, avoid) :
               Numbered(lapsed, orphans, stay, requests, stay \cup Bind!Fresh(gifts))
<1>1. \E lapsed \in SUBSET (LanDevices \ m.leases),
         overdue \in SUBSET {w \in IF rebooted THEN {} ELSE mem.errors : m.wan[w] = "error"} :
      \E orphans \in IF runs THEN Bind!Orphans(actual) ELSE {{}} :
      \E kept \in IF runs
                  THEN Bind!Kept(actual, orphans,
                                 Bind!Working(m, mem, lapsed) \ (mem.held \cup forced), m)
                  ELSE {{}} :
      \E moved \in Bind!Moved(kept, orphans, m, overdue) :
        Allocated(lapsed, orphans, moved, orphans \cup (kept \ moved))
  BY DEF Bind!Reconcile
<1> HIDE DEF actual, Allocated, Numbered, Outcome, Sooner
<1>2. PICK lapsed, overdue, orphans, kept, moved, able :
        /\ able = Bind!Working(m, mem, lapsed) \ (mem.held \cup forced)
        /\ orphans \in IF runs THEN Bind!Orphans(actual) ELSE {{}}
        /\ kept \in IF runs THEN Bind!Kept(actual, orphans, able, m) ELSE {{}}
        /\ moved \in Bind!Moved(kept, orphans, m, overdue)
        /\ Allocated(lapsed, orphans, moved, orphans \cup (kept \ moved))
  BY <1>1, Zenon
<1>3. PICK stay, requests, gifts, entries, wan :
        /\ stay = orphans \cup (kept \ moved)
        /\ requests \in IF runs THEN Bind!Requests(m, mem, forced, moved, stay) ELSE {<<>>}
        /\ gifts \in Bind!Allocations(requests, stay, m, chosen, forced, avoid)
        /\ entries = stay \cup Bind!Fresh(gifts) /\ wan = Bind!WanOf(entries)
        /\ Numbered(lapsed, orphans, stay, requests, entries)
  BY <1>2, Zenon DEF Allocated
<1>4. PICK holding, num, S, waiting, written :
        /\ holding \in Bind!Holding(orphans, stay, m)
        /\ num \in Bind!Numberings(holding, entries, requests, m)
        /\ S = {d \in m.leases : wan[d] = Bind!None}
        /\ waiting \in Bind!Sorted(S, Sooner)
        /\ written = Bind!RulesOf(holding, num)
        /\ Outcome(lapsed, wan, written, waiting)
  BY <1>3, Zenon DEF Numbered
<1>5. /\ waiting \in [1..Bind!Cardinality(S) -> S]
      /\ \A d \in S : \E i \in DOMAIN waiting : waiting[i] = d
  BY <1>4 DEF Bind!Sorted
<1>6. PICK lines : /\ lines \in Bind!Scripts(m, force, written)
                   /\ bindingOp' = [kind |-> kind, lines |-> lines, undo |-> undo,
                                    exact |-> m.rules = router.rules,
                                    plan |-> [rules |-> written, wan |-> wan, memory |->
                                                Bind!Remembered(m, mem, wan, waiting, lapsed)]]
  BY <1>4, Zenon DEF Outcome
<1>7. /\ holding \in Bind!Holding(orphans, stay, m)
      /\ num \in Bind!Numberings(holding, entries, requests, m)
      /\ S = {d \in m.leases : wan[d] = Bind!None}
      /\ written = Bind!RulesOf(holding, num)
  BY ONLY <1>4
<1>8. /\ orphans \in SUBSET actual /\ \A e \in orphans : e.dev = 0
      /\ \A a, b \in orphans : a # b => a.wan # b.wan
  BY ONLY <1>2, BindingSets DEF Bind!Orphans
<1>9. /\ kept \in SUBSET actual
      /\ \A e \in kept : e.dev \in able /\ e.wan \notin Bind!WansOf(orphans)
      /\ \A a, b \in kept : a # b => a.dev # b.dev /\ a.wan # b.wan
  BY ONLY <1>2, KeptAre
<1>10. moved \in SUBSET kept
  BY ONLY <1>2 DEF Bind!Moved
<1>11. /\ m.leases \subseteq LanDevices /\ mem.devices \subseteq LanDevices
       /\ able \in SUBSET LanDevices /\ able \cap (mem.held \cup forced) = {}
  <2>1. m.leases \subseteq LanDevices /\ mem.devices \subseteq LanDevices
    BY DEF Bind!Routers, Bind!Memories
  <2>2. QED
    BY ONLY <1>2, <2>1 DEF Bind!Working
<1>12. /\ stay \subseteq Entries /\ Apart(stay)
       /\ \A e \in stay : /\ e.pref \in Bind!Prefs /\ e.dev \in able \cup {0}
                          /\ e.dev = 0 => e.ip \notin m.leases
       /\ Bind!MacsOf(moved) \cap Bind!MacsOf(stay) = {}
  <2>1. /\ orphans \in SUBSET Bind!Actual(m, mem, chosen)
        /\ kept \in SUBSET Bind!Actual(m, mem, chosen)
    BY ONLY <1>8, <1>9 DEF actual
  <2>2. stay = orphans \cup (kept \ moved)
    BY ONLY <1>3
  <2>3. able \in SUBSET LanDevices
    BY ONLY <1>11
  <2>4. Starts(Bind!Actual(m, mem, chosen), orphans, kept, moved, able)
    BY ONLY <1>8, <1>9, <1>10, <2>1 DEF Starts
  <2>5. QED
    BY ONLY <2>2, <2>3, <2>4, m \in Bind!Routers, StayAre
<1>13. orphans \in SUBSET stay
  BY ONLY <1>3
<1>14. \A e \in stay : /\ e.pref \in Bind!Prefs /\ e.dev \notin mem.held
                       /\ e.dev = 0 => e.ip \notin m.leases
  <2>1. mem.held \subseteq LanDevices
    BY DEF Bind!Memories
  <2>2. QED
    BY ONLY <1>11, <1>12, <2>1, BindingSets
<1>15. /\ requests \in Seq(LanDevices)
       /\ \A i, j \in DOMAIN requests : requests[i] = requests[j] => i = j
       /\ Bind!Range(requests) \cap (Bind!MacsOf(stay) \cup mem.held) = {}
       /\ runs => m.leases \ mem.held \subseteq Bind!MacsOf(stay) \cup Bind!Range(requests)
  <2>1. CASE runs
    <3>1. /\ requests \in Seq(LanDevices)
          /\ \A i, j \in DOMAIN requests : requests[i] = requests[j] => i = j
          /\ Bind!Range(requests) =
               {d \in m.leases \ mem.held :
                  d \in forced \cup Bind!MacsOf(moved) \/ d \notin Bind!MacsOf(stay)}
      <4>1. requests \in Bind!Requests(m, mem, forced, moved, stay)
        BY ONLY <1>3, <2>1
      <4>2. QED
        BY ONLY <4>1, m \in Bind!Routers, RequestsAre
    <3>2. ASSUME NEW d \in forced, d \in m.leases PROVE d \notin Bind!MacsOf(stay)
      <4>1. d # 0 /\ d \notin able
        BY ONLY <1>11, <3>2, BindingSets
      <4>2. QED
        BY ONLY <1>12, <4>1 DEF Bind!MacsOf
    <3>3. QED
      BY ONLY <1>12, <3>1, <3>2
  <2>2. CASE ~runs
    <3>1. requests = <<>>
      BY ONLY <1>3, <2>2
    <3>2. Bind!Range(requests) = {}
      BY ONLY <3>1 DEF Bind!Range
    <3>3. QED
      BY ONLY <2>2, <3>1, <3>2
  <2>3. QED
    BY ONLY <2>1, <2>2
<1>16. PICK new : new = Bind!Remembered(m, mem, wan, waiting, lapsed)
  OBVIOUS
<1>17. /\ entries \subseteq Entries /\ Apart(entries) /\ stay \subseteq entries
       /\ \A e \in entries : e.dev \notin mem.held /\ (e.dev = 0 => e.ip \notin m.leases)
       /\ \A d \in Bind!Range(requests) :
            d \in Bind!MacsOf(entries) \/ Bind!Usable(m) \subseteq Bind!WansOf(entries)
  <2>1. Asks(m, mem, stay, requests)
    BY ONLY <1>12, <1>14, <1>15 DEF Asks
  <2>2. /\ gifts \in Bind!Allocations(requests, stay, m, chosen, forced, avoid)
        /\ entries = stay \cup Bind!Fresh(gifts)
    BY ONLY <1>3
  <2>3. QED
    <3>1. Fills(m, mem, stay, requests, entries)
      BY ONLY <2>1, <2>2, m \in Bind!Routers, EntriesAre
    <3>2. QED
      BY ONLY <3>1 DEF Fills
<1>18. /\ written \subseteq Bind!Rules /\ Bind!OneToOne(written, m.leases)
       /\ Bind!WansOf(entries) \subseteq {r.wan : r \in written}
  <2>1. holding \subseteq stay /\ \A a, b \in holding : a # b => a.pref # b.pref
    BY ONLY <1>7, <1>13, HoldingIs
  <2>2. /\ num \in [entries \ holding -> Bind!Prefs \ Bind!PrefsOf(holding)]
        /\ \A a, b \in entries \ holding : a # b => num[a] # num[b]
    BY ONLY <1>7 DEF Bind!Numberings
  <2>3. Numbers(m.leases, entries, holding, num)
    BY ONLY <1>14, <1>17, <2>1, <2>2 DEF Numbers
  <2>4. QED
    BY ONLY <1>7, <2>3, RulesAre
<1>19. /\ wan \in [LanDevices -> LanWans \cup {Bind!None}] /\ new \in Bind!Memories
       /\ \A d \in new.held : wan[d] = Bind!None
       /\ \A d \in Bind!Range(new.waiting) \ new.held :
            d \in m.leases \ mem.held /\ d \notin Bind!MacsOf(entries)
  <2>1. entries \subseteq Entries /\ \A e \in entries : e.dev \notin mem.held
    BY ONLY <1>17
  <2>2. wan = Bind!WanOf(entries) /\ S = {d \in m.leases : wan[d] = Bind!None}
    BY ONLY <1>3, <1>7
  <2>3. QED
    <3>1. Remembers(m, mem, entries, wan, new)
      BY ONLY <1>5, <1>16, <2>1, <2>2, m \in Bind!Routers, mem \in Bind!Memories, RememberedIs
    <3>2. QED
      BY ONLY <3>1 DEF Remembers
<1>20. ASSUME runs, Bind!Range(new.waiting) \ new.held # {}
       PROVE  Bind!Usable(m) \subseteq {r.wan : r \in written}
  <2>1. PICK d \in Bind!Range(new.waiting) \ new.held : TRUE
    BY ONLY <1>20
  <2>2. d \in m.leases \ mem.held /\ d \notin Bind!MacsOf(entries)
    BY ONLY <1>19, <2>1
  <2>3. Bind!MacsOf(stay) \subseteq Bind!MacsOf(entries)
    BY ONLY <1>17 DEF Bind!MacsOf
  <2>4. d \in Bind!Range(requests)
    BY ONLY <1>15, <1>20, <2>2, <2>3
  <2>5. QED
    BY ONLY <1>17, <1>18, <2>2, <2>4
<1>21. bindingOp' = [kind |-> kind, lines |-> lines, undo |-> undo,
                     exact |-> m.rules = router.rules,
                     plan |-> [rules |-> written, wan |-> wan, memory |-> new]]
  BY ONLY <1>6, <1>16
<1>22. lines \in Seq(Bind!Lines)
  BY ONLY <1>6, <1>18, m \in Bind!Routers, ScriptsFit
<1>23. [rules |-> written, wan |-> wan, memory |-> new] \in Bind!Plans
  BY ONLY <1>18, <1>19 DEF Bind!Plans
<1>24. Planned(bindingOp', m, runs)
  BY ONLY <1>18, <1>19, <1>20, <1>21, <1>22, <1>23, kind \in Bind!Kinds,
          undo \in Bind!Undos DEF Planned
<1>25. QED
  BY ONLY <1>6, <1>21, <1>24

\* What is left of a script after its first line has run.
LEMMA RestIs ==
  ASSUME NEW lines \in Seq(Bind!Lines), lines # <<>>
  PROVE  /\ Tail(lines) \in Seq(Bind!Lines) /\ Head(lines) = lines[1] /\ 1 \in DOMAIN lines
         /\ \A i \in DOMAIN Tail(lines) :
              i \in Nat /\ i + 1 \in DOMAIN lines /\ Tail(lines)[i] = lines[i + 1]
         /\ \A i \in DOMAIN lines : i \in Nat /\ (i # 1 => i - 1 \in DOMAIN Tail(lines))
  OBVIOUS

\* Added lines after the first one.
LEMMA AddedAfter ==
  ASSUME NEW lines \in Seq(Bind!Lines), lines # <<>>, NEW planned, NEW there,
         Fits(lines, planned, there)
  PROVE  IF Head(lines).do = "add"
         THEN /\ Added(lines) = Added(Tail(lines)) \cup {Head(lines).rule}
              /\ Head(lines).rule \notin Added(Tail(lines))
         ELSE Added(Tail(lines)) = Added(lines)
<1>1. /\ \A r \in Added(lines) : \E i \in DOMAIN lines :
           lines[i].do = "add" /\ lines[i].rule = r
      /\ \A i \in DOMAIN lines : lines[i].do = "add" => lines[i].rule \in Added(lines)
  BY DEF Added
<1>2. /\ \A r \in Added(Tail(lines)) : \E i \in DOMAIN Tail(lines) :
           Tail(lines)[i].do = "add" /\ Tail(lines)[i].rule = r
      /\ \A i \in DOMAIN Tail(lines) :
           Tail(lines)[i].do = "add" => Tail(lines)[i].rule \in Added(Tail(lines))
  BY DEF Added
<1>3. ASSUME NEW r \in Added(Tail(lines))
      PROVE  \E i \in DOMAIN lines : i > 1 /\ lines[i].do = "add" /\ lines[i].rule = r
  <2>1. PICK i \in DOMAIN Tail(lines) : Tail(lines)[i].do = "add" /\ Tail(lines)[i].rule = r
    BY ONLY <1>2, <1>3
  <2>2. i + 1 \in DOMAIN lines /\ lines[i + 1] = Tail(lines)[i] /\ i + 1 > 1
    BY RestIs
  <2>3. QED
    BY ONLY <2>1, <2>2
<1>4. ASSUME NEW r \in Added(lines)
      PROVE  r \in Added(Tail(lines)) \/ (Head(lines).do = "add" /\ Head(lines).rule = r)
  <2>1. PICK i \in DOMAIN lines : lines[i].do = "add" /\ lines[i].rule = r
    BY ONLY <1>1, <1>4
  <2>2. CASE i = 1
    BY <2>1, <2>2, RestIs
  <2>3. CASE i # 1
    <3>1. i - 1 \in DOMAIN Tail(lines) /\ i \in Nat
      BY <2>3, RestIs
    <3>2. Tail(lines)[i - 1] = lines[(i - 1) + 1] /\ (i - 1) + 1 = i
      BY <3>1, RestIs
    <3>3. QED
      BY ONLY <1>2, <2>1, <3>1, <3>2
  <2>4. QED
    BY ONLY <2>2, <2>3
<1>5. Head(lines) = lines[1] /\ 1 \in DOMAIN lines
  BY RestIs
<1>6. \A i \in DOMAIN lines : i > 1 /\ lines[1].do = "add" =>
        lines[i].do = "add" /\ lines[i].rule # lines[1].rule
  BY <1>5 DEF Fits
<1>7. Added(Tail(lines)) \subseteq Added(lines)
  BY ONLY <1>1, <1>3
<1>8. CASE Head(lines).do = "add"
  <2>1. Head(lines).rule \in Added(lines)
    BY ONLY <1>1, <1>5, <1>8
  <2>2. Head(lines).rule \notin Added(Tail(lines))
    BY ONLY <1>3, <1>5, <1>6, <1>8
  <2>3. QED
    BY ONLY <1>4, <1>7, <1>8, <2>1, <2>2
<1>9. CASE Head(lines).do # "add"
  <2>1. Added(lines) \subseteq Added(Tail(lines))
    BY ONLY <1>4, <1>9
  <2>2. Added(Tail(lines)) = Added(lines)
    BY ONLY <1>7, <2>1
  <2>3. QED
    BY ONLY <1>9, <2>2
<1>10. QED
  BY ONLY <1>8, <1>9

\* Nothing is deleted after an addition.
LEMMA FitsAdd ==
  ASSUME NEW lines \in Seq(Bind!Lines), lines # <<>>, NEW planned, NEW there,
         Fits(lines, planned, there), Head(lines).do = "add"
  PROVE  Fits(Tail(lines), planned, there \cup {Head(lines).rule})
<1> DEFINE rest == Tail(lines)
           added == Head(lines).rule
           after == there \cup {added}
<1>1. Added(lines) = Added(rest) \cup {added} /\ added \notin Added(rest)
  BY AddedAfter
<1>2. /\ Added(lines) \subseteq planned /\ planned \subseteq there \cup Added(lines)
      /\ \A i, j \in DOMAIN lines : i < j /\ lines[i].do = "add" =>
           lines[j].do = "add" /\ lines[j].rule # lines[i].rule
  BY DEF Fits
<1>3. /\ Head(lines) = lines[1] /\ 1 \in DOMAIN lines
      /\ \A i \in DOMAIN rest : i \in Nat /\ i + 1 \in DOMAIN lines /\ rest[i] = lines[i + 1]
      /\ \A i \in DOMAIN lines : i \in Nat
      /\ \A i \in DOMAIN rest : i > 0
  <2>1. rest \in Seq(Bind!Lines)
    BY RestIs
  <2>2. \A i \in DOMAIN rest : i > 0
    BY ONLY <2>1
  <2>3. QED
    BY <2>2, RestIs
<1>4. ASSUME NEW i \in DOMAIN lines PROVE lines[i].do = "add"
  <2>1. i = 1 \/ i > 1
    BY RestIs
  <2>2. QED
    BY <1>2, <1>3, <2>1
<1>5. Stale(lines, planned, there) = {}
  <2>1. PICK line \in [Stale(lines, planned, there) -> DOMAIN lines] :
          \A r \in Stale(lines, planned, there) : lines[line[r]].do = "del"
    BY DEF Fits
  <2>2. QED
    BY ONLY <1>4, <2>1
<1>6. Stale(rest, planned, after) = {}
  BY ONLY <1>1, <1>2, <1>5 DEF Stale
<1>7. /\ Added(rest) \subseteq planned /\ planned \subseteq after \cup Added(rest)
  BY ONLY <1>1, <1>2
<1>8. \A i, j \in DOMAIN rest : i < j /\ rest[i].do = "add" =>
        rest[j].do = "add" /\ rest[j].rule # rest[i].rule
  <2>1. SUFFICES ASSUME NEW i \in DOMAIN rest, NEW j \in DOMAIN rest, i < j, rest[i].do = "add"
                 PROVE  rest[j].do = "add" /\ rest[j].rule # rest[i].rule
    OBVIOUS
  <2>2. /\ i + 1 < j + 1 /\ i + 1 \in DOMAIN lines /\ j + 1 \in DOMAIN lines
        /\ rest[i] = lines[i + 1] /\ rest[j] = lines[j + 1]
    BY ONLY <1>3, <2>1
  <2>3. QED
    BY ONLY <1>2, <2>1, <2>2
<1>9. \A i \in DOMAIN rest : rest[i].do = "add"
  BY ONLY <1>3, <1>4
<1>10. \E line \in [Stale(rest, planned, after) -> DOMAIN rest] :
         /\ \A r, s \in Stale(rest, planned, after) : line[r] = line[s] => r = s
         /\ \A r \in Stale(rest, planned, after) :
              rest[line[r]].do = "del" /\ rest[line[r]].pref = r.pref
  <2> DEFINE line == [r \in {} |-> 1]
  <2>1. line \in [Stale(rest, planned, after) -> DOMAIN rest]
    BY ONLY <1>6
  <2>2. QED
    BY ONLY <1>6, <2>1
<1> HIDE DEF rest, after
<1>11. Fits(rest, planned, after)
  BY ONLY <1>7, <1>8, <1>9, <1>10 DEF Fits
<1>12. QED
  BY <1>11 DEF rest, after

\* A line that adds nothing leaves what the others do.
LEMMA RestFits ==
  ASSUME NEW lines \in Seq(Bind!Lines), lines # <<>>, NEW planned, NEW there,
         Fits(lines, planned, there), Head(lines).do # "add"
  PROVE  /\ Added(Tail(lines)) = Added(lines) /\ Added(Tail(lines)) \subseteq planned
         /\ \A i, j \in DOMAIN Tail(lines) : i < j /\ Tail(lines)[i].do = "add" =>
              Tail(lines)[j].do = "add" /\ Tail(lines)[j].rule # Tail(lines)[i].rule
         /\ \A i \in DOMAIN Tail(lines) : Tail(lines)[i].do = "del" =>
              \A r \in planned : r.pref = Tail(lines)[i].pref => r \in Added(Tail(lines))
<1> DEFINE rest == Tail(lines)
<1>1. Added(rest) = Added(lines)
  BY AddedAfter
<1>2. \A i \in DOMAIN rest : i \in Nat /\ i + 1 \in DOMAIN lines /\ rest[i] = lines[i + 1]
  BY RestIs
<1>3. /\ Added(lines) \subseteq planned
      /\ \A i, j \in DOMAIN lines : i < j /\ lines[i].do = "add" =>
           lines[j].do = "add" /\ lines[j].rule # lines[i].rule
      /\ \A i \in DOMAIN lines : lines[i].do = "del" =>
           \A r \in planned : r.pref = lines[i].pref => r \in Added(lines)
  BY DEF Fits
<1> HIDE DEF rest
<1>4. ASSUME NEW i \in DOMAIN rest, NEW j \in DOMAIN rest, i < j, rest[i].do = "add"
      PROVE  rest[j].do = "add" /\ rest[j].rule # rest[i].rule
  <2>1. i + 1 < j + 1
    BY ONLY <1>2, <1>4
  <2>2. QED
    BY ONLY <1>2, <1>3, <1>4, <2>1
<1>5. ASSUME NEW i \in DOMAIN rest, rest[i].do = "del", NEW r \in planned, r.pref = rest[i].pref
      PROVE  r \in Added(rest)
  BY ONLY <1>1, <1>2, <1>3, <1>5
<1>6. QED
  BY ONLY <1>1, <1>3, <1>4, <1>5 DEF rest

\* A line that finds nothing to do.
LEMMA FitsIdle ==
  ASSUME NEW lines \in Seq(Bind!Lines), lines # <<>>, NEW planned, NEW there,
         Fits(lines, planned, there), Head(lines).do # "add",
         Head(lines).do = "del" => \A r \in there : r.pref # Head(lines).pref
  PROVE  Fits(Tail(lines), planned, there)
<1> DEFINE rest == Tail(lines)
<1>1. /\ Added(rest) = Added(lines) /\ Added(rest) \subseteq planned
      /\ \A i, j \in DOMAIN rest : i < j /\ rest[i].do = "add" =>
           rest[j].do = "add" /\ rest[j].rule # rest[i].rule
      /\ \A i \in DOMAIN rest : rest[i].do = "del" =>
           \A r \in planned : r.pref = rest[i].pref => r \in Added(rest)
  BY RestFits
<1>2. planned \subseteq there \cup Added(rest)
  BY <1>1 DEF Fits
<1>3. PICK stale : stale = Stale(lines, planned, there)
  OBVIOUS
<1>4. Stale(rest, planned, there) = stale /\ stale \subseteq there
  BY ONLY <1>1, <1>3 DEF Stale
<1>5. PICK line \in [stale -> DOMAIN lines] :
        /\ \A r, s \in stale : line[r] = line[s] => r = s
        /\ \A r \in stale : lines[line[r]].do = "del" /\ lines[line[r]].pref = r.pref
  BY <1>3 DEF Fits
<1>6. ASSUME NEW r \in stale
      PROVE  /\ line[r] \in Nat /\ line[r] - 1 \in DOMAIN rest
             /\ rest[line[r] - 1] = lines[line[r]]
  <2>1. line[r] \in DOMAIN lines /\ lines[line[r]].do = "del" /\ lines[line[r]].pref = r.pref
    BY ONLY <1>5, <1>6
  <2>2. line[r] # 1
    BY <1>4, <2>1, RestIs
  <2>3. line[r] \in Nat /\ line[r] - 1 \in DOMAIN rest
    BY <2>1, <2>2, RestIs
  <2>4. rest[line[r] - 1] = lines[(line[r] - 1) + 1]
    BY <2>3, RestIs
  <2>5. QED
    BY ONLY <2>3, <2>4
<1> HIDE DEF rest
<1> DEFINE left == [r \in stale |-> line[r] - 1]
<1>7. left \in [stale -> DOMAIN rest]
  BY ONLY <1>6
<1>8. \A r \in stale : left[r] = line[r] - 1
  OBVIOUS
<1> HIDE DEF left
<1>9. \A r, s \in stale : left[r] = left[s] => r = s
  BY ONLY <1>5, <1>6, <1>8
<1>10. \A r \in stale : rest[left[r]].do = "del" /\ rest[left[r]].pref = r.pref
  BY ONLY <1>5, <1>6, <1>8
<1>11. Fits(rest, planned, there)
  BY ONLY <1>1, <1>2, <1>4, <1>7, <1>9, <1>10 DEF Fits
<1>12. QED
  BY <1>11 DEF rest

\* A line that deletes a rule.
LEMMA FitsDel ==
  ASSUME NEW lines \in Seq(Bind!Lines), lines # <<>>, NEW planned, NEW there,
         Fits(lines, planned, there), Head(lines).do = "del",
         NEW gone \in there, gone.pref = Head(lines).pref
  PROVE  Fits(Tail(lines), planned, there \ {gone})
<1> DEFINE rest == Tail(lines)
           after == there \ {gone}
<1>1. /\ Added(rest) = Added(lines) /\ Added(rest) \subseteq planned
      /\ \A i, j \in DOMAIN rest : i < j /\ rest[i].do = "add" =>
           rest[j].do = "add" /\ rest[j].rule # rest[i].rule
      /\ \A i \in DOMAIN rest : rest[i].do = "del" =>
           \A r \in planned : r.pref = rest[i].pref => r \in Added(rest)
  BY RestFits
<1>2. gone \in planned => gone \in Added(rest)
  BY <1>1, RestIs DEF Fits
<1>3. planned \subseteq after \cup Added(rest)
  BY <1>1, <1>2 DEF Fits
<1>4. PICK stale : stale = Stale(lines, planned, there)
  OBVIOUS
<1>5. PICK line \in [stale -> DOMAIN lines] :
        /\ \A r, s \in stale : line[r] = line[s] => r = s
        /\ \A r \in stale : lines[line[r]].do = "del" /\ lines[line[r]].pref = r.pref
  BY <1>4 DEF Fits
<1>6. gone \in stale /\ Stale(rest, planned, after) = stale \ {gone}
  BY <1>1, <1>2, <1>4 DEF Stale
<1>7. ASSUME NEW i \in DOMAIN lines, i # 1
      PROVE  i \in Nat /\ i - 1 \in DOMAIN rest /\ rest[i - 1] = lines[i]
  <2>1. i \in Nat /\ i - 1 \in DOMAIN rest
    BY <1>7, RestIs
  <2>2. rest[i - 1] = lines[(i - 1) + 1]
    BY <2>1, RestIs
  <2>3. QED
    BY ONLY <2>1, <2>2
<1> HIDE DEF rest, after
<1> DEFINE Of(r) == IF line[r] = 1 THEN line[gone] ELSE line[r]
           left == [r \in stale \ {gone} |-> Of(r) - 1]
<1>8. ASSUME NEW r \in stale, r # gone
      PROVE  /\ Of(r) \in DOMAIN lines /\ Of(r) # 1
             /\ lines[Of(r)].do = "del" /\ lines[Of(r)].pref = r.pref
  <2>1. line[r] \in DOMAIN lines /\ line[gone] \in DOMAIN lines /\ line[r] # line[gone]
    BY ONLY <1>5, <1>6, <1>8
  <2>2. CASE line[r] = 1
    <3>1. lines[line[r]].pref = r.pref /\ Head(lines).pref = lines[line[r]].pref
      BY <1>5, <2>2, RestIs
    <3>2. lines[line[gone]].do = "del" /\ lines[line[gone]].pref = gone.pref
      BY <1>5, <1>6
    <3>3. gone.pref = r.pref
      BY <3>1
    <3>4. QED
      BY ONLY <2>1, <2>2, <3>2, <3>3
  <2>3. CASE line[r] # 1
    BY ONLY <1>5, <1>8, <2>1, <2>3
  <2>4. QED
    BY ONLY <2>2, <2>3
<1>9. ASSUME NEW r \in stale, r # gone, NEW s \in stale, s # gone, Of(r) = Of(s) PROVE r = s
  BY ONLY <1>5, <1>6, <1>9
<1> HIDE DEF Of
<1>10. left \in [stale \ {gone} -> DOMAIN rest]
  BY ONLY <1>7, <1>8
<1>11. \A r \in stale \ {gone} : left[r] = Of(r) - 1
  OBVIOUS
<1> HIDE DEF left
<1>12. \A r, s \in stale \ {gone} : left[r] = left[s] => r = s
  BY ONLY <1>7, <1>8, <1>9, <1>11
<1>13. \A r \in stale \ {gone} : rest[left[r]].do = "del" /\ rest[left[r]].pref = r.pref
  BY ONLY <1>7, <1>8, <1>11
<1>14. Fits(rest, planned, after)
  BY ONLY <1>1, <1>3, <1>6, <1>10, <1>12, <1>13 DEF Fits
<1>15. QED
  BY <1>14 DEF rest, after

\* A script that has ended has brought the rules to the plan.
LEMMA FitsAtEnd ==
  ASSUME NEW planned, NEW there, Fits(<<>>, planned, there)
  PROVE  there = planned
<1>1. Added(<<>>) = {}
  BY DEF Added
<1>2. Stale(<<>>, planned, there) = {}
  <2>1. PICK line : line \in [Stale(<<>>, planned, there) -> DOMAIN <<>>]
    BY DEF Fits
  <2>2. DOMAIN <<>> = {}
    OBVIOUS
  <2>3. QED
    BY ONLY <2>1, <2>2
<1>3. planned \subseteq there
  BY <1>1 DEF Fits
<1>4. QED
  BY <1>2, <1>3 DEF Stale

-----------------------------------------------------------------------------
(***************************************************************************)
(* The invariant of the engine.                                            *)
(***************************************************************************)

\* What an operation still does fits what it has planned.
OpFits == bindingOp.exact => Fits(bindingOp.lines, bindingOp.plan.rules, router.rules)

\* The inductive invariant of the engine.
BindInv ==
  /\ Bind!TypeOK
  /\ changes \in 0..EngineChanges /\ router.boot <= changes
  /\ bindingOp.kind # "idle" =>
       model \in Bind!Routers /\ Planned(bindingOp, model, running) /\ OpFits

\* The engine begins with nothing.
LEMMA BindInitKeeps ==
  ASSUME Bind!Init
  PROVE  BindInv
<1>1. PICK present \in SUBSET LanDevices :
        router = [leases |-> present, wan |-> [w \in LanWans |-> "usable"], rules |-> {},
                  guarded |-> TRUE, boot |-> 0]
  BY DEF Bind!Init
<1>2. EngineChanges \in Nat
  BY BindingAssumption
<1>3. router \in Bind!Routers /\ router.boot = 0
  BY <1>1, <1>2 DEF Bind!Routers
<1>4. Bind!Unassigned \in [LanDevices -> LanWans \cup {Bind!None}]
  BY DEF Bind!Unassigned
<1>5. Bind!EmptyMemory \in Bind!Memories
  <2>1. <<>> \in Seq(LanDevices)
    OBVIOUS
  <2>2. QED
    BY <1>4, <2>1 DEF Bind!EmptyMemory, Bind!Memories
<1>6. /\ sample = Bind!NoModel /\ model = Bind!NoModel /\ lastBoot = -1
      /\ memory = Bind!EmptyMemory /\ sticky = Bind!Unassigned /\ given = Bind!Unassigned
      /\ running = TRUE /\ bindingOp = Bind!Idle /\ changes = 0
  BY DEF Bind!Init
<1>7. Bind!TypeOK
  BY ONLY <1>2, <1>3, <1>4, <1>5, <1>6 DEF Bind!TypeOK
<1>8. bindingOp.kind = "idle"
  BY <1>6 DEF Bind!Idle
<1>9. QED
  BY ONLY <1>2, <1>3, <1>6, <1>7, <1>8 DEF BindInv

\* An operation that begins has planned, and its script fits.
LEMMA OperationBegins ==
  ASSUME NEW m \in Bind!Routers, NEW mem \in Bind!Memories, NEW chosen, NEW runs \in BOOLEAN,
         NEW force, NEW forced, NEW avoid, NEW rebooted,
         NEW kind \in Bind!Kinds, NEW undo \in Bind!Undos,
         Bind!Reconcile(kind, m, mem, chosen, runs, force, forced, avoid, rebooted, undo),
         router' = router
  PROVE  Planned(bindingOp', m, runs) /\ OpFits'
<1>1. /\ Planned(bindingOp', m, runs)
      /\ bindingOp'.exact = (m.rules = router.rules)
      /\ bindingOp'.lines \in Bind!Scripts(m, force, bindingOp'.plan.rules)
  BY ReconcileIsSound, Zenon
<1>2. bindingOp'.plan.rules \in SUBSET Bind!Rules
  BY ONLY <1>1 DEF Planned, Bind!Plans
<1>3. Fits(bindingOp'.lines, bindingOp'.plan.rules, m.rules)
  BY <1>1, <1>2, ScriptsFit
<1>4. QED
  BY <1>1, <1>3 DEF OpFits

\* The types, one by one.
LEMMA BindTypes ==
  ASSUME Bind!TypeOK
  PROVE  /\ router \in Bind!Routers
         /\ sample \in Bind!Routers \cup {Bind!NoModel}
         /\ model \in Bind!Routers \cup {Bind!NoModel}
         /\ lastBoot \in -1..EngineChanges /\ memory \in Bind!Memories /\ running \in BOOLEAN
         /\ sticky \in [LanDevices -> LanWans \cup {Bind!None}]
         /\ given \in [LanDevices -> LanWans \cup {Bind!None}]
         /\ bindingOp \in {Bind!Idle} \cup
              [kind : Bind!Kinds, lines : Seq(Bind!Lines), undo : Bind!Undos, exact : BOOLEAN,
               plan : Bind!Plans]
BY DEF Bind!TypeOK

\* The parts of the invariant.
LEMMA BindParts ==
  ASSUME BindInv
  PROVE  /\ router \in Bind!Routers
         /\ sample \in Bind!Routers \cup {Bind!NoModel}
         /\ model \in Bind!Routers \cup {Bind!NoModel}
         /\ lastBoot \in -1..EngineChanges /\ memory \in Bind!Memories /\ running \in BOOLEAN
         /\ sticky \in [LanDevices -> LanWans \cup {Bind!None}]
         /\ given \in [LanDevices -> LanWans \cup {Bind!None}]
         /\ bindingOp \in {Bind!Idle} \cup
              [kind : Bind!Kinds, lines : Seq(Bind!Lines), undo : Bind!Undos, exact : BOOLEAN,
               plan : Bind!Plans]
         /\ changes \in 0..EngineChanges /\ router.boot <= changes /\ EngineChanges \in Nat
         /\ router.boot \in 0..EngineChanges
BY BindTypes, BindingAssumption DEF BindInv, Bind!Routers

\* An operation that runs is no idle one.
LEMMA OpParts ==
  ASSUME BindInv, bindingOp.kind # "idle"
  PROVE  /\ bindingOp \in [kind : Bind!Kinds, lines : Seq(Bind!Lines), undo : Bind!Undos,
                           exact : BOOLEAN, plan : Bind!Plans]
         /\ model \in Bind!Routers /\ Planned(bindingOp, model, running) /\ OpFits
         /\ bindingOp.undo.memory \in Bind!Memories /\ bindingOp.undo.running \in BOOLEAN
         /\ bindingOp.undo.sticky \in [LanDevices -> LanWans \cup {Bind!None}]
<1>1. model \in Bind!Routers /\ Planned(bindingOp, model, running) /\ OpFits
  BY DEF BindInv
<1>2. bindingOp \in [kind : Bind!Kinds, lines : Seq(Bind!Lines), undo : Bind!Undos,
                     exact : BOOLEAN, plan : Bind!Plans]
  BY ONLY <1>1 DEF Planned
<1>3. bindingOp.undo \in Bind!Undos
  BY ONLY <1>2
<1>4. QED
  BY ONLY <1>1, <1>2, <1>3 DEF Bind!Undos

\* A sweep keeps the invariant.
LEMMA SweepKeeps ==
  ASSUME BindInv, Bind!Sweep
  PROVE  BindInv'
<1>1. /\ sample' = router
      /\ UNCHANGED <<router, model, lastBoot, memory, sticky, running, given, bindingOp,
                     changes>>
  BY DEF Bind!Sweep
<1>2. Bind!TypeOK'
  BY <1>1, BindParts DEF Bind!TypeOK
<1>3. QED
  BY <1>1, <1>2 DEF BindInv, OpFits

\* A sample that is taken keeps it.
LEMMA TakeSampleKeeps ==
  ASSUME BindInv, Bind!TakeSample
  PROVE  BindInv'
<1> DEFINE rebooted == sample.boot # lastBoot /\ lastBoot # -1
           undo == [memory |-> memory, sticky |-> sticky, running |-> running]
<1>1. /\ sample # Bind!NoModel
      /\ Bind!Reconcile("sample", sample, memory, sticky, running, rebooted, {},
                        Bind!Unassigned, rebooted, undo)
      /\ sample' = IF rebooted THEN sample ELSE Bind!NoModel
      /\ model' = sample /\ lastBoot' = sample.boot
      /\ UNCHANGED <<router, memory, sticky, running, given, changes>>
  BY DEF Bind!TakeSample
<1>2. sample \in Bind!Routers /\ sample.boot \in 0..EngineChanges
  BY <1>1, BindParts DEF Bind!Routers
<1>3. undo \in Bind!Undos /\ "sample" \in Bind!Kinds
  BY BindParts DEF Bind!Undos, Bind!Kinds
<1>4. /\ sample' \in Bind!Routers \cup {Bind!NoModel} /\ model' \in Bind!Routers
      /\ lastBoot' \in -1..EngineChanges
  <2>1. EngineChanges \in Nat
    BY BindParts
  <2> HIDE DEF rebooted
  <2>2. QED
    BY ONLY <1>1, <1>2, <2>1
<1> HIDE DEF rebooted, undo
<1>5. Planned(bindingOp', sample, running) /\ OpFits'
  BY <1>1, <1>2, <1>3, BindParts, OperationBegins
<1>6. Bind!TypeOK'
  <2>1. bindingOp' \in [kind : Bind!Kinds, lines : Seq(Bind!Lines), undo : Bind!Undos,
                        exact : BOOLEAN, plan : Bind!Plans]
    BY ONLY <1>5 DEF Planned
  <2>2. QED
    BY <1>1, <1>4, <2>1, BindParts DEF Bind!TypeOK
<1>7. QED
  BY <1>1, <1>4, <1>5, <1>6, BindParts DEF BindInv

\* An action of a user on a device keeps it.
LEMMA ActOnKeeps ==
  ASSUME BindInv, NEW d \in LanDevices, NEW what \in {"unassign", "reassign"},
         Bind!ActOn(d, what)
  PROVE  BindInv'
<1> DEFINE held == IF what = "unassign" THEN memory.held \cup {d} ELSE memory.held \ {d}
           mem == [memory EXCEPT !.held = held]
           chosen == IF what = "unassign" THEN sticky ELSE [sticky EXCEPT ![d] = Bind!None]
           forced == IF what = "unassign" THEN {} ELSE {d}
           avoid == [Bind!Unassigned EXCEPT ![d] = given[d]]
           undo == [memory |-> memory, sticky |-> sticky, running |-> running]
<1>1. /\ model # Bind!NoModel
      /\ memory' = mem /\ sticky' = chosen
      /\ Bind!Reconcile(what, model, mem, chosen, running, FALSE, forced, avoid, FALSE, undo)
      /\ UNCHANGED <<router, sample, model, lastBoot, running, given, changes>>
  BY DEF Bind!ActOn
<1>2. model \in Bind!Routers
  BY <1>1, BindParts
<1>3. undo \in Bind!Undos /\ what \in Bind!Kinds
  BY BindParts DEF Bind!Undos, Bind!Kinds
<1>4. mem \in Bind!Memories
  BY BindParts DEF Bind!Memories
<1>5. chosen \in [LanDevices -> LanWans \cup {Bind!None}]
  BY BindParts
<1> HIDE DEF mem, chosen, forced, avoid, undo
<1>6. Planned(bindingOp', model, running) /\ OpFits'
  BY <1>1, <1>2, <1>3, <1>4, BindParts, OperationBegins
<1>7. Bind!TypeOK'
  <2>1. bindingOp' \in [kind : Bind!Kinds, lines : Seq(Bind!Lines), undo : Bind!Undos,
                        exact : BOOLEAN, plan : Bind!Plans]
    BY ONLY <1>6 DEF Planned
  <2>2. QED
    BY <1>1, <1>4, <1>5, <2>1, BindParts DEF Bind!TypeOK
<1>8. QED
  BY <1>1, <1>2, <1>6, <1>7, BindParts DEF BindInv

\* Starting or stopping the instance keeps it.
LEMMA SetRunningKeeps ==
  ASSUME BindInv, NEW runs \in BOOLEAN, Bind!SetRunning(runs)
  PROVE  BindInv'
<1> DEFINE kind == IF runs THEN "start" ELSE "stop"
           undo == [memory |-> memory, sticky |-> sticky, running |-> running]
<1>1. /\ model # Bind!NoModel /\ running' = runs
      /\ Bind!Reconcile(kind, model, memory, sticky, runs, TRUE, {}, Bind!Unassigned,
                        FALSE, undo)
      /\ UNCHANGED <<router, sample, model, lastBoot, memory, sticky, given, changes>>
  BY DEF Bind!SetRunning
<1>2. model \in Bind!Routers
  BY <1>1, BindParts
<1>3. undo \in Bind!Undos /\ kind \in Bind!Kinds
  BY BindParts DEF Bind!Undos, Bind!Kinds
<1> HIDE DEF kind, undo
<1>4. Planned(bindingOp', model, runs) /\ OpFits'
  BY <1>1, <1>2, <1>3, BindParts, OperationBegins
<1>5. Bind!TypeOK'
  <2>1. bindingOp' \in [kind : Bind!Kinds, lines : Seq(Bind!Lines), undo : Bind!Undos,
                        exact : BOOLEAN, plan : Bind!Plans]
    BY ONLY <1>4 DEF Planned
  <2>2. QED
    BY <1>1, <2>1, BindParts DEF Bind!TypeOK
<1>6. QED
  BY <1>1, <1>2, <1>4, <1>5, BindParts DEF BindInv

\* An operation that gives up leaves none, whatever the router has become.
LEMMA GiveUpKeeps ==
  ASSUME BindInv, bindingOp.kind # "idle", Bind!GiveUp,
         router' \in Bind!Routers, changes' \in 0..EngineChanges, router'.boot <= changes',
         UNCHANGED <<sample, model, lastBoot, given>>
  PROVE  BindInv'
<1>1. /\ bindingOp' = Bind!Idle /\ memory' \in Bind!Memories /\ running' \in BOOLEAN
      /\ sticky' \in [LanDevices -> LanWans \cup {Bind!None}]
  BY OpParts DEF Bind!GiveUp
<1>2. Bind!TypeOK'
  BY <1>1, BindParts DEF Bind!TypeOK
<1>3. bindingOp'.kind = "idle"
  BY <1>1 DEF Bind!Idle
<1>4. QED
  BY <1>2, <1>3 DEF BindInv

\* A line that runs leaves a script that fits.
LEMMA RunsKeeps ==
  ASSUME BindInv, bindingOp.kind # "idle", bindingOp.lines # <<>>,
         Bind!Runs(Head(bindingOp.lines)),
         UNCHANGED <<sample, model, lastBoot, given, changes>>
  PROVE  BindInv'
<1> DEFINE lines == bindingOp.lines
           line == Head(lines)
           planned == bindingOp.plan.rules
<1>1. /\ bindingOp \in [kind : Bind!Kinds, lines : Seq(Bind!Lines), undo : Bind!Undos,
                        exact : BOOLEAN, plan : Bind!Plans]
      /\ model \in Bind!Routers /\ Planned(bindingOp, model, running) /\ OpFits
  BY OpParts
<1>2. /\ lines \in Seq(Bind!Lines) /\ lines # <<>> /\ line \in Bind!Lines
      /\ Tail(lines) \in Seq(Bind!Lines)
  <2>1. lines \in Seq(Bind!Lines) /\ lines # <<>>
    BY <1>1
  <2> HIDE DEF lines
  <2>2. QED
    BY ONLY <2>1
<1>3. /\ bindingOp' = [bindingOp EXCEPT !.lines = Tail(lines)]
      /\ UNCHANGED <<memory, sticky, running>>
  BY DEF Bind!Runs
<1>4. /\ bindingOp' \in [kind : Bind!Kinds, lines : Seq(Bind!Lines), undo : Bind!Undos,
                         exact : BOOLEAN, plan : Bind!Plans]
      /\ bindingOp'.lines = Tail(lines) /\ bindingOp'.plan = bindingOp.plan
      /\ bindingOp'.exact = bindingOp.exact
  BY <1>1, <1>2, <1>3
<1>5. Planned(bindingOp', model', running')
  BY <1>1, <1>3, <1>4 DEF Planned
<1>6. router \in Bind!Routers /\ router.rules \subseteq Bind!Rules
  BY BindParts DEF Bind!Routers
<1>7. /\ router' \in Bind!Routers /\ router'.boot = router.boot
      /\ Fits(lines, planned, router.rules) => Fits(Tail(lines), planned, router'.rules)
  <2>1. CASE line.do \in {"route", "guard"}
    <3>1. /\ router' \in Bind!Routers /\ router'.boot = router.boot
          /\ router'.rules = router.rules
      BY <1>6, <2>1 DEF Bind!Runs, Bind!Routers
    <3> HIDE DEF lines, planned
    <3>2. QED
      BY <1>2, <2>1, <3>1, FitsIdle
  <2>2. CASE line.do = "add"
    <3>1. line.rule \in Bind!Rules
      BY <1>2, <2>2 DEF Bind!Lines
    <3>2. router' = [router EXCEPT !.rules = router.rules \cup {line.rule}]
      BY <2>2 DEF Bind!Runs
    <3>3. /\ router' \in Bind!Routers /\ router'.boot = router.boot
          /\ router'.rules = router.rules \cup {line.rule}
      BY ONLY <1>6, <3>1, <3>2 DEF Bind!Routers
    <3> HIDE DEF lines, planned
    <3>4. QED
      BY <1>2, <2>2, <3>3, FitsAdd
  <2>3. CASE line.do = "del" /\ \A r \in router.rules : r.pref # line.pref
    <3>1. router' = router
      BY <2>3 DEF Bind!Runs
    <3> HIDE DEF lines, planned
    <3>2. QED
      BY <1>2, <1>6, <2>3, <3>1, FitsIdle
  <2>4. CASE line.do = "del" /\ \E r \in router.rules : r.pref = line.pref
    <3>1. PICK r \in router.rules :
            r.pref = line.pref /\ router' = [router EXCEPT !.rules = router.rules \ {r}]
      BY <2>4 DEF Bind!Runs
    <3>2. /\ router' \in Bind!Routers /\ router'.boot = router.boot
          /\ router'.rules = router.rules \ {r}
      BY ONLY <1>6, <3>1 DEF Bind!Routers
    <3> HIDE DEF lines, planned
    <3>3. QED
      BY <1>2, <2>4, <3>1, <3>2, FitsDel
  <2>5. line.do \in {"route", "guard", "del", "add"}
    BY ONLY <1>2 DEF Bind!Lines
  <2>6. QED
    BY ONLY <2>1, <2>2, <2>3, <2>4, <2>5
<1>8. OpFits'
  BY <1>1, <1>4, <1>7 DEF OpFits
<1>9. Bind!TypeOK'
  BY <1>3, <1>4, <1>7, BindParts DEF Bind!TypeOK
<1>10. QED
  BY <1>1, <1>5, <1>7, <1>8, <1>9, BindParts DEF BindInv

\* So does each line.
LEMMA LineKeeps ==
  ASSUME BindInv, Bind!Line
  PROVE  BindInv'
<1>1. /\ bindingOp.kind # "idle" /\ bindingOp.lines # <<>>
      /\ \/ Bind!GiveUp /\ router' = router
         \/ Bind!Runs(Head(bindingOp.lines))
      /\ UNCHANGED <<sample, model, lastBoot, given, changes>>
  BY DEF Bind!Line
<1>2. CASE Bind!GiveUp /\ router' = router
  BY <1>1, <1>2, BindParts, GiveUpKeeps
<1>3. CASE Bind!Runs(Head(bindingOp.lines))
  BY <1>1, <1>3, RunsKeeps
<1>4. QED
  BY <1>1, <1>2, <1>3

\* A script that breaks off keeps the invariant.
LEMMA BreakKeeps ==
  ASSUME BindInv, Bind!Break
  PROVE  BindInv'
<1>1. /\ bindingOp.kind # "idle" /\ Bind!GiveUp
      /\ UNCHANGED <<router, sample, model, lastBoot, given, changes>>
  BY DEF Bind!Break
<1>2. QED
  BY <1>1, BindParts, GiveUpKeeps

\* The end of an operation keeps it.
LEMMA CommitKeeps ==
  ASSUME BindInv, Bind!Commit
  PROVE  BindInv'
<1>1. bindingOp.kind # "idle"
  BY DEF Bind!Commit
<1>2. /\ memory' = bindingOp.plan.memory /\ given' = bindingOp.plan.wan
      /\ sticky' = [d \in LanDevices |-> IF bindingOp.plan.wan[d] # Bind!None
                                         THEN bindingOp.plan.wan[d] ELSE sticky[d]]
      /\ model' = [model EXCEPT !.rules = bindingOp.plan.rules, !.guarded = TRUE]
      /\ sample' = IF bindingOp.kind = "sample" /\ sample # Bind!NoModel
                   THEN model' ELSE sample
      /\ bindingOp' = Bind!Idle
      /\ UNCHANGED <<router, lastBoot, running, changes>>
  BY DEF Bind!Commit
<1>3. /\ bindingOp.plan.rules \subseteq Bind!Rules /\ bindingOp.plan.memory \in Bind!Memories
      /\ bindingOp.plan.wan \in [LanDevices -> LanWans \cup {Bind!None}]
  <2>1. bindingOp.plan \in Bind!Plans
    BY <1>1, OpParts
  <2>2. QED
    BY ONLY <2>1 DEF Bind!Plans
<1>4. model' \in Bind!Routers
  <2>1. model \in Bind!Routers
    BY <1>1, OpParts
  <2>2. QED
    BY ONLY <1>2, <1>3, <2>1 DEF Bind!Routers
<1>5. sticky' \in [LanDevices -> LanWans \cup {Bind!None}]
  BY <1>2, <1>3, BindParts
<1>6. Bind!TypeOK'
  BY <1>2, <1>3, <1>4, <1>5, BindParts DEF Bind!TypeOK
<1>7. bindingOp'.kind = "idle"
  BY <1>2 DEF Bind!Idle
<1>8. QED
  BY <1>2, <1>6, <1>7, BindParts DEF BindInv

\* A new engine keeps it.
LEMMA RestartKeeps ==
  ASSUME BindInv, Bind!Restart
  PROVE  BindInv'
<1>1. /\ changes < EngineChanges /\ changes' = changes + 1
      /\ sample' = Bind!NoModel /\ model' = Bind!NoModel /\ lastBoot' = -1
      /\ memory' = Bind!EmptyMemory /\ given' = Bind!Unassigned
      /\ IF bindingOp.kind = "idle" THEN UNCHANGED <<bindingOp, sticky, running>>
         ELSE bindingOp' = Bind!Idle /\ sticky' = sticky /\ running' = bindingOp.undo.running
      /\ router' = router
  BY DEF Bind!Restart
<1>2. Bind!Unassigned \in [LanDevices -> LanWans \cup {Bind!None}]
  BY DEF Bind!Unassigned
<1>3. Bind!EmptyMemory \in Bind!Memories
  <2>1. <<>> \in Seq(LanDevices)
    OBVIOUS
  <2>2. QED
    BY <1>2, <2>1 DEF Bind!EmptyMemory, Bind!Memories
<1>4. /\ running' \in BOOLEAN /\ sticky' = sticky
      /\ bindingOp' = Bind!Idle \/ (bindingOp' = bindingOp /\ bindingOp.kind = "idle")
  BY <1>1, OpParts, BindParts
<1>5. bindingOp'.kind = "idle"
  BY <1>4 DEF Bind!Idle
<1>6. changes' \in 0..EngineChanges /\ router'.boot <= changes'
  BY <1>1, BindParts
<1>7. -1 \in -1..EngineChanges
  BY BindParts
<1>8. Bind!TypeOK'
  BY <1>1, <1>2, <1>3, <1>4, <1>7, BindParts DEF Bind!TypeOK
<1>9. QED
  BY <1>5, <1>6, <1>8 DEF BindInv

\* What happens to the leases and the WANs of the router keeps it.
LEMMA RouterChangesKeeps ==
  ASSUME BindInv, Bind!RouterChanges
  PROVE  BindInv'
<1>1. /\ changes < EngineChanges /\ changes' = changes + 1
      /\ UNCHANGED <<sample, model, lastBoot, memory, sticky, running, given, bindingOp>>
  BY DEF Bind!RouterChanges
<1>2. router' \in Bind!Routers /\ router'.boot = router.boot /\ router'.rules = router.rules
  <2>1. router \in Bind!Routers
    BY BindParts
  <2>2. \/ \E d \in LanDevices : router' =
             [router EXCEPT !.leases = IF d \in router.leases THEN router.leases \ {d}
                                       ELSE router.leases \cup {d}]
        \/ \E w \in LanWans, s \in {"usable", "starting", "error"} :
             router' = [router EXCEPT !.wan[w] = s]
    BY DEF Bind!RouterChanges
  <2>3. CASE \E d \in LanDevices : router' =
               [router EXCEPT !.leases = IF d \in router.leases THEN router.leases \ {d}
                                         ELSE router.leases \cup {d}]
    BY ONLY <2>1, <2>3 DEF Bind!Routers
  <2>4. CASE \E w \in LanWans, s \in {"usable", "starting", "error"} :
               router' = [router EXCEPT !.wan[w] = s]
    BY ONLY <2>1, <2>4 DEF Bind!Routers
  <2>5. QED
    BY ONLY <2>2, <2>3, <2>4
<1>3. changes' \in 0..EngineChanges /\ router'.boot <= changes'
  BY <1>1, <1>2, BindParts
<1>4. Bind!TypeOK'
  BY <1>1, <1>2, BindParts DEF Bind!TypeOK
<1>5. QED
  BY <1>1, <1>2, <1>3, <1>4 DEF BindInv, OpFits

\* A reboot of the router keeps it.
LEMMA RebootKeeps ==
  ASSUME BindInv, Bind!Reboot
  PROVE  BindInv'
<1>1. /\ changes < EngineChanges /\ changes' = changes + 1
      /\ router' = [router EXCEPT !.boot = router.boot + 1, !.leases = {}, !.rules = {},
                                  !.guarded = FALSE, !.wan = [w \in LanWans |-> "starting"]]
      /\ IF bindingOp.kind = "idle" THEN UNCHANGED <<bindingOp, memory, sticky, running>>
         ELSE Bind!GiveUp
      /\ UNCHANGED <<sample, model, lastBoot, given>>
  BY DEF Bind!Reboot
<1>2. router.boot + 1 \in 0..EngineChanges /\ router.boot + 1 <= changes + 1
  BY <1>1, BindParts
<1>3. router' \in Bind!Routers /\ router'.boot = router.boot + 1
  <2>1. router \in Bind!Routers
    BY BindParts
  <2>2. QED
    BY ONLY <1>1, <1>2, <2>1 DEF Bind!Routers
<1>4. changes' \in 0..EngineChanges /\ router'.boot <= changes'
  BY <1>1, <1>2, <1>3, BindParts
<1>5. CASE bindingOp.kind = "idle"
  <2>1. Bind!TypeOK'
    BY <1>1, <1>3, <1>5, BindParts DEF Bind!TypeOK
  <2>2. QED
    BY <1>1, <1>4, <1>5, <2>1 DEF BindInv
<1>6. CASE bindingOp.kind # "idle"
  BY <1>1, <1>3, <1>4, <1>6, GiveUpKeeps
<1>7. QED
  BY <1>5, <1>6

\* Every step of the engine and of its router keeps the invariant.
LEMMA BindNextKeeps ==
  ASSUME BindInv, Bind!Next
  PROVE  BindInv'
BY SweepKeeps, TakeSampleKeeps, LineKeeps, CommitKeeps, BreakKeeps, RestartKeeps,
   RouterChangesKeeps, RebootKeeps, ActOnKeeps, SetRunningKeeps DEF Bind!Next, Bind!Works

\* What the invariant says of the plans and of what is written.
LEMMA BindInvAgrees ==
  ASSUME BindInv
  PROVE  BindingAgrees
<1>1. Bind!TypeOK
  BY DEF BindInv
<1>2. Bind!PlansAreOneToOne
  BY DEF BindInv, Planned, Bind!PlansAreOneToOne
<1>3. ASSUME bindingOp.kind # "idle", bindingOp.lines = <<>>, bindingOp.exact
      PROVE  router.rules = bindingOp.plan.rules
  <2>1. Fits(<<>>, bindingOp.plan.rules, router.rules)
    BY <1>3, OpParts DEF OpFits
  <2>2. QED
    BY <2>1, FitsAtEnd
<1>4. QED
  BY <1>1, <1>2, <1>3 DEF BindingAgrees, Bind!BindingAgrees, Bind!WrittenIsPlanned

\* No step of another part touches the engine.
LEMMA BindStutterKeeps ==
  ASSUME BindInv, UNCHANGED bindingVars
  PROVE  BindInv'
<1>1. UNCHANGED <<router, sample, model, lastBoot, memory, sticky, running, given, bindingOp,
                  changes>>
  BY DEF bindingVars
<1>2. Bind!TypeOK'
  BY <1>1, BindParts DEF Bind!TypeOK
<1>3. QED
  BY <1>1, <1>2 DEF BindInv, OpFits

\* Whatever a sample held, whatever the router and its users do and wherever scripts break
\* off: what reconcileModel() is about to write gives every device with a lease at most
\* one WAN and every WAN to one device, nobody waits while a usable WAN is free, and a
\* script that was made from the rules of the router and has run to its end has written
\* the plan.  (MCMachine, Binding)
THEOREM PlansStayAgreed == AllSpec => []BindingAgrees
<1>1. AllInit => BindInv
  BY BindInitKeeps DEF AllInit
<1>2. BindInv /\ [AllNext]_all => BindInv'
  <2> SUFFICES ASSUME BindInv, [AllNext]_all PROVE BindInv'
    OBVIOUS
  <2>1. Bind!Next \/ UNCHANGED bindingVars
    BY DEF AllNext, all
  <2>2. QED
    BY <2>1, BindNextKeeps, BindStutterKeeps
<1>3. BindInv => BindingAgrees
  BY BindInvAgrees
<1>4. QED
  BY <1>1, <1>2, <1>3, PTL DEF AllSpec

=============================================================================
