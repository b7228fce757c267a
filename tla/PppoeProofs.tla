----------------------------- MODULE PppoeProofs -----------------------------
(***************************************************************************)
(* The proof that the PPPoE dialer of modules/openwrt keeps its records,   *)
(* the router's configuration, what runs there and the firewall zone       *)
(* together (Pppoe), for any size and number of batches, as part of the    *)
(* composition MCMachine: users wait for the end of a creation.            *)
(***************************************************************************)
EXTENDS MCMachine, SequenceTheorems, TLAPS

Creation(b) == <<"create", b>>
Deletion(b) == <<"delete", b>>

\* The items of a job: there are two more than chunks.
Item(j, from, p) ==
  IF Dialer!Creates(j)
  THEN IF p <= BatchSize THEN <<Dialer!DoAt("set", from + p - 1), Dialer!Do("reload")>>
       ELSE IF p = BatchSize + 1 THEN <<Dialer!Do("firewall")>> ELSE <<Dialer!Do("verify")>>
  ELSE IF p = 1 THEN <<Dialer!Do("inspect")>>
       ELSE IF p <= BatchSize + 1 THEN <<Dialer!DoAt("delete", from + p - 2)>>
       ELSE <<Dialer!Do("survey"), Dialer!Do("reload"), Dialer!Do("reloadFirewall")>>
Remaining(j, from, k) == [i \in 1..k |-> Item(j, from, BatchSize + 2 - k + i)]

Verbs == {"inspect", "set", "reload", "firewall", "verify", "delete", "survey", "dropVlan",
          "wait", "clear", "add", "reloadFirewall"}
Commands == [do : Verbs, seq : Nat]
JobRecords ==
  [state : {"running", "closing"}, from : Dialer!Seqs, items : Seq(Seq(Commands)),
   cmds : Seq(Commands), plan : SUBSET Dialer!Seqs, failed : BOOLEAN, cancelled : BOOLEAN,
   mutated : BOOLEAN, reloaded : BOOLEAN]

-----------------------------------------------------------------------------
(***************************************************************************)
(* The inductive invariant: first one job.                                 *)
(***************************************************************************)

Left(r) == Len(r.items)

\* The next command c of a job and the rest t of what it has begun, by the number of the
\* items that are left.
CreateTurn(r, c, t) ==
  \/ /\ Left(r) >= 2 /\ Left(r) <= BatchSize + 1
     /\ \/ /\ c = Dialer!DoAt("set", r.from + BatchSize + 1 - Left(r))
           /\ t = <<Dialer!Do("reload")>>
        \/ c = Dialer!Do("reload") /\ t = <<>>
  \/ /\ Left(r) = 1
     /\ \/ c = Dialer!Do("wait") /\ t = <<>>
        \/ c = Dialer!Do("clear") /\ t = <<Dialer!Do("add"), Dialer!Do("reloadFirewall")>>
        \/ c = Dialer!Do("add") /\ t = <<Dialer!Do("reloadFirewall")>>
        \/ c = Dialer!Do("reloadFirewall") /\ t = <<>>
  \/ Left(r) = 0 /\ c = Dialer!Do("verify") /\ t = <<>>

ReloadTurn(c, t) ==
  \/ c = Dialer!Do("reload") /\ t = <<Dialer!Do("reloadFirewall")>>
  \/ c = Dialer!Do("reloadFirewall") /\ t = <<>>

DeleteTurn(r, c, t) ==
  \/ Left(r) = BatchSize + 1 /\ c = Dialer!Do("inspect") /\ t = <<>>
  \/ /\ Left(r) >= 1 /\ Left(r) <= BatchSize
     /\ c = Dialer!DoAt("delete", r.from + BatchSize - Left(r)) /\ t = <<>>
  \/ /\ Left(r) = 0
     /\ \/ /\ \/ c = Dialer!Do("survey") \/ c = Dialer!Do("dropVlan")
              \/ c = Dialer!Do("wait") \/ c = Dialer!Do("add")
              \/ c = Dialer!Do("clear") /\ r.plan = {}
           /\ t = <<Dialer!Do("reload"), Dialer!Do("reloadFirewall")>>
        \/ /\ c = Dialer!Do("clear") /\ r.plan # {}
           /\ t = <<Dialer!Do("add"), Dialer!Do("reload"), Dialer!Do("reloadFirewall")>>
        \/ ReloadTurn(c, t)

Turn(j, r, c, t) ==
  \/ r.state = "closing" /\ ReloadTurn(c, t)
  \/ r.state = "running" /\ ~r.failed /\ IF Dialer!Creates(j) THEN CreateTurn(r, c, t)
                                         ELSE DeleteTurn(r, c, t)

\* A deletion has noted that it changed something from its first chunk on, and that it
\* reloaded only at its end.
Noted(r) ==
  r.state = "running" =>
    /\ Left(r) < BatchSize \/ (Left(r) = BatchSize /\ r.cmds = <<>>) => r.mutated
    /\ r.reloaded => Left(r) = 0 /\ r.cmds = <<>>
    /\ Left(r) = 0 /\ r.cmds = <<>> /\ ~r.failed => r.reloaded

JobFits(j, r) ==
  /\ r \in JobRecords /\ Dialer!Chunks(r.from) \subseteq Dialer!Seqs
  /\ Left(r) <= BatchSize + 2 /\ r.items = Remaining(j, r.from, Left(r))
  /\ r.cmds = <<>> => r.state = "running"
  /\ r.cmds # <<>> => Turn(j, r, Head(r.cmds), Tail(r.cmds))
  /\ IF Dialer!Creates(j) THEN r.state = "running" ELSE Noted(r)

-----------------------------------------------------------------------------
\* Heads and tails of what a job has begun.
LEMMA ListsAre ==
  /\ \A a : <<a>> # <<>> /\ Head(<<a>>) = a /\ Tail(<<a>>) = <<>>
  /\ \A a, b : <<a, b>> # <<>> /\ Head(<<a, b>>) = a /\ Tail(<<a, b>>) = <<b>>
  /\ \A a, b, c : <<a, b, c>> # <<>> /\ Head(<<a, b, c>>) = a /\ Tail(<<a, b, c>>) = <<b, c>>
  /\ \A a, b, c, d : /\ <<a, b, c, d>> # <<>> /\ Head(<<a, b, c, d>>) = a
                     /\ Tail(<<a, b, c, d>>) = <<b, c, d>>
OBVIOUS

\* What two joined lists are, place by place.
PlacesOf(S, s, t) ==
  /\ s \o t \in Seq(S) /\ Len(s \o t) = Len(s) + Len(t)
  /\ \A i \in 1..Len(s) : (s \o t)[i] = s[i]
  /\ \A i \in 1..Len(t) : (s \o t)[Len(s) + i] = t[i]

\* The first list comes first, the second one after it.
LEMMA JoinedPlaces ==
  ASSUME NEW S, NEW s \in Seq(S), NEW t \in Seq(S)
  PROVE  PlacesOf(S, s, t)
<1> DEFINE u == s \o t
           m == Len(s)
           n == Len(t)
<1>1. /\ u \in Seq(S) /\ Len(u) = m + n
      /\ \A i \in 1..(m + n) : u[i] = IF i <= m THEN s[i] ELSE t[i - m]
  BY ConcatProperties
<1>2. m \in Nat /\ n \in Nat
  BY LenProperties
<1> HIDE DEF u, m, n
<1>3. \A i \in 1..m : i \in 1..(m + n) /\ i <= m
  BY <1>2
<1>4. \A i \in 1..n : m + i \in 1..(m + n) /\ ~(m + i <= m) /\ m + i - m = i
  BY <1>2
<1>5. QED
  BY <1>1, <1>3, <1>4 DEF u, m, n, PlacesOf

\* Joining two lists.
LEMMA JoinsAre ==
  /\ \A a : <<a>> \o <<>> = <<a>>
  /\ \A a, b : <<a, b>> \o <<>> = <<a, b>>
  /\ \A a, b : <<a>> \o <<b>> = <<a, b>>
  /\ \A a, b, c : <<a>> \o <<b, c>> = <<a, b, c>>
  /\ \A a, b, c : <<a, b>> \o <<c>> = <<a, b, c>>
  /\ \A a, b, c, d : <<a, b>> \o <<c, d>> = <<a, b, c, d>>
<1>1. \A a : <<a>> \o <<>> = <<a>>
  OBVIOUS
<1>2. \A a, b : <<a, b>> \o <<>> = <<a, b>>
  OBVIOUS
<1>3. ASSUME NEW a, NEW b PROVE <<a>> \o <<b>> = <<a, b>>
  <2> DEFINE S == {a, b}
             s == <<a>>
             t == <<b>>
             u == <<a, b>>
  <2>1. /\ s \in Seq(S) /\ t \in Seq(S) /\ u \in Seq(S) /\ Len(s) = 1 /\ Len(t) = 1
        /\ Len(u) = 2 /\ s[1] = a /\ t[1] = b /\ u[1] = a /\ u[2] = b
    OBVIOUS
  <2> HIDE DEF S, s, t, u
  <2>2. \A i \in 1..2 : i = 1 \/ i = 2
    OBVIOUS
  <2>3. s \o t \in Seq(S) /\ Len(s \o t) = 2 /\ \A i \in 1..2 : (s \o t)[i] = u[i]
    <3>0. PlacesOf(S, s, t) /\ Len(s) = 1 /\ Len(t) = 1
      BY <2>1, JoinedPlaces
    <3>1. /\ s \o t \in Seq(S) /\ Len(s \o t) = 1 + 1
          /\ \A i \in 1..1 : (s \o t)[i] = s[i]
          /\ \A i \in 1..1 : (s \o t)[1 + i] = t[i]
      BY ONLY <3>0 DEF PlacesOf
    <3>2. 1 \in 1..1 /\ 1 \in 1..1 /\ 1 + 1 = 2
      OBVIOUS
    <3>3. (s \o t)[1] = s[1] /\ (s \o t)[2] = t[1]
      BY <3>1, <3>2
    <3>4. QED
      BY <2>1, <2>2, <3>1, <3>2, <3>3
  <2>4. s \o t = u
    BY <2>1, <2>3, SeqEqual
  <2>5. QED
    BY <2>4 DEF s, t, u
<1>4. ASSUME NEW a, NEW b, NEW c PROVE <<a>> \o <<b, c>> = <<a, b, c>>
  <2> DEFINE S == {a, b, c}
             s == <<a>>
             t == <<b, c>>
             u == <<a, b, c>>
  <2>1. /\ s \in Seq(S) /\ t \in Seq(S) /\ u \in Seq(S) /\ Len(s) = 1 /\ Len(t) = 2
        /\ Len(u) = 3 /\ s[1] = a /\ t[1] = b /\ t[2] = c
        /\ u[1] = a /\ u[2] = b /\ u[3] = c
    OBVIOUS
  <2> HIDE DEF S, s, t, u
  <2>2. \A i \in 1..3 : i = 1 \/ i = 2 \/ i = 3
    OBVIOUS
  <2>3. s \o t \in Seq(S) /\ Len(s \o t) = 3 /\ \A i \in 1..3 : (s \o t)[i] = u[i]
    <3>0. PlacesOf(S, s, t) /\ Len(s) = 1 /\ Len(t) = 2
      BY <2>1, JoinedPlaces
    <3>1. /\ s \o t \in Seq(S) /\ Len(s \o t) = 1 + 2
          /\ \A i \in 1..1 : (s \o t)[i] = s[i]
          /\ \A i \in 1..2 : (s \o t)[1 + i] = t[i]
      BY ONLY <3>0 DEF PlacesOf
    <3>2. 1 \in 1..1 /\ 1 \in 1..2 /\ 1 + 1 = 2 /\ 2 \in 1..2 /\ 1 + 2 = 3
      OBVIOUS
    <3>3. (s \o t)[1] = s[1] /\ (s \o t)[2] = t[1] /\ (s \o t)[3] = t[2]
      BY <3>1, <3>2
    <3>4. QED
      BY <2>1, <2>2, <3>1, <3>2, <3>3
  <2>4. s \o t = u
    BY <2>1, <2>3, SeqEqual
  <2>5. QED
    BY <2>4 DEF s, t, u
<1>5. ASSUME NEW a, NEW b, NEW c PROVE <<a, b>> \o <<c>> = <<a, b, c>>
  <2> DEFINE S == {a, b, c}
             s == <<a, b>>
             t == <<c>>
             u == <<a, b, c>>
  <2>1. /\ s \in Seq(S) /\ t \in Seq(S) /\ u \in Seq(S) /\ Len(s) = 2 /\ Len(t) = 1
        /\ Len(u) = 3 /\ s[1] = a /\ s[2] = b /\ t[1] = c
        /\ u[1] = a /\ u[2] = b /\ u[3] = c
    OBVIOUS
  <2> HIDE DEF S, s, t, u
  <2>2. \A i \in 1..3 : i = 1 \/ i = 2 \/ i = 3
    OBVIOUS
  <2>3. s \o t \in Seq(S) /\ Len(s \o t) = 3 /\ \A i \in 1..3 : (s \o t)[i] = u[i]
    <3>0. PlacesOf(S, s, t) /\ Len(s) = 2 /\ Len(t) = 1
      BY <2>1, JoinedPlaces
    <3>1. /\ s \o t \in Seq(S) /\ Len(s \o t) = 2 + 1
          /\ \A i \in 1..2 : (s \o t)[i] = s[i]
          /\ \A i \in 1..1 : (s \o t)[2 + i] = t[i]
      BY ONLY <3>0 DEF PlacesOf
    <3>2. 1 \in 1..2 /\ 2 \in 1..2 /\ 1 \in 1..1 /\ 2 + 1 = 3
      OBVIOUS
    <3>3. (s \o t)[1] = s[1] /\ (s \o t)[2] = s[2] /\ (s \o t)[3] = t[1]
      BY <3>1, <3>2
    <3>4. QED
      BY <2>1, <2>2, <3>1, <3>2, <3>3
  <2>4. s \o t = u
    BY <2>1, <2>3, SeqEqual
  <2>5. QED
    BY <2>4 DEF s, t, u
<1>6. ASSUME NEW a, NEW b, NEW c, NEW d PROVE <<a, b>> \o <<c, d>> = <<a, b, c, d>>
  <2> DEFINE S == {a, b, c, d}
             s == <<a, b>>
             t == <<c, d>>
             u == <<a, b, c, d>>
  <2>1. /\ s \in Seq(S) /\ t \in Seq(S) /\ u \in Seq(S) /\ Len(s) = 2 /\ Len(t) = 2
        /\ Len(u) = 4 /\ s[1] = a /\ s[2] = b /\ t[1] = c /\ t[2] = d
        /\ u[1] = a /\ u[2] = b /\ u[3] = c /\ u[4] = d
    OBVIOUS
  <2> HIDE DEF S, s, t, u
  <2>2. \A i \in 1..4 : i = 1 \/ i = 2 \/ i = 3 \/ i = 4
    OBVIOUS
  <2>3. s \o t \in Seq(S) /\ Len(s \o t) = 4 /\ \A i \in 1..4 : (s \o t)[i] = u[i]
    <3>0. PlacesOf(S, s, t) /\ Len(s) = 2 /\ Len(t) = 2
      BY <2>1, JoinedPlaces
    <3>1. /\ s \o t \in Seq(S) /\ Len(s \o t) = 2 + 2
          /\ \A i \in 1..2 : (s \o t)[i] = s[i]
          /\ \A i \in 1..2 : (s \o t)[2 + i] = t[i]
      BY ONLY <3>0 DEF PlacesOf
    <3>2. 1 \in 1..2 /\ 2 \in 1..2 /\ 1 \in 1..2 /\ 2 + 1 = 3 /\ 2 \in 1..2 /\ 2 + 2 = 4
      OBVIOUS
    <3>3. (s \o t)[1] = s[1] /\ (s \o t)[2] = s[2] /\ (s \o t)[3] = t[1] /\ (s \o t)[4] = t[2]
      BY <3>1, <3>2
    <3>4. QED
      BY <2>1, <2>2, <3>1, <3>2, <3>3
  <2>4. s \o t = u
    BY <2>1, <2>3, SeqEqual
  <2>5. QED
    BY <2>4 DEF s, t, u
<1>7. QED
  BY <1>1, <1>2, <1>3, <1>4, <1>5, <1>6

\* What is begun are commands.
LEMMA CommandsAre ==
  /\ \A v \in Verbs : Dialer!Do(v) \in Commands
  /\ \A v \in Verbs, s \in Nat : Dialer!DoAt(v, s) \in Commands
  /\ \A v : Dialer!Do(v).do = v /\ Dialer!Do(v).seq = 0
  /\ \A v, s : Dialer!DoAt(v, s).do = v /\ Dialer!DoAt(v, s).seq = s
BY DEF Dialer!Do, Dialer!DoAt, Commands

\* An item is a list of commands.
LEMMA ItemsAre ==
  ASSUME NEW j, NEW from \in Dialer!Seqs, NEW p \in 1..(BatchSize + 2)
  PROVE  Item(j, from, p) \in Seq(Commands)
<1>1. from \in Nat /\ p \in Nat /\ BatchSize \in Nat
  BY DialerAssumption DEF Dialer!Seqs
<1>2. \A v \in Verbs : Dialer!Do(v) \in Commands
  BY CommandsAre
<1>3. /\ p <= BatchSize => Dialer!DoAt("set", from + p - 1) \in Commands
      /\ p > 1 => Dialer!DoAt("delete", from + p - 2) \in Commands
  <2>1. from + p - 1 \in Nat /\ (p > 1 => from + p - 2 \in Nat)
    BY <1>1
  <2>2. QED
    BY <2>1, CommandsAre DEF Verbs
<1>4. {Dialer!Do("reload"), Dialer!Do("firewall"), Dialer!Do("verify"), Dialer!Do("inspect"),
       Dialer!Do("survey"), Dialer!Do("reloadFirewall")} \subseteq Commands
  BY <1>2 DEF Verbs
<1>5. QED
  BY <1>1, <1>3, <1>4 DEF Item

\* The items that are left are taken one by one.
LEMMA RemainingIs ==
  ASSUME NEW j, NEW from \in Dialer!Seqs, NEW k \in 0..(BatchSize + 2)
  PROVE  /\ Remaining(j, from, k) \in Seq(Seq(Commands)) /\ Len(Remaining(j, from, k)) = k
         /\ Remaining(j, from, k) = <<>> <=> k = 0
         /\ k > 0 => /\ Head(Remaining(j, from, k)) = Item(j, from, BatchSize + 3 - k)
                     /\ Tail(Remaining(j, from, k)) = Remaining(j, from, k - 1)
<1>0. k \in Nat /\ BatchSize \in Nat
  BY DialerAssumption
<1>1. \A i \in 1..k : Item(j, from, BatchSize + 2 - k + i) \in Seq(Commands)
  BY <1>0, ItemsAre
<1>2. Remaining(j, from, k) \in Seq(Seq(Commands)) /\ Len(Remaining(j, from, k)) = k
  BY <1>0, <1>1 DEF Remaining
<1>3. Remaining(j, from, k) = <<>> <=> k = 0
  BY <1>2, EmptySeq
<1>4. ASSUME k > 0
      PROVE  /\ Head(Remaining(j, from, k)) = Item(j, from, BatchSize + 3 - k)
             /\ Tail(Remaining(j, from, k)) = Remaining(j, from, k - 1)
  <2>1. Head(Remaining(j, from, k)) = Remaining(j, from, k)[1]
    BY <1>2, <1>3, <1>4
  <2>2. Remaining(j, from, k)[1] = Item(j, from, BatchSize + 2 - k + 1)
    BY <1>0, <1>4 DEF Remaining
  <2>3. BatchSize + 2 - k + 1 = BatchSize + 3 - k
    BY <1>0
  <2> DEFINE s == Remaining(j, from, k)
             t == Remaining(j, from, k - 1)
  <2>4. s \in Seq(Seq(Commands)) /\ s # <<>> /\ Len(s) = k
    BY <1>2, <1>3, <1>4
  <2>5. t \in Seq(Seq(Commands)) /\ Len(t) = k - 1
    <3>1. k - 1 \in Nat
      BY <1>0, <1>4
    <3>2. \A i \in 1..(k - 1) : Item(j, from, BatchSize + 2 - (k - 1) + i) \in Seq(Commands)
      BY <1>0, <1>4, ItemsAre
    <3>3. QED
      BY <3>1, <3>2 DEF Remaining
  <2>6. \A i \in 1..(k - 1) : s[i + 1] = t[i]
    <3>1. ASSUME NEW i \in 1..(k - 1)
          PROVE  /\ i + 1 \in 1..k
                 /\ BatchSize + 2 - k + (i + 1) = BatchSize + 2 - (k - 1) + i
      BY <1>0
    <3>2. QED
      BY <3>1 DEF Remaining
  <2> HIDE DEF s, t
  <2>7. Tail(s) \in Seq(Seq(Commands)) /\ Len(Tail(s)) = k - 1
        /\ \A i \in 1..(k - 1) : Tail(s)[i] = s[i + 1]
    BY <2>4, HeadTailProperties
  <2>8. Tail(s) = t
    BY <2>5, <2>6, <2>7, SeqEqual
  <2>9. QED
    BY <2>1, <2>2, <2>3, <2>8 DEF s, t
<1>5. QED
  BY <1>2, <1>3, <1>4

\* The jobs are the creations and the deletions.
LEMMA JobsAre ==
  /\ \A j \in Dialer!Jobs : Dialer!Batch(j) \in Dialer!Batches
                            /\ j \in {Creation(Dialer!Batch(j)), Deletion(Dialer!Batch(j))}
  /\ \A b \in Dialer!Batches : /\ Creation(b) \in Dialer!Jobs /\ Deletion(b) \in Dialer!Jobs
                               /\ Dialer!Creates(Creation(b)) /\ ~Dialer!Creates(Deletion(b))
                               /\ Dialer!Batch(Creation(b)) = b /\ Dialer!Batch(Deletion(b)) = b
  /\ \A j \in Dialer!Jobs : IF Dialer!Creates(j) THEN j = Creation(Dialer!Batch(j))
                            ELSE j = Deletion(Dialer!Batch(j))
BY DEF Dialer!Jobs, Creation, Deletion, Dialer!Creates, Dialer!Batch

\* What apply() and batchDelete() start.
LEMMA StartsAre ==
  ASSUME NEW b \in Dialer!Batches, NEW from \in Dialer!Seqs
  PROVE  /\ Dialer!CreateItems(from) = Remaining(Creation(b), from, BatchSize + 2)
         /\ Dialer!DeleteItems(from) = Remaining(Deletion(b), from, BatchSize + 2)
<1>0. BatchSize \in Nat \ {0} /\ from \in Nat
  BY DialerAssumption DEF Dialer!Seqs
<1>1. Dialer!Creates(Creation(b)) /\ ~Dialer!Creates(Deletion(b))
  BY JobsAre
<1> DEFINE C == Seq(Commands)
<1>2. \A p \in 1..(BatchSize + 2) : Item(Creation(b), from, p) \in C
                                /\ Item(Deletion(b), from, p) \in C
  BY ItemsAre
<1>3. \A i \in 1..(BatchSize + 2) : BatchSize + 2 - (BatchSize + 2) + i = i
  BY <1>0
<1>4. /\ Remaining(Creation(b), from, BatchSize + 2) \in Seq(C)
      /\ Remaining(Deletion(b), from, BatchSize + 2) \in Seq(C)
      /\ Len(Remaining(Creation(b), from, BatchSize + 2)) = BatchSize + 2
      /\ Len(Remaining(Deletion(b), from, BatchSize + 2)) = BatchSize + 2
      /\ \A i \in 1..(BatchSize + 2) :
           /\ Remaining(Creation(b), from, BatchSize + 2)[i] = Item(Creation(b), from, i)
           /\ Remaining(Deletion(b), from, BatchSize + 2)[i] = Item(Deletion(b), from, i)
  <2>1. BatchSize + 2 \in 0..(BatchSize + 2)
    BY <1>0
  <2>2. \A i \in 1..(BatchSize + 2) :
           /\ Remaining(Creation(b), from, BatchSize + 2)[i] = Item(Creation(b), from, i)
           /\ Remaining(Deletion(b), from, BatchSize + 2)[i] = Item(Deletion(b), from, i)
    BY <1>3 DEF Remaining
  <2>3. QED
    BY <2>1, <2>2, RemainingIs
<1>5. Dialer!CreateItems(from) = Remaining(Creation(b), from, BatchSize + 2)
  <2> DEFINE s == [i \in 1..BatchSize |->
                    <<Dialer!DoAt("set", from + i - 1), Dialer!Do("reload")>>]
             t == << <<Dialer!Do("firewall")>>, <<Dialer!Do("verify")>> >>
             u == Remaining(Creation(b), from, BatchSize + 2)
  <2>1. \A i \in 1..BatchSize : s[i] = Item(Creation(b), from, i)
    BY <1>0, <1>1 DEF Item
  <2>2. /\ t[1] = Item(Creation(b), from, BatchSize + 1)
        /\ t[2] = Item(Creation(b), from, BatchSize + 2)
    BY <1>0, <1>1 DEF Item
  <2>3. s \in Seq(C) /\ Len(s) = BatchSize
    <3>1. \A i \in 1..BatchSize : s[i] \in C
      <4> HIDE DEF s, C
      <4>1. QED
        BY <1>0, <1>2, <2>1
    <3>2. QED
      BY <1>0, <3>1
  <2>4. t \in Seq(C) /\ Len(t) = 2
    <3>1. t[1] \in C /\ t[2] \in C
      <4> HIDE DEF t, C
      <4>1. QED
        BY <1>0, <1>2, <2>2
    <3>2. QED
      BY <3>1
  <2> HIDE DEF s, t, C
  <2>5. /\ s \o t \in Seq(C) /\ Len(s \o t) = BatchSize + 2
        /\ \A i \in 1..BatchSize : (s \o t)[i] = s[i]
        /\ \A i \in 1..2 : (s \o t)[BatchSize + i] = t[i]
    <3>1. PlacesOf(C, s, t)
      BY <2>3, <2>4, JoinedPlaces
    <3>2. QED
      BY <1>0, <2>3, <2>4, <3>1 DEF PlacesOf
  <2>6. \A i \in 1..(BatchSize + 2) : (s \o t)[i] = Item(Creation(b), from, i)
    <3>1. \A i \in 1..(BatchSize + 2) :
            i \in 1..BatchSize \/ i = BatchSize + 1 \/ i = BatchSize + 2
      BY <1>0
    <3>2. 1 \in 1..2 /\ 2 \in 1..2
      OBVIOUS
    <3>3. QED
      BY <2>1, <2>2, <2>5, <3>1, <3>2
  <2> HIDE DEF u
  <2>7. s \o t = u
    <3>1. u \in Seq(C) /\ Len(u) = BatchSize + 2
          /\ \A i \in 1..(BatchSize + 2) : u[i] = Item(Creation(b), from, i)
      BY <1>4 DEF u
    <3>2. QED
      BY <2>5, <2>6, <3>1, SeqEqual
  <2>8. QED
    BY <2>7 DEF s, t, u, Dialer!CreateItems
<1>6. Dialer!DeleteItems(from) = Remaining(Deletion(b), from, BatchSize + 2)
  <2> DEFINE s == << <<Dialer!Do("inspect")>> >>
             t == [i \in 1..BatchSize |-> <<Dialer!DoAt("delete", from + i - 1)>>]
             v == << <<Dialer!Do("survey"), Dialer!Do("reload"),
                       Dialer!Do("reloadFirewall")>> >>
             u == Remaining(Deletion(b), from, BatchSize + 2)
  <2>1. \A i \in 1..BatchSize : t[i] = Item(Deletion(b), from, i + 1)
    <3>1. \A i \in 1..BatchSize : i + 1 <= BatchSize + 1 /\ i + 1 # 1
                               /\ from + i - 1 = from + (i + 1) - 2
      BY <1>0
    <3>2. QED
      BY <1>1, <3>1 DEF Item
  <2>2. /\ s[1] = Item(Deletion(b), from, 1)
        /\ v[1] = Item(Deletion(b), from, BatchSize + 2)
    BY <1>0, <1>1 DEF Item
  <2>3. t \in Seq(C) /\ Len(t) = BatchSize
    <3>1. \A i \in 1..BatchSize : t[i] \in C
      <4> HIDE DEF t, C
      <4>1. QED
        BY <1>0, <1>2, <2>1
    <3>2. QED
      BY <1>0, <3>1
  <2>4. s \in Seq(C) /\ Len(s) = 1 /\ v \in Seq(C) /\ Len(v) = 1
    <3>1. s[1] \in C /\ v[1] \in C
      <4> HIDE DEF s, v, C
      <4>1. QED
        BY <1>0, <1>2, <2>2
    <3>2. QED
      BY <3>1
  <2> HIDE DEF s, t, v, C
  <2>5. /\ s \o t \in Seq(C) /\ Len(s \o t) = 1 + BatchSize
        /\ \A i \in 1..1 : (s \o t)[i] = s[i]
        /\ \A i \in 1..BatchSize : (s \o t)[1 + i] = t[i]
    <3>1. PlacesOf(C, s, t)
      BY <2>3, <2>4, JoinedPlaces
    <3>2. QED
      BY <1>0, <2>3, <2>4, <3>1 DEF PlacesOf
  <2>6. \A i \in 1..(BatchSize + 1) : (s \o t)[i] = Item(Deletion(b), from, i)
    <3>1. \A i \in 1..(BatchSize + 1) :
            \/ i = 1 /\ i \in 1..1
            \/ i - 1 \in 1..BatchSize /\ (i - 1) + 1 = i /\ 1 + (i - 1) = i
      BY <1>0
    <3>2. ASSUME NEW i \in 1..(BatchSize + 1) PROVE (s \o t)[i] = Item(Deletion(b), from, i)
      <4>1. CASE i = 1 /\ i \in 1..1
        BY <2>2, <2>5, <4>1
      <4>2. CASE i - 1 \in 1..BatchSize /\ (i - 1) + 1 = i /\ 1 + (i - 1) = i
        <5>1. (s \o t)[1 + (i - 1)] = t[i - 1]
          BY <2>5, <4>2
        <5>2. t[i - 1] = Item(Deletion(b), from, (i - 1) + 1)
          BY <2>1, <4>2
        <5>3. QED
          BY <4>2, <5>1, <5>2
      <4>3. QED
        BY <3>1, <4>1, <4>2
    <3>3. QED
      BY <3>2
  <2> DEFINE w == s \o t
  <2>7. w \in Seq(C) /\ Len(w) = BatchSize + 1
    BY <1>0, <2>5
  <2>8. \A i \in 1..(BatchSize + 1) : w[i] = Item(Deletion(b), from, i)
    BY <2>6
  <2> HIDE DEF w
  <2>9. /\ w \o v \in Seq(C) /\ Len(w \o v) = BatchSize + 1 + 1
        /\ \A i \in 1..(BatchSize + 1) : (w \o v)[i] = w[i]
        /\ \A i \in 1..1 : (w \o v)[BatchSize + 1 + i] = v[i]
    <3>1. PlacesOf(C, w, v)
      BY <2>4, <2>7, JoinedPlaces
    <3>2. QED
      BY <1>0, <2>4, <2>7, <3>1 DEF PlacesOf
  <2>10. \A i \in 1..(BatchSize + 2) : (w \o v)[i] = Item(Deletion(b), from, i)
    <3>1. \A i \in 1..(BatchSize + 2) :
            i \in 1..(BatchSize + 1) \/ i = BatchSize + 2
      BY <1>0
    <3>2. BatchSize + 1 + 1 = BatchSize + 2 /\ 1 \in 1..1
      BY <1>0
    <3>3. (w \o v)[BatchSize + 1 + 1] = v[1]
      BY <2>9, <3>2
    <3>4. QED
      BY <2>2, <2>8, <2>9, <3>1, <3>2, <3>3
  <2> HIDE DEF u
  <2>11. w \o v = u
    <3>1. u \in Seq(C) /\ Len(u) = BatchSize + 2
          /\ \A i \in 1..(BatchSize + 2) : u[i] = Item(Deletion(b), from, i)
      BY <1>4 DEF u
    <3>2. QED
      BY <1>0, <2>9, <2>10, <3>1, SeqEqual
  <2>12. QED
    BY <2>11 DEF s, t, v, u, w, Dialer!DeleteItems
<1>7. QED
  BY <1>5, <1>6

-----------------------------------------------------------------------------
(***************************************************************************)
(* The inductive invariant: the jobs, the records and the router together. *)
(***************************************************************************)

\* What is begun with one of these commands.
Begun(r, verbs) == r.cmds # <<>> /\ Head(r.cmds).do \in verbs

JobsFit == \A j \in Dialer!Jobs : job[j] # Dialer!NoJob => JobFits(j, job[j])

RecordsFit ==
  /\ recorded \in [Dialer!Batches -> 0..SeqLimit] /\ nextSeq \in 1..(SeqLimit + 1)
  /\ token \in [Dialer!Batches -> 0..SeqLimit]
  /\ seen \in [Dialer!Batches -> SUBSET (0..SeqLimit)]
  /\ job \in [Dialer!Jobs -> JobRecords \cup {Dialer!NoJob}]
  /\ deleting \subseteq Dialer!Batches /\ made \subseteq Dialer!Batches
  /\ lasting \in BOOLEAN /\ commandFailures \in Nat
  /\ uciState \in [uci : [Dialer!Seqs -> Dialer!Batches \cup {Dialer!None, Dialer!Other}],
                   live : SUBSET Dialer!Seqs, zone : SUBSET Dialer!Seqs,
                   liveZone : SUBSET Dialer!Seqs, vlan : BOOLEAN]

\* A batch is recorded as long as one of its two jobs runs or its creation is done, and only
\* one of the three is the case.
OwnersFit ==
  \A b \in Dialer!Batches :
    /\ \A j \in {Creation(b), Deletion(b)} :
         job[j] # Dialer!NoJob => recorded[b] = job[j].from /\ b \notin made
    /\ job[Creation(b)] = Dialer!NoJob \/ job[Deletion(b)] = Dialer!NoJob
    /\ b \in made => recorded[b] # 0

RangesFit ==
  /\ Dialer!RangesAreApart /\ Dialer!SectionsAreRecorded
  /\ \A b \in Dialer!Batches :
       /\ recorded[b] # 0 => Dialer!Chunks(recorded[b]) \subseteq Dialer!Seqs
       /\ seen[b] # Dialer!NotAsked =>
            \A s \in Dialer!Seqs : uciState.uci[s] = Dialer!Other => s \in seen[b]

\* The chunks that a deletion is through with.
Through(r, i) ==
  IF r.cmds = <<>> /\ ~r.failed THEN i + Left(r) <= BatchSize ELSE i + Left(r) < BatchSize

DeletionsFit ==
  \A b \in Dialer!Batches : LET r == job[Deletion(b)] IN
    r # Dialer!NoJob /\ r.state = "running" =>
      \A i \in 0..(BatchSize - 1) : Through(r, i) => uciState.uci[r.from + i] = Dialer!None

OwesReload(j, r) ==
  /\ r # Dialer!NoJob
  /\ IF Dialer!Creates(j) \/ r.state = "closing" THEN Begun(r, {"reload"})
     ELSE r.mutated /\ ~r.reloaded /\ ~Begun(r, {"reloadFirewall"})

OwesZone(j, r) ==
  /\ r # Dialer!NoJob
  /\ IF Dialer!Creates(j) THEN Begun(r, {"add", "reloadFirewall"})
     ELSE r.state = "closing" \/ (r.mutated /\ ~r.reloaded)

OwedFits ==
  ~lasting =>
    /\ uciState.live = Dialer!Sections \/ \E j \in Dialer!Jobs : OwesReload(j, job[j])
    /\ uciState.liveZone = uciState.zone \/ \E j \in Dialer!Jobs : OwesZone(j, job[j])

InFirewall(j, r) ==
  /\ r # Dialer!NoJob /\ r.state = "running"
  /\ \/ Begun(r, {"wait", "clear", "add"})
     \/ Dialer!Creates(j) /\ Begun(r, {"reloadFirewall"})

ChainFits ==
  /\ chain \in Seq(Dialer!Jobs)
  /\ \A i, k \in 1..Len(chain) : chain[i] = chain[k] => i = k
  /\ \A j \in Dialer!Jobs : InFirewall(j, job[j]) <=> \E i \in 1..Len(chain) : chain[i] = j
  /\ \A i \in 1..Len(chain) : i > 1 => Begun(job[chain[i]], {"wait"})

\* A batch that is in the firewall zone for good.
Listed(r) == r # Dialer!NoJob /\ ~r.failed /\ (Left(r) = 0 \/ (Left(r) = 1 /\ r.cmds = <<>>))
Enlisted == {b \in Dialer!Batches : b \in made \/ Listed(job[Creation(b)])}
Adding == chain # <<>> /\ Begun(job[Head(chain)], {"add"})
Members(b) == Dialer!Chunks(recorded[b])

MembersFit ==
  commandFailures = 0 =>
    /\ \A b \in Enlisted :
         /\ Members(b) \subseteq uciState.zone \/ Adding
         /\ \A i \in 1..Len(chain) :
              \/ Dialer!Creates(chain[i]) /\ Begun(job[chain[i]], {"wait"})
              \/ Members(b) \subseteq job[chain[i]].plan
    /\ \A i, k \in 1..Len(chain) :
         i < k /\ Dialer!Creates(chain[i]) /\ ~Dialer!Creates(chain[k])
           => Members(Dialer!Batch(chain[i])) \subseteq job[chain[k]].plan
    /\ \A i \in 1..Len(chain) : Dialer!Creates(chain[i]) =>
         /\ Begun(job[chain[i]], {"clear", "add"})
              => Members(Dialer!Batch(chain[i])) \subseteq job[chain[i]].plan
         /\ Begun(job[chain[i]], {"reloadFirewall"})
              => Members(Dialer!Batch(chain[i])) \subseteq uciState.zone

NotLasting == commandFailures = 0 => ~lasting

PppoeInv ==
  /\ RecordsFit /\ JobsFit /\ OwnersFit /\ RangesFit /\ DeletionsFit /\ OwedFits
  /\ ChainFits /\ MembersFit /\ NotLasting

-----------------------------------------------------------------------------
(***************************************************************************)
(* What a step keeps when one job moves.                                   *)
(***************************************************************************)

\* Job j becomes q.
Moves(j, q) == job' = [job EXCEPT ![j] = q] /\ (q = Dialer!NoJob \/ JobFits(j, q))

\* A record is not the absence of a job.
LEMMA RecordsAreJobs ==
  /\ \A r \in JobRecords : r # Dialer!NoJob /\ r.state # "none"
  /\ Dialer!NoJob.state = "none"
  /\ \A j, r : JobFits(j, r) => r \in JobRecords
BY DEF JobRecords, Dialer!NoJob, JobFits

\* The other jobs stay as they are.
LEMMA JobsKeep ==
  ASSUME RecordsFit, JobsFit, NEW j \in Dialer!Jobs, NEW q, Moves(j, q)
  PROVE  /\ job'[j] = q /\ \A i \in Dialer!Jobs : i # j => job'[i] = job[i]
         /\ job' \in [Dialer!Jobs -> JobRecords \cup {Dialer!NoJob}]
         /\ JobsFit'
<1>1. job \in [Dialer!Jobs -> JobRecords \cup {Dialer!NoJob}]
  BY DEF RecordsFit
<1>2. q \in JobRecords \cup {Dialer!NoJob}
  BY RecordsAreJobs DEF Moves
<1>3. job'[j] = q /\ \A i \in Dialer!Jobs : i # j => job'[i] = job[i]
  BY <1>1 DEF Moves
<1>4. job' \in [Dialer!Jobs -> JobRecords \cup {Dialer!NoJob}]
  BY <1>1, <1>2 DEF Moves
<1>5. JobsFit'
  BY <1>3 DEF JobsFit, Moves
<1>6. QED
  BY <1>3, <1>4, <1>5

\* A job keeps its batch and its range.
LEMMA OwnersKeep ==
  ASSUME RecordsFit, JobsFit, OwnersFit, NEW j \in Dialer!Jobs, NEW q, Moves(j, q),
         recorded' = recorded, made' = made,
         q = Dialer!NoJob \/ (job[j] # Dialer!NoJob /\ q.from = job[j].from)
  PROVE  OwnersFit'
<1>1. job'[j] = q /\ \A i \in Dialer!Jobs : i # j => job'[i] = job[i]
  BY JobsKeep
<1>2. \A i \in Dialer!Jobs : job'[i] # Dialer!NoJob =>
                               job[i] # Dialer!NoJob /\ job'[i].from = job[i].from
  BY <1>1
<1>3. \A b \in Dialer!Batches : Creation(b) \in Dialer!Jobs /\ Deletion(b) \in Dialer!Jobs
  BY JobsAre
<1>4. QED
  BY <1>2, <1>3 DEF OwnersFit

\* The chunks of a range.
LEMMA ChunksAre ==
  ASSUME NEW from \in Nat
  PROVE  /\ \A i \in 0..(BatchSize - 1) : from + i \in Dialer!Chunks(from)
         /\ \A s \in Dialer!Chunks(from) : \E i \in 0..(BatchSize - 1) : s = from + i
         /\ from \in Dialer!Chunks(from)
<1>1. 0 \in 0..(BatchSize - 1) /\ from + 0 = from
  BY DialerAssumption
<1>2. QED
  BY <1>1 DEF Dialer!Chunks

\* Which range a job is about.
LEMMA JobRanges ==
  ASSUME RecordsFit, JobsFit, OwnersFit, NEW j \in Dialer!Jobs, job[j] # Dialer!NoJob
  PROVE  /\ Dialer!Batch(j) \in Dialer!Batches /\ recorded[Dialer!Batch(j)] = job[j].from
         /\ job[j].from \in Dialer!Seqs /\ job[j].from # 0 /\ job[j].from \in Nat
         /\ Dialer!Chunks(job[j].from) \subseteq Dialer!Seqs
         /\ Dialer!Batch(j) \notin made
         /\ Dialer!Creates(j) => job[Deletion(Dialer!Batch(j))] = Dialer!NoJob
         /\ ~Dialer!Creates(j) => job[Creation(Dialer!Batch(j))] = Dialer!NoJob
<1>1. JobFits(j, job[j])
  BY DEF JobsFit
<1>2. job[j].from \in Dialer!Seqs /\ Dialer!Chunks(job[j].from) \subseteq Dialer!Seqs
  BY <1>1 DEF JobFits, JobRecords
<1>3. \A s \in Dialer!Seqs : s # 0 /\ s \in Nat
  BY DialerAssumption DEF Dialer!Seqs
<1>4. /\ Dialer!Batch(j) \in Dialer!Batches
      /\ j \in {Creation(Dialer!Batch(j)), Deletion(Dialer!Batch(j))}
      /\ IF Dialer!Creates(j) THEN j = Creation(Dialer!Batch(j))
         ELSE j = Deletion(Dialer!Batch(j))
  BY JobsAre
<1>5. QED
  BY <1>2, <1>3, <1>4 DEF OwnersFit

Routers ==
  [uci : [Dialer!Seqs -> Dialer!Batches \cup {Dialer!None, Dialer!Other}],
   live : SUBSET Dialer!Seqs, zone : SUBSET Dialer!Seqs,
   liveZone : SUBSET Dialer!Seqs, vlan : BOOLEAN]

\* A section goes away, or a creation adds one of its own.
Own(j, s) ==
  \/ uciState'.uci[s] = uciState.uci[s] \/ uciState'.uci[s] = Dialer!None
  \/ /\ Dialer!Creates(j) /\ job[j] # Dialer!NoJob /\ s \in Dialer!Chunks(job[j].from)
     /\ uciState'.uci[s] = Dialer!Batch(j)

\* Nobody, a batch and the operator are told apart.
LEMMA SectionsAre ==
  /\ Dialer!None \notin Dialer!Batches /\ Dialer!Other \notin Dialer!Batches
  /\ Dialer!None # Dialer!Other
BY DialerAssumption DEF Dialer!None, Dialer!Other, Dialer!Batches

\* The ranges stay apart.
LEMMA RangesKeep ==
  ASSUME RecordsFit, JobsFit, OwnersFit, RangesFit, DeletionsFit,
         NEW j \in Dialer!Jobs, NEW q, Moves(j, q),
         recorded' = recorded, seen' = seen, \A s \in Dialer!Seqs : Own(j, s),
         \/ q = Dialer!NoJob \/ q.state = "closing"
         \/ /\ job[j] # Dialer!NoJob /\ job[j].state = "running" /\ q.from = job[j].from
            /\ ~Dialer!Creates(j) => \A i \in 0..(BatchSize - 1) :
                 Through(q, i) => \/ Through(job[j], i)
                                  \/ uciState'.uci[job[j].from + i] = Dialer!None
  PROVE  RangesFit' /\ DeletionsFit'
<1> DEFINE B == Dialer!Batch(j)
<1>1. job'[j] = q /\ \A i \in Dialer!Jobs : i # j => job'[i] = job[i]
  BY JobsKeep
<1>2. job[j] # Dialer!NoJob =>
        /\ B \in Dialer!Batches /\ recorded[B] = job[j].from /\ job[j].from # 0
        /\ Dialer!Chunks(job[j].from) \subseteq Dialer!Seqs
        /\ Dialer!Creates(j) => job[Deletion(B)] = Dialer!NoJob
  BY JobRanges
<1> HIDE DEF B
<1>3. \A s \in Dialer!Seqs :
        \/ uciState'.uci[s] = uciState.uci[s] \/ uciState'.uci[s] = Dialer!None
        \/ /\ Dialer!Creates(j) /\ job[j] # Dialer!NoJob /\ s \in Dialer!Chunks(recorded[B])
           /\ uciState'.uci[s] = B
  BY <1>2 DEF Own, B
<1>4. Dialer!RangesAreApart'
  <2>1. \A a, b \in Dialer!Batches : a # b /\ recorded[a] # 0 /\ recorded[b] # 0
          => Dialer!Chunks(recorded[a]) \cap Dialer!Chunks(recorded[b]) = {}
    BY DEF RangesFit, Dialer!RangesAreApart
  <2>2. ASSUME NEW b \in Dialer!Batches, recorded[b] # 0, NEW s \in Dialer!Chunks(recorded[b])
        PROVE  uciState'.uci[s] \in {Dialer!None, b}
    <3>1. s \in Dialer!Seqs /\ uciState.uci[s] \in {Dialer!None, b}
      BY <2>2 DEF RangesFit, Dialer!RangesAreApart
    <3>2. CASE /\ Dialer!Creates(j) /\ job[j] # Dialer!NoJob
               /\ s \in Dialer!Chunks(recorded[B]) /\ uciState'.uci[s] = B
      <4>1. B = b
        BY <1>2, <2>1, <2>2, <3>2
      <4>2. QED
        BY <3>2, <4>1
    <3>3. QED
      BY <1>3, <3>1, <3>2
  <2>3. QED
    BY <2>1, <2>2 DEF Dialer!RangesAreApart
<1>5. Dialer!SectionsAreRecorded'
  <2>1. ASSUME NEW s \in Dialer!Seqs, uciState'.uci[s] \in Dialer!Batches
        PROVE  /\ recorded[uciState'.uci[s]] # 0
               /\ s \in Dialer!Chunks(recorded[uciState'.uci[s]])
    <3>1. uciState'.uci[s] # Dialer!None
      BY <2>1, SectionsAre
    <3>2. CASE uciState'.uci[s] = uciState.uci[s]
      BY <2>1, <3>2 DEF RangesFit, Dialer!SectionsAreRecorded
    <3>3. QED
      BY <1>2, <1>3, <3>1, <3>2
  <2>2. QED
    BY <2>1 DEF Dialer!SectionsAreRecorded
<1>6. ASSUME NEW b \in Dialer!Batches, seen[b] # Dialer!NotAsked, NEW s \in Dialer!Seqs,
             uciState'.uci[s] = Dialer!Other
      PROVE  s \in seen[b]
  <2>1. uciState.uci[s] = Dialer!Other
    BY <1>2, <1>3, <1>6, SectionsAre
  <2>2. QED
    BY <1>6, <2>1 DEF RangesFit
<1>7. RangesFit'
  BY <1>4, <1>5, <1>6 DEF RangesFit
<1>8. DeletionsFit'
  <2> SUFFICES ASSUME NEW b \in Dialer!Batches, job'[Deletion(b)] # Dialer!NoJob,
                      job'[Deletion(b)].state = "running", NEW i \in 0..(BatchSize - 1),
                      Through(job'[Deletion(b)], i)
               PROVE  uciState'.uci[job'[Deletion(b)].from + i] = Dialer!None
    BY DEF DeletionsFit
  <2>1. Deletion(b) \in Dialer!Jobs /\ ~Dialer!Creates(Deletion(b))
        /\ Dialer!Batch(Deletion(b)) = b
    BY JobsAre
  <2>2. /\ job[Deletion(b)] # Dialer!NoJob /\ job[Deletion(b)].state = "running"
        /\ job'[Deletion(b)].from = job[Deletion(b)].from
        /\ \/ Through(job[Deletion(b)], i)
           \/ uciState'.uci[job[Deletion(b)].from + i] = Dialer!None
    <3>1. CASE Deletion(b) = j
      BY <1>1, <2>1, <3>1
    <3>2. CASE Deletion(b) # j
      BY <1>1, <2>1, <3>2
    <3>3. QED
      BY <3>1, <3>2
  <2> DEFINE s == job[Deletion(b)].from + i
  <2>3. /\ recorded[b] = job[Deletion(b)].from /\ recorded[b] # 0
        /\ s \in Dialer!Chunks(recorded[b]) /\ s \in Dialer!Seqs
    <3>1. /\ recorded[b] = job[Deletion(b)].from /\ job[Deletion(b)].from # 0
          /\ job[Deletion(b)].from \in Nat
          /\ Dialer!Chunks(job[Deletion(b)].from) \subseteq Dialer!Seqs
      BY <2>1, <2>2, JobRanges
    <3>2. QED
      BY <3>1, ChunksAre
  <2> HIDE DEF s
  <2>4. CASE Through(job[Deletion(b)], i)
    <3>1. uciState.uci[s] = Dialer!None
      BY <2>2, <2>4 DEF DeletionsFit, s
    <3>2. ~ /\ Dialer!Creates(j) /\ job[j] # Dialer!NoJob
            /\ s \in Dialer!Chunks(recorded[B])
      <4>1. CASE b = B
        BY <1>2, <2>2, <4>1
      <4>2. CASE b # B
        BY <1>2, <2>3, <4>2 DEF RangesFit, Dialer!RangesAreApart
      <4>3. QED
        BY <4>1, <4>2
    <3>3. uciState'.uci[s] = Dialer!None
      BY <1>3, <2>3, <3>1, <3>2
    <3>4. QED
      BY <2>2, <3>3 DEF s
  <2>5. QED
    BY <2>2, <2>4
<1>9. QED
  BY <1>7, <1>8

\* What the router has to run is owed by a job, or something has failed for good.
LEMMA OwedKeeps ==
  ASSUME RecordsFit, JobsFit, OwedFits, NEW j \in Dialer!Jobs, NEW q, Moves(j, q),
         lasting => lasting',
         \/ lasting' \/ OwesReload(j, q) \/ uciState'.live = Dialer!Sections'
         \/ /\ uciState'.live = uciState.live /\ Dialer!Sections' = Dialer!Sections
            /\ ~OwesReload(j, job[j]),
         \/ lasting' \/ OwesZone(j, q) \/ uciState'.liveZone = uciState'.zone
         \/ /\ uciState'.liveZone = uciState.liveZone /\ uciState'.zone = uciState.zone
            /\ ~OwesZone(j, job[j])
  PROVE  OwedFits'
<1>1. job'[j] = q /\ \A i \in Dialer!Jobs : i # j => job'[i] = job[i]
  BY JobsKeep
<1>2. ~lasting' => uciState'.live = Dialer!Sections'
                   \/ \E i \in Dialer!Jobs : OwesReload(i, job'[i])
  BY <1>1 DEF OwedFits
<1>3. ~lasting' => uciState'.liveZone = uciState'.zone
                   \/ \E i \in Dialer!Jobs : OwesZone(i, job'[i])
  BY <1>1 DEF OwedFits
<1>4. QED
  BY <1>2, <1>3 DEF OwedFits

-----------------------------------------------------------------------------
(***************************************************************************)
(* The chain of firewall jobs.                                             *)
(***************************************************************************)

\* The holder is the first.
LEMMA HeadIs ==
  ASSUME ChainFits, chain # <<>>
  PROVE  /\ Len(chain) \in Nat /\ 1 \in 1..Len(chain) /\ Head(chain) = chain[1]
         /\ Head(chain) \in Dialer!Jobs
<1>1. chain \in Seq(Dialer!Jobs) /\ Len(chain) \in Nat
  BY DEF ChainFits
<1>2. Len(chain) # 0
  BY <1>1, EmptySeq
<1>3. QED
  BY <1>1, <1>2

\* A job that is about to work on the firewall holds the chain.
LEMMA HoldsIs ==
  ASSUME ChainFits, NEW j \in Dialer!Jobs, job[j] # Dialer!NoJob,
         job[j].cmds # <<>>, Dialer!Upcoming(j) # "wait"
  PROVE  Dialer!Holds(j) <=> InFirewall(j, job[j])
<1>1. ~Begun(job[j], {"wait"})
  BY DEF Begun, Dialer!Upcoming
<1>2. ASSUME Dialer!Holds(j) PROVE InFirewall(j, job[j])
  <2>1. chain # <<>> /\ Head(chain) = j
    BY <1>2 DEF Dialer!Holds
  <2>2. QED
    BY <2>1, HeadIs DEF ChainFits
<1>3. ASSUME InFirewall(j, job[j]) PROVE Dialer!Holds(j)
  <2>1. PICK i \in 1..Len(chain) : chain[i] = j
    BY <1>3 DEF ChainFits
  <2>2. ~(i > 1)
    BY <1>1, <2>1 DEF ChainFits
  <2>3. Len(chain) \in Nat /\ chain # <<>> /\ i = 1
    BY <2>1, <2>2 DEF ChainFits
  <2>4. Head(chain) = j
    BY <2>1, <2>3, HeadIs
  <2>5. QED
    BY <2>3, <2>4 DEF Dialer!Holds
<1>4. QED
  BY <1>2, <1>3

\* A place of the chain belongs to a job in the firewall.
LEMMA PlacesAre ==
  ASSUME ChainFits, NEW i \in 1..Len(chain)
  PROVE  /\ chain[i] \in Dialer!Jobs /\ InFirewall(chain[i], job[chain[i]])
         /\ job[chain[i]] # Dialer!NoJob
<1>1. chain[i] \in Dialer!Jobs
  BY DEF ChainFits
<1>2. InFirewall(chain[i], job[chain[i]])
  BY <1>1 DEF ChainFits
<1>3. QED
  BY <1>1, <1>2 DEF InFirewall

\* A job stays in the firewall, or beside it: only the holder may stop waiting.
LEMMA ChainStays ==
  ASSUME RecordsFit, JobsFit, ChainFits, NEW j \in Dialer!Jobs, NEW q, Moves(j, q),
         chain' = chain, InFirewall(j, q) <=> InFirewall(j, job[j]),
         InFirewall(j, job[j]) /\ Begun(job[j], {"wait"})
           => Begun(q, {"wait"}) \/ (chain # <<>> /\ Head(chain) = j)
  PROVE  ChainFits'
<1>1. job'[j] = q /\ \A i \in Dialer!Jobs : i # j => job'[i] = job[i]
  BY JobsKeep
<1>2. \A i \in Dialer!Jobs : InFirewall(i, job'[i]) <=> InFirewall(i, job[i])
  BY <1>1
<1>3. ASSUME NEW i \in 1..Len(chain), i > 1 PROVE Begun(job'[chain[i]], {"wait"})
  <2>1. chain[i] \in Dialer!Jobs /\ Begun(job[chain[i]], {"wait"})
    BY <1>3 DEF ChainFits
  <2>2. CASE chain[i] = j
    <3>1. ~(chain # <<>> /\ Head(chain) = j)
      BY <1>3, <2>2, HeadIs DEF ChainFits
    <3>2. InFirewall(j, job[j])
      BY <2>2, PlacesAre
    <3>3. QED
      BY <1>1, <2>1, <2>2, <3>1, <3>2
  <2>3. QED
    BY <1>1, <2>1, <2>2
<1>4. QED
  BY <1>2, <1>3 DEF ChainFits

\* A job joins the chain at its end.
LEMMA ChainGrows ==
  ASSUME RecordsFit, JobsFit, ChainFits, NEW j \in Dialer!Jobs, NEW q, Moves(j, q),
         chain' = Append(chain, j), ~InFirewall(j, job[j]), q # Dialer!NoJob,
         q.state = "running", Begun(q, {"wait"})
  PROVE  ChainFits'
<1> DEFINE n == Len(chain)
<1>1. job'[j] = q /\ \A i \in Dialer!Jobs : i # j => job'[i] = job[i]
  BY JobsKeep
<1>2. chain \in Seq(Dialer!Jobs) /\ n \in Nat
  BY DEF ChainFits
<1>3. /\ chain' \in Seq(Dialer!Jobs) /\ Len(chain') = n + 1
      /\ \A i \in 1..n : chain'[i] = chain[i]
      /\ chain'[n + 1] = j
  BY <1>2, AppendProperties
<1>4. \A i \in 1..n : chain[i] \in Dialer!Jobs /\ chain[i] # j
  BY PlacesAre
<1> HIDE DEF n
<1>5. \A i \in 1..(n + 1) : i \in 1..n \/ i = n + 1
  BY <1>2
<1>6. \A i, k \in 1..(n + 1) : chain'[i] = chain'[k] => i = k
  <2>1. \A i, k \in 1..n : chain[i] = chain[k] => i = k
    BY DEF ChainFits, n
  <2>2. QED
    BY <1>3, <1>4, <1>5, <2>1
<1>7. InFirewall(j, q)
  BY DEF InFirewall, Begun
<1>8. \A i \in Dialer!Jobs :
        InFirewall(i, job'[i]) <=> \E k \in 1..(n + 1) : chain'[k] = i
  <2>1. \A i \in Dialer!Jobs : InFirewall(i, job[i]) <=> \E k \in 1..n : chain[k] = i
    BY DEF ChainFits, n
  <2>2. n + 1 \in 1..(n + 1) /\ \A k \in 1..n : k \in 1..(n + 1)
    BY <1>2
  <2>3. QED
    BY <1>1, <1>3, <1>4, <1>5, <1>7, <2>1, <2>2
<1>9. \A i \in 1..(n + 1) : i > 1 => Begun(job'[chain'[i]], {"wait"})
  <2>1. \A i \in 1..n : i > 1 => Begun(job[chain[i]], {"wait"})
    BY DEF ChainFits, n
  <2>2. QED
    BY <1>1, <1>3, <1>4, <1>5, <2>1
<1>10. QED
  BY <1>3, <1>6, <1>8, <1>9 DEF ChainFits

\* Who is left when the holder has gone.
LEMMA TailIs ==
  ASSUME ChainFits, chain # <<>>, chain' = Tail(chain)
  PROVE  /\ chain' \in Seq(Dialer!Jobs) /\ Len(chain) \in Nat /\ Len(chain) > 0
         /\ Len(chain') = Len(chain) - 1
         /\ \A i \in 1..Len(chain') : /\ i + 1 \in 1..Len(chain) /\ i + 1 > 1
                                      /\ chain'[i] = chain[i + 1]
                                      /\ chain[i + 1] # Head(chain)
                                      /\ Begun(job[chain[i + 1]], {"wait"})
<1> DEFINE n == Len(chain)
<1>1. chain \in Seq(Dialer!Jobs) /\ n \in Nat
  BY DEF ChainFits
<1>2. /\ chain' \in Seq(Dialer!Jobs) /\ Len(chain') = n - 1
      /\ \A i \in 1..(n - 1) : chain'[i] = chain[i + 1]
  BY <1>1, HeadTailProperties
<1>3. n > 0 /\ Head(chain) = chain[1] /\ 1 \in 1..n
  BY <1>1, HeadIs
<1> HIDE DEF n
<1>4. \A i \in 1..(n - 1) : i + 1 \in 1..n /\ i + 1 > 1 /\ i + 1 # 1
  BY <1>1
<1>5. \A i, k \in 1..n : chain[i] = chain[k] => i = k
  BY DEF ChainFits, n
<1>6. \A i \in 1..n : i > 1 => Begun(job[chain[i]], {"wait"})
  BY DEF ChainFits, n
<1>7. \A i \in 1..(n - 1) : chain[i + 1] # Head(chain) /\ Begun(job[chain[i + 1]], {"wait"})
  BY <1>3, <1>4, <1>5, <1>6
<1>8. QED
  BY <1>1, <1>2, <1>3, <1>4, <1>7 DEF n

\* The holder leaves the chain to the next one.
LEMMA ChainShrinks ==
  ASSUME RecordsFit, JobsFit, ChainFits, NEW j \in Dialer!Jobs, NEW q, Moves(j, q),
         chain' = Tail(chain), chain # <<>>, Head(chain) = j, ~InFirewall(j, q)
  PROVE  ChainFits'
<1> DEFINE n == Len(chain)
<1>1. job'[j] = q /\ \A i \in Dialer!Jobs : i # j => job'[i] = job[i]
  BY JobsKeep
<1>2. /\ chain' \in Seq(Dialer!Jobs) /\ n \in Nat /\ n > 0 /\ Len(chain') = n - 1
      /\ \A i \in 1..(n - 1) : /\ i + 1 \in 1..n /\ chain'[i] = chain[i + 1]
                               /\ chain[i + 1] # j /\ chain[i + 1] \in Dialer!Jobs
                               /\ Begun(job[chain[i + 1]], {"wait"})
  BY TailIs, PlacesAre
<1>3. /\ \A i, k \in 1..n : chain[i] = chain[k] => i = k
      /\ \A i \in Dialer!Jobs : InFirewall(i, job[i]) <=> \E k \in 1..n : chain[k] = i
      /\ chain[1] = j
  BY HeadIs DEF ChainFits
<1> HIDE DEF n
<1>4. \A i, k \in 1..(n - 1) : chain'[i] = chain'[k] => i = k
  <2>1. ASSUME NEW i \in 1..(n - 1), NEW k \in 1..(n - 1), chain'[i] = chain'[k] PROVE i = k
    <3>1. i + 1 = k + 1
      BY <1>2, <1>3, <2>1
    <3>2. QED
      BY <1>2, <3>1
  <2>2. QED
    BY <2>1
<1>5. ASSUME NEW i \in Dialer!Jobs
      PROVE  InFirewall(i, job'[i]) <=> \E k \in 1..(n - 1) : chain'[k] = i
  <2>1. CASE i = j
    BY <1>1, <1>2, <2>1
  <2>2. CASE i # j
    <3>1. ASSUME NEW k \in 1..n, chain[k] = i PROVE \E m \in 1..(n - 1) : chain'[m] = i
      <4>1. k # 1
        BY <1>3, <2>2, <3>1
      <4>2. k - 1 \in 1..(n - 1) /\ (k - 1) + 1 = k
        BY <1>2, <4>1
      <4>3. chain'[k - 1] = i
        BY <1>2, <3>1, <4>2
      <4>4. QED
        BY <4>2, <4>3
    <3>2. QED
      BY <1>1, <1>2, <1>3, <2>2, <3>1
  <2>3. QED
    BY <2>1, <2>2
<1>6. \A i \in 1..(n - 1) : Begun(job'[chain'[i]], {"wait"})
  BY <1>1, <1>2
<1>7. QED
  BY <1>2, <1>4, <1>5, <1>6 DEF ChainFits

-----------------------------------------------------------------------------
(***************************************************************************)
(* The members of the firewall zone.                                       *)
(***************************************************************************)

\* A batch that is listed, or whose creation is in the chain, is recorded and has no
\* deletion.
LEMMA EnlistedAre ==
  ASSUME RecordsFit, JobsFit, OwnersFit, NEW b \in Dialer!Batches,
         b \in Enlisted \/ job[Creation(b)] # Dialer!NoJob
  PROVE  /\ recorded[b] # 0 /\ recorded[b] \in Nat
         /\ b \notin made => job[Deletion(b)] = Dialer!NoJob
         /\ job[Deletion(b)] = Dialer!NoJob
<1>1. /\ Creation(b) \in Dialer!Jobs /\ Dialer!Creates(Creation(b))
      /\ Dialer!Batch(Creation(b)) = b
      /\ Deletion(b) \in Dialer!Jobs
  BY JobsAre
<1>2. b \in made \/ job[Creation(b)] # Dialer!NoJob
  BY DEF Enlisted, Listed
<1>3. recorded[b] # 0
  BY <1>1, <1>2, JobRanges DEF OwnersFit
<1>4. recorded[b] \in Nat
  BY DialerAssumption DEF RecordsFit
<1>5. job[Deletion(b)] = Dialer!NoJob
  BY <1>2 DEF OwnersFit
<1>6. QED
  BY <1>3, <1>4, <1>5

\* What two batches have are different chunks.
LEMMA MembersAreApart ==
  ASSUME RangesFit, NEW a \in Dialer!Batches, NEW b \in Dialer!Batches, a # b,
         recorded[a] # 0, recorded[b] # 0
  PROVE  Members(a) \cap Members(b) = {}
BY DEF RangesFit, Dialer!RangesAreApart, Members

\* What buildFirewallPlan() finds of a batch.
LEMMA PlansAre ==
  ASSUME NEW T \in SUBSET Dialer!Batches, NEW b \in T, recorded[b] # 0
  PROVE  Members(b) \subseteq Dialer!Members(T)
BY DEF Members, Dialer!Members

\* A step beside the chain.
LEMMA MembersKeep ==
  ASSUME RecordsFit, ChainFits, MembersFit, commandFailures' = commandFailures,
         chain' = chain,
         \A i \in 1..Len(chain) : /\ job'[chain[i]].cmds = job[chain[i]].cmds
                                  /\ job'[chain[i]].plan = job[chain[i]].plan,
         Enlisted' \subseteq Enlisted,
         \A b \in Dialer!Batches : b \in Enlisted \/ job[Creation(b)] # Dialer!NoJob =>
           recorded'[b] = recorded[b] /\ Members(b) \cap uciState.zone \subseteq uciState'.zone
  PROVE  MembersFit'
<1> SUFFICES ASSUME commandFailures = 0 PROVE MembersFit'
  BY DEF MembersFit
<1>1. \A i \in 1..Len(chain) : \A verbs :
        Begun(job'[chain[i]], verbs) <=> Begun(job[chain[i]], verbs)
  BY DEF Begun
<1>2. \A b \in Enlisted : b \in Dialer!Batches
  BY DEF Enlisted
<1>3. Adding => Adding'
  BY <1>1, HeadIs DEF Adding
<1>4. \A b \in Enlisted : /\ Members(b)' = Members(b)
                          /\ Members(b) \subseteq uciState.zone
                               => Members(b) \subseteq uciState'.zone
  BY <1>2 DEF Members
<1>5. ASSUME NEW i \in 1..Len(chain), Dialer!Creates(chain[i])
      PROVE  LET b == Dialer!Batch(chain[i]) IN
             /\ Members(b)' = Members(b)
             /\ Members(b) \subseteq uciState.zone => Members(b) \subseteq uciState'.zone
  <2>1. chain[i] \in Dialer!Jobs /\ job[chain[i]] # Dialer!NoJob
    BY PlacesAre
  <2>2. Dialer!Batch(chain[i]) \in Dialer!Batches /\ chain[i] = Creation(Dialer!Batch(chain[i]))
    BY <1>5, <2>1, JobsAre
  <2>3. QED
    BY <2>1, <2>2 DEF Members
<1>6. \A b \in Enlisted' :
        /\ Members(b)' \subseteq uciState'.zone \/ Adding'
        /\ \A i \in 1..Len(chain) :
             \/ Dialer!Creates(chain[i]) /\ Begun(job'[chain[i]], {"wait"})
             \/ Members(b)' \subseteq job'[chain[i]].plan
  <2>1. ASSUME NEW b \in Enlisted'
        PROVE  /\ Members(b)' \subseteq uciState'.zone \/ Adding'
               /\ \A i \in 1..Len(chain) :
                    \/ Dialer!Creates(chain[i]) /\ Begun(job'[chain[i]], {"wait"})
                    \/ Members(b)' \subseteq job'[chain[i]].plan
    <3>1. /\ b \in Enlisted /\ Members(b)' = Members(b)
          /\ Members(b) \subseteq uciState.zone => Members(b) \subseteq uciState'.zone
      BY <1>4
    <3>2. /\ Members(b) \subseteq uciState.zone \/ Adding
          /\ \A i \in 1..Len(chain) :
               \/ Dialer!Creates(chain[i]) /\ Begun(job[chain[i]], {"wait"})
               \/ Members(b) \subseteq job[chain[i]].plan
      BY <3>1 DEF MembersFit
    <3>3. QED
      BY <1>1, <1>3, <3>1, <3>2
  <2>2. QED
    BY <2>1
<1>7. \A i, k \in 1..Len(chain) :
        i < k /\ Dialer!Creates(chain[i]) /\ ~Dialer!Creates(chain[k])
          => Members(Dialer!Batch(chain[i]))' \subseteq job'[chain[k]].plan
  BY <1>5 DEF MembersFit
<1>8. \A i \in 1..Len(chain) : Dialer!Creates(chain[i]) =>
        /\ Begun(job'[chain[i]], {"clear", "add"})
             => Members(Dialer!Batch(chain[i]))' \subseteq job'[chain[i]].plan
        /\ Begun(job'[chain[i]], {"reloadFirewall"})
             => Members(Dialer!Batch(chain[i]))' \subseteq uciState'.zone
  BY <1>1, <1>5 DEF MembersFit
<1>9. QED
  BY <1>6, <1>7, <1>8 DEF MembersFit

\* A command fails: nothing is said from then on.
LEMMA MembersFailed ==
  ASSUME RecordsFit, commandFailures' = commandFailures + 1
  PROVE  MembersFit'
<1>1. commandFailures' # 0
  BY DEF RecordsFit
<1>2. QED
  BY <1>1 DEF MembersFit

\* A job joins the chain.
LEMMA MembersJoin ==
  ASSUME RecordsFit, JobsFit, OwnersFit, ChainFits, MembersFit,
         NEW j \in Dialer!Jobs, NEW q, Moves(j, q), job[j] # Dialer!NoJob,
         chain' = Append(chain, j), ~InFirewall(j, job[j]), Begun(q, {"wait"}),
         commandFailures' = commandFailures, recorded' = recorded, made' = made,
         uciState'.zone = uciState.zone,
         Enlisted' \subseteq Enlisted,
         ~Dialer!Creates(j) => q.plan = Dialer!Members(Dialer!Batches \ {Dialer!Batch(j)})
  PROVE  MembersFit'
<1> SUFFICES ASSUME commandFailures = 0 PROVE MembersFit'
  BY DEF MembersFit
<1> DEFINE n == Len(chain)
<1>1. job'[j] = q /\ \A i \in Dialer!Jobs : i # j => job'[i] = job[i]
  BY JobsKeep
<1>2. chain \in Seq(Dialer!Jobs) /\ n \in Nat
  BY DEF ChainFits
<1>3. /\ Len(chain') = n + 1 /\ chain' \in Seq(Dialer!Jobs)
      /\ \A i \in 1..n : chain'[i] = chain[i]
      /\ chain'[n + 1] = j
  BY <1>2, AppendProperties
<1>4. \A i \in 1..n : /\ chain[i] \in Dialer!Jobs /\ chain[i] # j
                      /\ job'[chain[i]] = job[chain[i]] /\ job[chain[i]] # Dialer!NoJob
  BY <1>1, PlacesAre
<1>5. Adding => Adding'
  <2>1. ASSUME Adding PROVE Adding'
    <3>1. chain # <<>> /\ 1 \in 1..n /\ Head(chain) = chain[1] /\ Begun(job[chain[1]], {"add"})
      BY <2>1, HeadIs DEF Adding
    <3>2. chain' # <<>> /\ Head(chain') = chain'[1]
      BY <1>2, <1>3, EmptySeq
    <3>3. QED
      BY <1>3, <1>4, <3>1, <3>2 DEF Adding
  <2>2. QED
    BY <2>1
<1> HIDE DEF n
<1>6. \A i \in 1..(n + 1) : i \in 1..n \/ i = n + 1
  BY <1>2
<1>7. \A b \in Dialer!Batches : Members(b)' = Members(b)
  BY DEF Members
<1>8. ASSUME ~Dialer!Creates(j), NEW b \in Dialer!Batches,
             b \in Enlisted \/ job[Creation(b)] # Dialer!NoJob
      PROVE  Members(b) \subseteq q.plan
  <2>1. Dialer!Batch(j) \in Dialer!Batches /\ j = Deletion(Dialer!Batch(j))
    BY <1>8, JobsAre
  <2>2. recorded[b] # 0 /\ b # Dialer!Batch(j)
    BY <1>8, <2>1, EnlistedAre
  <2>3. QED
    BY <1>8, <2>2, PlansAre
<1>9. \A b \in Enlisted : b \in Dialer!Batches
  BY DEF Enlisted
<1>10. ASSUME NEW i \in 1..n, Dialer!Creates(chain[i])
       PROVE  Dialer!Batch(chain[i]) \in Dialer!Batches
              /\ job[Creation(Dialer!Batch(chain[i]))] # Dialer!NoJob
  BY <1>4, <1>10, JobsAre
<1>11. ~Begun(q, {"clear", "add"}) /\ ~Begun(q, {"reloadFirewall"})
  BY DEF Begun
<1>12. \A b \in Enlisted' :
         /\ Members(b)' \subseteq uciState'.zone \/ Adding'
         /\ \A i \in 1..(n + 1) :
              \/ Dialer!Creates(chain'[i]) /\ Begun(job'[chain'[i]], {"wait"})
              \/ Members(b)' \subseteq job'[chain'[i]].plan
  <2>1. ASSUME NEW b \in Enlisted', NEW i \in 1..(n + 1)
        PROVE  \/ Dialer!Creates(chain'[i]) /\ Begun(job'[chain'[i]], {"wait"})
               \/ Members(b)' \subseteq job'[chain'[i]].plan
    <3>1. CASE i \in 1..n
      BY <1>3, <1>4, <1>7, <1>9, <3>1 DEF MembersFit, n
    <3>2. CASE i = n + 1
      BY <1>1, <1>3, <1>7, <1>8, <1>9, <3>2
    <3>3. QED
      BY <1>6, <3>1, <3>2
  <2>2. \A b \in Enlisted' : Members(b)' \subseteq uciState'.zone \/ Adding'
    BY <1>5, <1>7, <1>9 DEF MembersFit
  <2>3. QED
    BY <2>1, <2>2
<1>13. ASSUME NEW i \in 1..(n + 1), NEW k \in 1..(n + 1), i < k, Dialer!Creates(chain'[i]),
              ~Dialer!Creates(chain'[k])
       PROVE  Members(Dialer!Batch(chain'[i])) \subseteq job'[chain'[k]].plan
  <2>1. i \in 1..n
    BY <1>2, <1>13
  <2>2. CASE k \in 1..n
    BY <1>3, <1>4, <1>7, <1>10, <1>13, <2>1, <2>2 DEF MembersFit, n
  <2>3. CASE k = n + 1
    BY <1>1, <1>3, <1>7, <1>8, <1>10, <1>13, <2>1, <2>3
  <2>4. QED
    BY <1>6, <2>2, <2>3
<1>14. ASSUME NEW i \in 1..(n + 1), Dialer!Creates(chain'[i])
       PROVE  /\ Begun(job'[chain'[i]], {"clear", "add"})
                   => Members(Dialer!Batch(chain'[i])) \subseteq job'[chain'[i]].plan
              /\ Begun(job'[chain'[i]], {"reloadFirewall"})
                   => Members(Dialer!Batch(chain'[i])) \subseteq uciState'.zone
  <2>1. CASE i \in 1..n
    BY <1>3, <1>4, <1>7, <1>10, <1>14, <2>1 DEF MembersFit, n
  <2>2. CASE i = n + 1
    BY <1>1, <1>3, <1>11, <2>2
  <2>3. QED
    BY <1>6, <2>1, <2>2
<1>15. QED
  BY <1>3, <1>12, <1>13, <1>14 DEF MembersFit, Members

\* The holder works on the zone.
LEMMA MembersTurn ==
  ASSUME RecordsFit, JobsFit, ChainFits, MembersFit,
         NEW j \in Dialer!Jobs, NEW q, Moves(j, q),
         chain' = chain, chain # <<>>, Head(chain) = j,
         commandFailures' = commandFailures, recorded' = recorded, made' = made,
         Enlisted' \subseteq Enlisted,
         commandFailures = 0 =>
           /\ \A b \in Enlisted : /\ Members(b) \subseteq uciState'.zone \/ Begun(q, {"add"})
                                  /\ Members(b) \subseteq q.plan
           /\ ~Dialer!Creates(j) => q.plan = job[j].plan
           /\ Dialer!Creates(j) =>
                /\ Begun(q, {"clear", "add"}) => Members(Dialer!Batch(j)) \subseteq q.plan
                /\ Begun(q, {"reloadFirewall"})
                     => Members(Dialer!Batch(j)) \subseteq uciState'.zone
  PROVE  MembersFit'
<1> SUFFICES ASSUME commandFailures = 0 PROVE MembersFit'
  BY DEF MembersFit
<1> DEFINE n == Len(chain)
<1>1. job'[j] = q /\ \A i \in Dialer!Jobs : i # j => job'[i] = job[i]
  BY JobsKeep
<1>2. n \in Nat /\ 1 \in 1..n /\ chain[1] = j
  BY HeadIs
<1>3. \A i \in 1..n : i # 1 => /\ chain[i] \in Dialer!Jobs /\ chain[i] # j
                               /\ job'[chain[i]] = job[chain[i]]
                               /\ Begun(job[chain[i]], {"wait"})
  <2>1. \A i \in 1..n : i # 1 => i > 1
    BY <1>2
  <2>2. QED
    BY <1>1, <1>2, <2>1, PlacesAre DEF ChainFits
<1>4. \A b : Members(b)' = Members(b)
  BY DEF Members
<1>5. Begun(q, {"add"}) => Adding'
  BY <1>1 DEF Adding
<1>6. \A r : Begun(r, {"wait"}) => ~Begun(r, {"clear", "add"}) /\ ~Begun(r, {"reloadFirewall"})
  BY DEF Begun
<1> HIDE DEF n
<1>7. ASSUME NEW b \in Enlisted'
      PROVE  /\ Members(b)' \subseteq uciState'.zone \/ Adding'
             /\ \A i \in 1..n :
                  \/ Dialer!Creates(chain[i]) /\ Begun(job'[chain[i]], {"wait"})
                  \/ Members(b)' \subseteq job'[chain[i]].plan
  <2>1. Members(b)' \subseteq uciState'.zone \/ Adding'
    BY <1>4, <1>5
  <2>2. ASSUME NEW i \in 1..n
        PROVE  \/ Dialer!Creates(chain[i]) /\ Begun(job'[chain[i]], {"wait"})
               \/ Members(b)' \subseteq job'[chain[i]].plan
    <3>1. CASE i = 1
      BY <1>1, <1>2, <1>4, <3>1
    <3>2. CASE i # 1
      BY <1>3, <1>4, <3>2 DEF MembersFit, n
    <3>3. QED
      BY <3>1, <3>2
  <2>3. QED
    BY <2>1, <2>2
<1>8. ASSUME NEW i \in 1..n, NEW k \in 1..n, i < k, Dialer!Creates(chain[i]),
             ~Dialer!Creates(chain[k])
      PROVE  Members(Dialer!Batch(chain[i]))' \subseteq job'[chain[k]].plan
  <2>1. k # 1
    BY <1>2, <1>8
  <2>2. QED
    BY <1>3, <1>4, <1>8, <2>1 DEF MembersFit, n
<1>9. ASSUME NEW i \in 1..n, Dialer!Creates(chain[i])
      PROVE  /\ Begun(job'[chain[i]], {"clear", "add"})
                  => Members(Dialer!Batch(chain[i]))' \subseteq job'[chain[i]].plan
             /\ Begun(job'[chain[i]], {"reloadFirewall"})
                  => Members(Dialer!Batch(chain[i]))' \subseteq uciState'.zone
  <2>1. CASE i = 1
    BY <1>1, <1>2, <1>4, <1>9, <2>1
  <2>2. CASE i # 1
    BY <1>3, <1>6, <2>2
  <2>3. QED
    BY <2>1, <2>2
<1>10. QED
  BY <1>7, <1>8, <1>9 DEF MembersFit, n

\* The holder leaves the chain.
LEMMA MembersLeave ==
  ASSUME RecordsFit, JobsFit, ChainFits, MembersFit,
         NEW j \in Dialer!Jobs, NEW q, Moves(j, q),
         chain' = Tail(chain), chain # <<>>, Head(chain) = j,
         commandFailures' = commandFailures, recorded' = recorded, made' = made,
         commandFailures = 0 => \A b \in Enlisted' :
           /\ Members(b) \subseteq uciState'.zone
           /\ \A i \in 1..Len(chain) :
                i > 1 /\ ~Dialer!Creates(chain[i]) => Members(b) \subseteq job[chain[i]].plan
  PROVE  MembersFit'
<1> SUFFICES ASSUME commandFailures = 0 PROVE MembersFit'
  BY DEF MembersFit
<1> DEFINE n == Len(chain)
<1>1. job'[j] = q /\ \A i \in Dialer!Jobs : i # j => job'[i] = job[i]
  BY JobsKeep
<1>2. /\ n \in Nat /\ n > 0 /\ Len(chain') = n - 1
      /\ \A i \in 1..(n - 1) : /\ i + 1 \in 1..n /\ i + 1 > 1 /\ chain'[i] = chain[i + 1]
                               /\ job'[chain[i + 1]] = job[chain[i + 1]]
                               /\ Begun(job[chain[i + 1]], {"wait"})
  BY <1>1, TailIs, PlacesAre
<1>3. \A b : Members(b)' = Members(b)
  BY DEF Members
<1>4. \A r : Begun(r, {"wait"}) => ~Begun(r, {"clear", "add"}) /\ ~Begun(r, {"reloadFirewall"})
  BY DEF Begun
<1> HIDE DEF n
<1>5. ASSUME NEW b \in Enlisted'
      PROVE  /\ Members(b)' \subseteq uciState'.zone \/ Adding'
             /\ \A i \in 1..(n - 1) :
                  \/ Dialer!Creates(chain'[i]) /\ Begun(job'[chain'[i]], {"wait"})
                  \/ Members(b)' \subseteq job'[chain'[i]].plan
  BY <1>2, <1>3 DEF n
<1>6. ASSUME NEW i \in 1..(n - 1), NEW k \in 1..(n - 1), i < k, Dialer!Creates(chain'[i]),
             ~Dialer!Creates(chain'[k])
      PROVE  Members(Dialer!Batch(chain'[i])) \subseteq job'[chain'[k]].plan
  <2>1. i + 1 < k + 1
    BY <1>2, <1>6
  <2>2. QED
    BY <1>2, <1>3, <1>6, <2>1 DEF MembersFit, n
<1>7. \A i \in 1..(n - 1) :
        ~Begun(job'[chain'[i]], {"clear", "add"}) /\ ~Begun(job'[chain'[i]], {"reloadFirewall"})
  BY <1>2, <1>4
<1>8. QED
  BY <1>2, <1>5, <1>6, <1>7 DEF MembersFit, Members

-----------------------------------------------------------------------------
(***************************************************************************)
(* The commands of one job.                                                *)
(***************************************************************************)

\* The fields of a record.
LEMMA FieldsAre ==
  ASSUME NEW r \in JobRecords
  PROVE  /\ r.state \in {"running", "closing"} /\ r.items \in Seq(Seq(Commands))
         /\ r.cmds \in Seq(Commands) /\ r.plan \in SUBSET Dialer!Seqs /\ r.failed \in BOOLEAN
         /\ r.cancelled \in BOOLEAN /\ r.mutated \in BOOLEAN /\ r.reloaded \in BOOLEAN
         /\ r.from \in Dialer!Seqs
BY DEF JobRecords

\* What holds of every job.
LEMMA FittingIs ==
  ASSUME NEW j, NEW r, JobFits(j, r)
  PROVE  /\ r \in JobRecords /\ r # Dialer!NoJob
         /\ Dialer!Chunks(r.from) \subseteq Dialer!Seqs
         /\ r.from \in Dialer!Seqs /\ r.from \in Nat /\ BatchSize \in Nat \ {0}
         /\ Left(r) \in Nat /\ Left(r) <= BatchSize + 2
         /\ r.items = Remaining(j, r.from, Left(r)) /\ r.items \in Seq(Seq(Commands))
         /\ r.failed \in BOOLEAN /\ r.mutated \in BOOLEAN /\ r.reloaded \in BOOLEAN
<1>1. /\ r \in JobRecords /\ Dialer!Chunks(r.from) \subseteq Dialer!Seqs
      /\ Left(r) <= BatchSize + 2 /\ r.items = Remaining(j, r.from, Left(r))
  BY DEF JobFits
<1>2. /\ r.from \in Dialer!Seqs /\ r.items \in Seq(Seq(Commands))
      /\ r.failed \in BOOLEAN /\ r.mutated \in BOOLEAN /\ r.reloaded \in BOOLEAN
  BY <1>1, FieldsAre
<1>3. r.from \in Nat
  BY <1>2, DialerAssumption DEF Dialer!Seqs
<1>4. Left(r) \in Nat
  BY <1>2, LenProperties DEF Left
<1>5. r # Dialer!NoJob /\ BatchSize \in Nat \ {0}
  BY <1>1, RecordsAreJobs, DialerAssumption
<1>6. QED
  BY <1>1, <1>2, <1>3, <1>4, <1>5

\* The first command and the others.
LEMMA CmdsAre ==
  ASSUME NEW r \in JobRecords, r.cmds # <<>>
  PROVE  Head(r.cmds) \in Commands /\ Tail(r.cmds) \in Seq(Commands)
<1>1. r.cmds \in Seq(Commands)
  BY FieldsAre
<1>2. QED
  BY <1>1, HeadTailProperties

\* What a deletion with a command to run has noted.
LEMMA NotedSays ==
  ASSUME NEW r, r.state = "running", Noted(r), r.cmds # <<>>,
         r.mutated \in BOOLEAN, r.reloaded \in BOOLEAN
  PROVE  r.reloaded \in {FALSE} /\ (Left(r) < BatchSize => r.mutated = TRUE)
BY DEF Noted

\* What it has to note while it has one.
LEMMA NotedWhen ==
  ASSUME NEW r, r.cmds # <<>>, r.mutated \in BOOLEAN, r.reloaded \in {FALSE},
         Left(r) < BatchSize => r.mutated = TRUE
  PROVE  Noted(r)
BY DEF Noted

\* What is left to show of a job that runs a command.
LEMMA FitsWhen ==
  ASSUME NEW j, NEW q \in JobRecords, Dialer!Chunks(q.from) \subseteq Dialer!Seqs,
         Left(q) <= BatchSize + 2, q.items = Remaining(j, q.from, Left(q)),
         q.cmds # <<>>, q.state = "running", q.failed \in {FALSE},
         IF Dialer!Creates(j) THEN CreateTurn(q, Head(q.cmds), Tail(q.cmds))
         ELSE DeleteTurn(q, Head(q.cmds), Tail(q.cmds)) /\ Noted(q)
  PROVE  JobFits(j, q)
BY DEF JobFits, Turn

\* What becomes of a job whose first command has succeeded.
Advanced(j, r) ==
  IF Tail(r.cmds) = <<>> /\ r.state = "closing" THEN Dialer!NoJob
  ELSE [r EXCEPT !.cmds = Tail(r.cmds),
                 !.mutated = r.mutated \/ Head(r.cmds).do = "delete",
                 !.reloaded = r.reloaded
                   \/ (~Dialer!Creates(j) /\ Head(r.cmds).do = "reloadFirewall")]

CreationDid(r, q) == LET c == Head(r.cmds) IN
  \/ /\ c.do = "set" /\ Left(r) >= 2 /\ Begun(q, {"reload"})
     /\ c.seq \in Dialer!Chunks(r.from)
  \/ c.do = "reload" /\ Left(r) >= 2 /\ q.cmds = <<>>
  \/ c.do = "clear" /\ Left(r) = 1 /\ Begun(q, {"add"})
  \/ c.do = "add" /\ Left(r) = 1 /\ Begun(q, {"reloadFirewall"})
  \/ c.do = "reloadFirewall" /\ Left(r) = 1 /\ q.cmds = <<>>
  \/ c.do = "verify" /\ Left(r) = 0 /\ q.cmds = <<>>

DeletionDid(r, q) == LET c == Head(r.cmds) IN
  \/ c.do = "inspect" /\ Left(r) = BatchSize + 1 /\ q.cmds = <<>> /\ q.mutated = r.mutated
  \/ /\ c.do = "delete" /\ Left(r) \in 1..BatchSize /\ q.cmds = <<>> /\ q.mutated
     /\ c.seq = r.from + BatchSize - Left(r)
  \/ /\ c.do = "clear" /\ Left(r) = 0 /\ q.mutated
     /\ IF r.plan = {} THEN Begun(q, {"reload"}) ELSE Begun(q, {"add"})
  \/ c.do = "add" /\ Left(r) = 0 /\ q.mutated /\ Begun(q, {"reload"})
  \/ c.do = "reload" /\ Left(r) = 0 /\ q.mutated /\ Begun(q, {"reloadFirewall"})
  \/ c.do = "reloadFirewall" /\ Left(r) = 0 /\ q.mutated /\ q.cmds = <<>> /\ q.reloaded

ClosingDid(r, q) == LET c == Head(r.cmds) IN
  \/ c.do = "reload" /\ q # Dialer!NoJob /\ Begun(q, {"reloadFirewall"})
  \/ c.do = "reloadFirewall" /\ q = Dialer!NoJob

\* The commands that come, by name.
LEMMA TurnVerbs ==
  ASSUME NEW j, NEW r, JobFits(j, r), r.cmds # <<>>, NEW c, c = Head(r.cmds)
  PROVE  /\ r.state = "closing" => c.do \in {"reload", "reloadFirewall"} /\ ~Dialer!Creates(j)
         /\ r.state # "closing" => r.state = "running" /\ r.failed \in {FALSE}
         /\ Dialer!Creates(j) => /\ r.state = "running"
                                 /\ CreateTurn(r, c, Tail(r.cmds))
                                 /\ c.do \in {"set", "reload", "wait", "clear", "add",
                                              "reloadFirewall", "verify"}
         /\ ~Dialer!Creates(j) /\ r.state = "running" =>
                /\ DeleteTurn(r, c, Tail(r.cmds)) /\ Noted(r)
                /\ c.do \in {"inspect", "delete", "survey", "dropVlan", "wait", "clear",
                             "add", "reload", "reloadFirewall"}
<1>1. /\ Turn(j, r, c, Tail(r.cmds)) /\ r \in JobRecords
      /\ IF Dialer!Creates(j) THEN r.state = "running" ELSE Noted(r)
  BY DEF JobFits
<1>2. r.state \in {"running", "closing"} /\ r.failed \in BOOLEAN
  BY <1>1, FieldsAre
<1>3. \A v, s : Dialer!Do(v).do = v /\ Dialer!DoAt(v, s).do = v
  BY CommandsAre
<1>4. \A t : ReloadTurn(c, t) => c.do \in {"reload", "reloadFirewall"}
  BY <1>3 DEF ReloadTurn
<1>5. CreateTurn(r, c, Tail(r.cmds)) =>
        c.do \in {"set", "reload", "wait", "clear", "add", "reloadFirewall", "verify"}
  BY <1>3 DEF CreateTurn
<1>6. DeleteTurn(r, c, Tail(r.cmds)) =>
        c.do \in {"inspect", "delete", "survey", "dropVlan", "wait", "clear", "add",
                  "reload", "reloadFirewall"}
  BY <1>3, <1>4 DEF DeleteTurn
<1>7. QED
  BY <1>1, <1>2, <1>4, <1>5, <1>6 DEF Turn

\* What is known of the job afterwards, whatever its state.
AdvancesTo(j, r, q) ==
  /\ q = Dialer!NoJob \/ JobFits(j, q)
  /\ q # Dialer!NoJob => /\ q.state = r.state /\ q.from = r.from /\ q.plan = r.plan
                         /\ q.failed = r.failed /\ q.items = r.items
  /\ Dialer!Creates(j) => /\ r.state = "running" /\ q # Dialer!NoJob
                          /\ CreationDid(r, q)
  /\ ~Dialer!Creates(j) /\ r.state = "running" =>
       /\ q # Dialer!NoJob /\ DeletionDid(r, q) /\ r.reloaded \in {FALSE}
       /\ Head(r.cmds).do # "reloadFirewall" => q.reloaded \in {FALSE}
  /\ r.state = "closing" => ~Dialer!Creates(j) /\ ClosingDid(r, q)
  /\ InFirewall(j, r) =>
       (InFirewall(j, q) <=> ~(Tail(r.cmds) = <<>> \/ Head(Tail(r.cmds)).do = "reload"))
  /\ ~InFirewall(j, r) => ~InFirewall(j, q)

\* A command succeeds that does not lead into the chain.
LEMMA AdvanceIs ==
  ASSUME NEW j \in Dialer!Jobs, NEW r, JobFits(j, r), r.cmds # <<>>,
         Head(r.cmds).do \notin {"wait", "survey", "dropVlan"},
         NEW q, q = Advanced(j, r)
  PROVE  AdvancesTo(j, r, q)
<1> USE DEF AdvancesTo
<1> DEFINE c == Head(r.cmds)
           t == Tail(r.cmds)
           w == [r EXCEPT !.cmds = t, !.mutated = r.mutated \/ c.do = "delete",
                          !.reloaded = r.reloaded
                            \/ (~Dialer!Creates(j) /\ c.do = "reloadFirewall")]
<1>1. /\ r \in JobRecords /\ Dialer!Chunks(r.from) \subseteq Dialer!Seqs
      /\ Left(r) <= BatchSize + 2 /\ r.items = Remaining(j, r.from, Left(r))
      /\ r # Dialer!NoJob /\ Left(r) \in Nat /\ BatchSize \in Nat \ {0}
      /\ r.from \in Nat
  BY FittingIs
<1>2. c \in Commands /\ t \in Seq(Commands)
  BY <1>1, CmdsAre
<1>3. /\ w \in JobRecords /\ w.state = r.state /\ w.from = r.from /\ w.items = r.items
      /\ w.cmds = t /\ w.plan = r.plan /\ w.failed = r.failed
      /\ w.mutated = (r.mutated \/ c.do = "delete")
      /\ w.reloaded = (r.reloaded \/ (~Dialer!Creates(j) /\ c.do = "reloadFirewall"))
  <2> HIDE DEF c, t
  <2>1. w \in JobRecords
    BY <1>1, <1>2 DEF JobRecords
  <2>2. w.state = r.state /\ w.from = r.from /\ w.items = r.items /\ w.cmds = t
    BY <1>1, <1>2 DEF JobRecords
  <2>3. w.plan = r.plan /\ w.failed = r.failed
    BY <1>1, <1>2 DEF JobRecords
  <2>4. w.mutated = (r.mutated \/ c.do = "delete")
    BY <1>1, <1>2 DEF JobRecords
  <2>5. w.reloaded = (r.reloaded \/ (~Dialer!Creates(j) /\ c.do = "reloadFirewall"))
    BY <1>1, <1>2 DEF JobRecords
  <2> HIDE DEF w
  <2>6. QED
    BY <2>1, <2>2, <2>3, <2>4, <2>5
<1>4. q = IF t = <<>> /\ r.state = "closing" THEN Dialer!NoJob ELSE w
  BY DEF Advanced
<1>5. /\ r.state = "closing" => ReloadTurn(c, t) /\ ~Dialer!Creates(j)
      /\ r.state # "closing" => r.state = "running" /\ r.failed \in {FALSE}
      /\ Dialer!Creates(j) => r.state = "running" /\ CreateTurn(r, c, t)
      /\ ~Dialer!Creates(j) /\ r.state = "running" => DeleteTurn(r, c, t) /\ Noted(r)
      /\ c.do \notin {"wait", "survey", "dropVlan"}
  BY TurnVerbs DEF JobFits, Turn
<1>6. Left(w) = Left(r) /\ w # Dialer!NoJob
  BY <1>3, RecordsAreJobs DEF Left
<1> HIDE DEF c, t, w
<1>7. \A v, s : /\ Dialer!Do(v).do = v /\ Dialer!DoAt(v, s).do = v
                /\ Dialer!DoAt(v, s).seq = s
  BY CommandsAre
<1>8. InFirewall(j, r) <=> /\ r.state = "running"
                           /\ \/ c.do \in {"clear", "add"}
                              \/ Dialer!Creates(j) /\ c.do = "reloadFirewall"
  BY <1>1, <1>5 DEF InFirewall, Begun, c
<1>9. CASE Dialer!Creates(j)
  <2>1. q = w /\ r.state = "running" /\ r.failed \in {FALSE}
    BY <1>4, <1>5, <1>9
  <2>2. /\ \/ t # <<>> /\ CreateTurn(w, Head(t), Tail(t))
           \/ t = <<>>
        /\ CreationDid(r, w)
        /\ InFirewall(j, r) =>
              (InFirewall(j, w) <=> ~(t = <<>> \/ Head(t).do = "reload"))
        /\ ~InFirewall(j, r) => ~InFirewall(j, w)
    <3>1. CASE /\ Left(r) >= 2 /\ Left(r) <= BatchSize + 1
               /\ c = Dialer!DoAt("set", r.from + BatchSize + 1 - Left(r))
               /\ t = <<Dialer!Do("reload")>>
      <4>1. t # <<>> /\ Head(t) = Dialer!Do("reload") /\ Tail(t) = <<>>
        BY <3>1, ListsAre
      <4>2. c.do = "set" /\ c.seq = r.from + (BatchSize + 1 - Left(r))
        BY <1>1, <1>7, <3>1
      <4>3. BatchSize + 1 - Left(r) \in 0..(BatchSize - 1)
        BY <1>1, <3>1
      <4>4. c.seq \in Dialer!Chunks(r.from)
        BY <1>1, <4>2, <4>3, ChunksAre
      <4>5. QED
        BY <1>1, <1>3, <1>6, <1>7, <1>8, <3>1, <4>1, <4>2, <4>4
           DEF CreateTurn, CreationDid, InFirewall, Begun, c
    <3>2. CASE Left(r) >= 2 /\ Left(r) <= BatchSize + 1 /\ c = Dialer!Do("reload") /\ t = <<>>
      BY <1>1, <1>3, <1>6, <1>7, <1>8, <3>2 DEF CreationDid, InFirewall, Begun, c
    <3>3. CASE /\ Left(r) = 1 /\ c = Dialer!Do("clear")
               /\ t = <<Dialer!Do("add"), Dialer!Do("reloadFirewall")>>
      <4>1. /\ t # <<>> /\ Head(t) = Dialer!Do("add")
            /\ Tail(t) = <<Dialer!Do("reloadFirewall")>>
        BY <3>3, ListsAre
      <4>2. QED
        BY <1>1, <1>3, <1>6, <1>7, <1>8, <2>1, <3>3, <4>1
           DEF CreateTurn, CreationDid, InFirewall, Begun, c
    <3>4. CASE /\ Left(r) = 1 /\ c = Dialer!Do("add") /\ t = <<Dialer!Do("reloadFirewall")>>
      <4>1. t # <<>> /\ Head(t) = Dialer!Do("reloadFirewall") /\ Tail(t) = <<>>
        BY <3>4, ListsAre
      <4>2. QED
        BY <1>1, <1>3, <1>6, <1>7, <1>8, <1>9, <2>1, <3>4, <4>1
           DEF CreateTurn, CreationDid, InFirewall, Begun, c
    <3>5. CASE Left(r) = 1 /\ c = Dialer!Do("reloadFirewall") /\ t = <<>>
      BY <1>1, <1>3, <1>6, <1>7, <1>8, <3>5 DEF CreationDid, InFirewall, Begun, c
    <3>6. CASE Left(r) = 0 /\ c = Dialer!Do("verify") /\ t = <<>>
      BY <1>1, <1>3, <1>6, <1>7, <1>8, <3>6 DEF CreationDid, InFirewall, Begun, c
    <3>7. c # Dialer!Do("wait")
      BY <1>5, <1>7
    <3>8. QED
      BY <1>5, <1>9, <3>1, <3>2, <3>3, <3>4, <3>5, <3>6, <3>7 DEF CreateTurn
  <2>3. JobFits(j, w)
    BY <1>1, <1>3, <1>6, <1>9, <2>1, <2>2 DEF JobFits, Turn
  <2>4. CreationDid(r, q) /\ JobFits(j, q) /\ q # Dialer!NoJob
    BY <1>6, <2>1, <2>2, <2>3
  <2>5. /\ q.state = r.state /\ q.from = r.from /\ q.plan = r.plan
        /\ q.failed = r.failed /\ q.items = r.items
    BY <1>3, <2>1
  <2>6. /\ InFirewall(j, r) => (InFirewall(j, q) <=> ~(t = <<>> \/ Head(t).do = "reload"))
        /\ ~InFirewall(j, r) => ~InFirewall(j, q)
    BY <2>1, <2>2
  <2>7. QED
    BY <1>5, <1>9, <2>1, <2>4, <2>5, <2>6 DEF t
<1>10. CASE ~Dialer!Creates(j) /\ r.state = "running"
  <2>1. q = w /\ r.failed \in {FALSE} /\ DeleteTurn(r, c, t) /\ Noted(r)
    BY <1>4, <1>5, <1>10
  <2>2. /\ r.reloaded \in {FALSE} /\ r.mutated \in BOOLEAN
        /\ Left(r) < BatchSize => r.mutated = TRUE
        /\ c.do # "reloadFirewall" => w.reloaded \in {FALSE}
        /\ c.do = "reloadFirewall" => w.reloaded = TRUE
        /\ Left(r) < BatchSize \/ c.do = "delete" => w.mutated = TRUE
        /\ w.mutated \in BOOLEAN
    <3>1. r.reloaded \in BOOLEAN /\ r.mutated \in BOOLEAN
      BY <1>1, FieldsAre
    <3>2. r.reloaded \in {FALSE} /\ (Left(r) < BatchSize => r.mutated = TRUE)
      BY <1>10, <2>1, <3>1, NotedSays
    <3>3. /\ c.do # "reloadFirewall" => w.reloaded \in {FALSE}
          /\ c.do = "reloadFirewall" => w.reloaded = TRUE
      BY <1>3, <1>10, <3>2
    <3>4. Left(r) < BatchSize \/ c.do = "delete" => w.mutated = TRUE
      BY <1>3, <3>2
    <3>5. w.mutated \in BOOLEAN
      BY <1>3, FieldsAre
    <3>6. QED
      BY <3>1, <3>2, <3>3, <3>4, <3>5
  <2>3. /\ \/ t # <<>> /\ DeleteTurn(w, Head(t), Tail(t))
           \/ t = <<>>
        /\ DeletionDid(r, w)
        /\ InFirewall(j, r) =>
              (InFirewall(j, w) <=> ~(t = <<>> \/ Head(t).do = "reload"))
        /\ ~InFirewall(j, r) => ~InFirewall(j, w)
        /\ Noted(w)
    <3>1. CASE Left(r) = BatchSize + 1 /\ c = Dialer!Do("inspect") /\ t = <<>>
      <4>1. c.do = "inspect"
        BY <1>7, <3>1
      <4>2. w.cmds = <<>> /\ w.reloaded \in {FALSE} /\ Left(w) = BatchSize + 1
        BY <1>3, <1>6, <2>2, <3>1, <4>1
      <4>3. Noted(w)
        <5>1. ~(Left(w) = 0) /\ ~(Left(w) < BatchSize) /\ ~(Left(w) = BatchSize)
          BY <1>1, <4>2
        <5>2. QED
          BY ONLY <4>2, <5>1 DEF Noted
      <4>4. w.mutated = r.mutated
        BY <1>3, <2>2, <4>1
      <4>5. DeletionDid(r, w)
        BY <3>1, <4>1, <4>2, <4>4 DEF DeletionDid, c
      <4>6. ~InFirewall(j, r) /\ ~InFirewall(j, w)
        BY <1>8, <1>10, <4>1, <4>2 DEF InFirewall, Begun
      <4>7. QED
        BY <3>1, <4>3, <4>5, <4>6
    <3>2. CASE /\ Left(r) >= 1 /\ Left(r) <= BatchSize /\ t = <<>>
               /\ c = Dialer!DoAt("delete", r.from + BatchSize - Left(r))
      <4>1. c.do = "delete" /\ c.seq = r.from + BatchSize - Left(r)
        BY <1>7, <3>2
      <4>2. w.cmds = <<>> /\ w.reloaded \in {FALSE} /\ w.mutated = TRUE
        BY <1>3, <2>2, <3>2, <4>1
      <4>3. Noted(w)
        <5>1. ~(Left(w) = 0)
          BY <1>1, <1>6, <3>2
        <5>2. QED
          BY ONLY <4>2, <5>1 DEF Noted
      <4>4. Left(r) \in 1..BatchSize
        BY <1>1, <3>2
      <4>5. DeletionDid(r, w)
        BY <4>1, <4>2, <4>4 DEF DeletionDid, c
      <4>6. ~InFirewall(j, r) /\ ~InFirewall(j, w)
        BY <1>8, <1>10, <4>1, <4>2 DEF InFirewall, Begun
      <4>7. QED
        BY <3>2, <4>3, <4>5, <4>6
    <3>3. CASE /\ Left(r) = 0
               /\ c = Dialer!Do("add") \/ (c = Dialer!Do("clear") /\ r.plan = {})
               /\ t = <<Dialer!Do("reload"), Dialer!Do("reloadFirewall")>>
      <4>1. /\ t # <<>> /\ Head(t) = Dialer!Do("reload")
            /\ Tail(t) = <<Dialer!Do("reloadFirewall")>>
        BY <3>3, ListsAre
      <4>2. Left(w) = 0 /\ ReloadTurn(Head(t), Tail(t))
        BY <1>6, <3>3, <4>1 DEF ReloadTurn
      <4>3. DeleteTurn(w, Head(t), Tail(t))
        BY <4>2 DEF DeleteTurn
      <4>4. w.mutated = TRUE /\ Noted(w)
        <5>1. Left(r) < BatchSize /\ c.do # "reloadFirewall" /\ w.cmds # <<>>
          BY <1>1, <1>3, <1>7, <3>3, <4>1
        <5>2. QED
          BY <2>2, <5>1, NotedWhen
      <4>5. QED
        BY <1>1, <1>3, <1>6, <1>7, <1>8, <1>10, <3>3, <4>1, <4>3, <4>4
           DEF DeletionDid, InFirewall, Begun, c
    <3>4. CASE /\ Left(r) = 0 /\ c = Dialer!Do("clear") /\ r.plan # {}
               /\ t = <<Dialer!Do("add"), Dialer!Do("reload"), Dialer!Do("reloadFirewall")>>
      <4>1. /\ t # <<>> /\ Head(t) = Dialer!Do("add")
            /\ Tail(t) = <<Dialer!Do("reload"), Dialer!Do("reloadFirewall")>>
        BY <3>4, ListsAre
      <4>2. DeleteTurn(w, Head(t), Tail(t))
        BY <1>6, <3>4, <4>1 DEF DeleteTurn
      <4>3. w.mutated = TRUE /\ Noted(w)
        <5>1. Left(r) < BatchSize /\ c.do # "reloadFirewall" /\ w.cmds # <<>>
          BY <1>1, <1>3, <1>7, <3>4, <4>1
        <5>2. QED
          BY <2>2, <5>1, NotedWhen
      <4>4. QED
        BY <1>1, <1>3, <1>6, <1>7, <1>8, <1>10, <3>4, <4>1, <4>2, <4>3
           DEF DeletionDid, InFirewall, Begun, c
    <3>5. CASE Left(r) = 0 /\ ReloadTurn(c, t)
      <4>1. CASE c = Dialer!Do("reload") /\ t = <<Dialer!Do("reloadFirewall")>>
        <5>1. t # <<>> /\ Head(t) = Dialer!Do("reloadFirewall") /\ Tail(t) = <<>>
          BY <4>1, ListsAre
        <5>2. Left(w) = 0 /\ ReloadTurn(Head(t), Tail(t))
          BY <1>6, <3>5, <5>1 DEF ReloadTurn
        <5>3. DeleteTurn(w, Head(t), Tail(t))
          BY <5>2 DEF DeleteTurn
        <5>4. w.mutated = TRUE /\ Noted(w)
          <6>1. Left(r) < BatchSize /\ c.do # "reloadFirewall" /\ w.cmds # <<>>
            BY <1>1, <1>3, <1>7, <3>5, <4>1, <5>1
          <6>2. QED
            BY <2>2, <6>1, NotedWhen
        <5>5. QED
          BY <1>1, <1>3, <1>6, <1>7, <1>8, <1>10, <3>5, <4>1, <5>1, <5>3, <5>4
             DEF DeletionDid, InFirewall, Begun, c
      <4>2. CASE c = Dialer!Do("reloadFirewall") /\ t = <<>>
        BY <1>1, <1>3, <1>6, <1>7, <1>8, <1>10, <2>2, <3>5, <4>2
           DEF DeletionDid, InFirewall, Begun, c, Noted
      <4>3. QED
        BY <3>5, <4>1, <4>2 DEF ReloadTurn
    <3>6. c \notin {Dialer!Do("wait"), Dialer!Do("survey"), Dialer!Do("dropVlan")}
      BY <1>5, <1>7
    <3>7. QED
      BY <2>1, <3>1, <3>2, <3>3, <3>4, <3>5, <3>6 DEF DeleteTurn
  <2>4. JobFits(j, w)
    BY <1>1, <1>3, <1>6, <1>10, <2>1, <2>3 DEF JobFits, Turn
  <2>5. DeletionDid(r, q) /\ JobFits(j, q) /\ q # Dialer!NoJob
        /\ (c.do # "reloadFirewall" => q.reloaded \in {FALSE})
    BY <1>6, <2>1, <2>2, <2>3, <2>4
  <2>6. /\ q.state = r.state /\ q.from = r.from /\ q.plan = r.plan
        /\ q.failed = r.failed /\ q.items = r.items
    BY <1>3, <2>1
  <2>7. /\ InFirewall(j, r) => (InFirewall(j, q) <=> ~(t = <<>> \/ Head(t).do = "reload"))
        /\ ~InFirewall(j, r) => ~InFirewall(j, q)
    BY <2>1, <2>3
  <2>8. QED
    BY <1>10, <2>2, <2>5, <2>6, <2>7 DEF c, t
<1>11. CASE ~Dialer!Creates(j) /\ r.state = "closing"
  <2>1. ~InFirewall(j, r) /\ ~InFirewall(j, w) /\ ReloadTurn(c, t)
    BY <1>3, <1>5, <1>11 DEF InFirewall
  <2>2. CASE c = Dialer!Do("reload") /\ t = <<Dialer!Do("reloadFirewall")>>
    <3>1. t # <<>> /\ Head(t) = Dialer!Do("reloadFirewall") /\ Tail(t) = <<>>
      BY <2>2, ListsAre
    <3>2. q = w /\ ReloadTurn(Head(t), Tail(t))
      BY <1>4, <3>1 DEF ReloadTurn
    <3>3. JobFits(j, w)
      BY <1>1, <1>3, <1>6, <1>11, <3>1, <3>2 DEF JobFits, Turn, Noted
    <3>4. ClosingDid(r, w)
      BY <1>3, <1>6, <1>7, <2>2, <3>1 DEF ClosingDid, Begun, c
    <3>5. QED
      BY <1>3, <1>11, <2>1, <3>2, <3>3, <3>4
  <2>3. CASE c = Dialer!Do("reloadFirewall") /\ t = <<>>
    <3>1. q = Dialer!NoJob /\ ClosingDid(r, q)
      BY <1>4, <1>7, <1>11, <2>3 DEF ClosingDid, c
    <3>2. QED
      BY <1>11, <2>1, <3>1 DEF InFirewall
  <2>4. QED
    BY <2>1, <2>2, <2>3 DEF ReloadTurn
<1>12. QED
  BY <1>5, <1>9, <1>10, <1>11

\* What becomes of a job whose first command has failed.
Failed(r) ==
  IF r.state = "closing" THEN Dialer!NoJob
  ELSE [r EXCEPT !.cmds = <<>>, !.failed = TRUE,
                 !.mutated = r.mutated \/ Head(r.cmds).do = "delete"]

\* What is known of the job afterwards.
AbortsTo(j, r, q) ==
  /\ q = Dialer!NoJob \/ JobFits(j, q)
  /\ q = Dialer!NoJob <=> r.state = "closing"
  /\ r.state = "closing" => ~Dialer!Creates(j)
  /\ q # Dialer!NoJob => /\ q.state = "running" /\ q.from = r.from /\ q.items = r.items
                         /\ q.cmds = <<>> /\ q.failed = TRUE /\ q.mutated \in BOOLEAN
  /\ ~InFirewall(j, q) /\ ~Listed(q)
  /\ r.state = "running" /\ ~Dialer!Creates(j) =>
       /\ q.reloaded \in {FALSE} /\ r.reloaded \in {FALSE}
       /\ q.mutated \/ (Head(r.cmds).do = "inspect" /\ ~r.mutated)
  /\ r.state = "running" => \A i \in 0..(BatchSize - 1) : Through(q, i) => Through(r, i)

\* It is in the firewall no more, and has made a note of what it has changed.
LEMMA AbortIs ==
  ASSUME NEW j \in Dialer!Jobs, NEW r, JobFits(j, r), r.cmds # <<>>, NEW q, q = Failed(r)
  PROVE  AbortsTo(j, r, q)
<1> USE DEF AbortsTo
<1> DEFINE c == Head(r.cmds)
           w == [r EXCEPT !.cmds = <<>>, !.failed = TRUE,
                          !.mutated = r.mutated \/ c.do = "delete"]
<1>1. /\ r \in JobRecords /\ Dialer!Chunks(r.from) \subseteq Dialer!Seqs
      /\ Left(r) <= BatchSize + 2 /\ r.items = Remaining(j, r.from, Left(r))
      /\ r # Dialer!NoJob /\ Left(r) \in Nat /\ BatchSize \in Nat \ {0}
      /\ r.mutated \in BOOLEAN /\ r.reloaded \in BOOLEAN
  BY FittingIs
<1>2. /\ w \in JobRecords /\ w.state = r.state /\ w.from = r.from /\ w.items = r.items
      /\ w.cmds = <<>> /\ w.plan = r.plan /\ w.failed = TRUE
      /\ w.mutated = (r.mutated \/ c.do = "delete") /\ w.reloaded = r.reloaded
  <2> HIDE DEF c
  <2>1. w \in JobRecords
    <3>1. <<>> \in Seq(Commands) /\ (r.mutated \/ c.do = "delete") \in BOOLEAN
      BY EmptySeq
    <3>2. QED
      BY <1>1, <3>1 DEF JobRecords
  <2>2. /\ w.state = r.state /\ w.from = r.from /\ w.items = r.items /\ w.cmds = <<>>
        /\ w.plan = r.plan /\ w.failed = TRUE /\ w.reloaded = r.reloaded
    BY <1>1 DEF JobRecords
  <2>3. w.mutated = (r.mutated \/ c.do = "delete")
    BY <1>1 DEF JobRecords
  <2> HIDE DEF w
  <2>4. QED
    BY <2>1, <2>2, <2>3
<1>3. q = IF r.state = "closing" THEN Dialer!NoJob ELSE w
  BY DEF Failed
<1>4. /\ r.state = "closing" => ~Dialer!Creates(j)
      /\ r.state # "closing" => r.state = "running"
      /\ Dialer!Creates(j) => r.state = "running"
      /\ ~Dialer!Creates(j) /\ r.state = "running" => DeleteTurn(r, c, Tail(r.cmds)) /\ Noted(r)
  BY TurnVerbs
<1>5. Left(w) = Left(r) /\ w # Dialer!NoJob
  BY <1>2, RecordsAreJobs DEF Left
<1> HIDE DEF c, w
<1>6. \A v, s : Dialer!Do(v).do = v /\ Dialer!DoAt(v, s).do = v
  BY CommandsAre
<1>7. ASSUME ~Dialer!Creates(j), r.state = "running"
      PROVE  /\ r.reloaded \in {FALSE} /\ Noted(w)
             /\ w.mutated \/ (c.do = "inspect" /\ ~r.mutated)
  <2>1. /\ r.reloaded \in {FALSE}
        /\ Left(r) < BatchSize => r.mutated = TRUE
    BY <1>1, <1>4, <1>7, NotedSays
  <2>2. \/ Left(r) = BatchSize + 1 /\ c.do = "inspect"
        \/ Left(r) < BatchSize
        \/ Left(r) = BatchSize /\ c.do = "delete"
    <3>1. DeleteTurn(r, c, Tail(r.cmds))
      BY <1>4, <1>7
    <3>2. QED
      BY <1>1, <1>6, <3>1 DEF DeleteTurn
  <2>3. Noted(w)
    <3>1. Left(w) < BatchSize \/ Left(w) = BatchSize => w.mutated = TRUE
      <4>1. CASE Left(r) = BatchSize + 1
        BY <1>1, <1>5, <4>1
      <4>2. CASE Left(r) < BatchSize
        BY <1>2, <2>1, <4>2
      <4>3. CASE Left(r) = BatchSize /\ c.do = "delete"
        BY <1>2, <4>3
      <4>4. QED
        BY <2>2, <4>1, <4>2, <4>3
    <3>2. w.reloaded \in {FALSE} /\ w.failed = TRUE
      BY <1>2, <2>1
    <3>3. QED
      BY ONLY <3>1, <3>2 DEF Noted
  <2>4. w.mutated \/ (c.do = "inspect" /\ ~r.mutated)
    BY <1>2, <2>1, <2>2
  <2>5. QED
    BY <2>1, <2>3, <2>4
<1>8. r.state = "running" => JobFits(j, w)
  BY <1>1, <1>2, <1>4, <1>5, <1>7 DEF JobFits
<1>9. /\ ~InFirewall(j, w) /\ ~InFirewall(j, Dialer!NoJob)
      /\ ~Listed(w) /\ ~Listed(Dialer!NoJob)
  BY <1>2 DEF InFirewall, Begun, Listed
<1>10. \A i \in 0..(BatchSize - 1) : Through(w, i) => Through(r, i)
  BY <1>2, <1>5 DEF Through
<1>11. CASE r.state = "closing"
  BY <1>3, <1>4, <1>9, <1>11
<1>12. CASE r.state = "running"
  <2>1. q = w /\ q # Dialer!NoJob
    BY <1>3, <1>5, <1>12
  <2>2. w.mutated \in BOOLEAN
    BY <1>2
  <2>3. QED
    BY <1>2, <1>5, <1>7, <1>8, <1>9, <1>10, <1>12, <2>1, <2>2 DEF c
<1>13. QED
  BY <1>4, <1>11, <1>12

\* What becomes of a job that begins its next item.
Began(r) ==
  [r EXCEPT !.items = Tail(r.items),
            !.cmds = IF Head(Head(r.items)).do = "firewall" THEN <<Dialer!Do("wait")>>
                     ELSE Head(r.items)]

\* What is known of the job afterwards, when it has begun an item.
BeginsTo(j, r, q) ==
  /\ JobFits(j, q) /\ q # Dialer!NoJob /\ q.state = "running" /\ r.state = "running"
  /\ q.from = r.from /\ r.mutated = q.mutated /\ r.reloaded = q.reloaded
  /\ IF Head(Head(r.items)).do = "firewall"
     THEN Dialer!Creates(j) /\ Begun(q, {"wait"}) /\ ~Listed(q)
     ELSE ~InFirewall(j, q) /\ (Dialer!Creates(j) /\ Listed(q) => Listed(r))
  /\ ~Dialer!Creates(j) => ~Begun(q, {"reloadFirewall"})
  /\ \A i \in 0..(BatchSize - 1) : Through(q, i) => Through(r, i)

\* It stays as it is otherwise; only the firewall item of a creation leads into the chain.
LEMMA ItemIs ==
  ASSUME NEW j \in Dialer!Jobs, NEW r, JobFits(j, r), r.cmds = <<>>, r.items # <<>>,
         r.failed \in {FALSE}, NEW q, q = Began(r)
  PROVE  BeginsTo(j, r, q)
<1> USE DEF BeginsTo
<1> DEFINE k == Left(r)
           p == BatchSize + 3 - k
           it == Item(j, r.from, p)
<1>1. /\ r \in JobRecords /\ Dialer!Chunks(r.from) \subseteq Dialer!Seqs
      /\ r.from \in Dialer!Seqs /\ r.from \in Nat /\ BatchSize \in Nat \ {0}
      /\ k \in 1..(BatchSize + 2) /\ r.items = Remaining(j, r.from, k)
      /\ r.state = "running" /\ r # Dialer!NoJob
      /\ r.mutated \in BOOLEAN /\ r.reloaded \in BOOLEAN
  <2>1. r.state = "running"
    BY DEF JobFits
  <2>2. k # 0
    BY FittingIs, EmptySeq DEF Left
  <2>3. QED
    BY <2>1, <2>2, FittingIs
<1>2. p \in 1..(BatchSize + 2) /\ k - 1 \in 0..(BatchSize + 2) /\ k \in 0..(BatchSize + 2)
      /\ k \in Nat /\ k > 0
  BY <1>1
<1>3. /\ Head(r.items) = it /\ Tail(r.items) = Remaining(j, r.from, k - 1)
      /\ Tail(r.items) \in Seq(Seq(Commands)) /\ Len(Tail(r.items)) = k - 1
  <2>1. Head(r.items) = it /\ Tail(r.items) = Remaining(j, r.from, k - 1)
    <3>1. /\ Head(Remaining(j, r.from, k)) = it
          /\ Tail(Remaining(j, r.from, k)) = Remaining(j, r.from, k - 1)
      BY <1>1, <1>2, RemainingIs
    <3>2. QED
      BY <1>1, <3>1
  <2>2. /\ Remaining(j, r.from, k - 1) \in Seq(Seq(Commands))
        /\ Len(Remaining(j, r.from, k - 1)) = k - 1
    BY <1>1, <1>2, RemainingIs
  <2>3. QED
    BY <2>1, <2>2
<1>4. it \in Seq(Commands)
  BY <1>1, <1>2, ItemsAre
<1> DEFINE t == IF Head(it).do = "firewall" THEN <<Dialer!Do("wait")>> ELSE it
<1>5. t \in Seq(Commands)
  <2>1. Dialer!Do("wait") \in Commands
    BY CommandsAre DEF Verbs
  <2>2. <<Dialer!Do("wait")>> \in Seq(Commands)
    BY <2>1
  <2>3. QED
    BY <1>4, <2>2
<1> HIDE DEF it, t, p, k
<1>6. /\ q \in JobRecords /\ q.state = r.state /\ q.from = r.from
      /\ q.items = Remaining(j, r.from, k - 1) /\ Left(q) = k - 1
      /\ q.cmds = t /\ q.plan = r.plan /\ q.failed = r.failed
      /\ q.mutated = r.mutated /\ q.reloaded = r.reloaded
  <2> DEFINE u == Tail(r.items)
  <2>1. q = [r EXCEPT !.items = u, !.cmds = t]
    BY <1>3 DEF Began, t
  <2> HIDE DEF u
  <2>2. u \in Seq(Seq(Commands))
    BY <1>3 DEF u
  <2>3. q \in JobRecords
    BY <1>1, <1>5, <2>1, <2>2 DEF JobRecords
  <2>4. /\ q.state = r.state /\ q.from = r.from
        /\ q.items = u /\ q.cmds = t /\ q.plan = r.plan /\ q.failed = r.failed
        /\ q.mutated = r.mutated /\ q.reloaded = r.reloaded
    BY <1>1, <1>5, <2>1, <2>2 DEF JobRecords
  <2>5. QED
    BY <1>3, <2>3, <2>4 DEF u, Left
<1>7. \A v, s : Dialer!Do(v).do = v /\ Dialer!DoAt(v, s).do = v
  BY CommandsAre
<1>8. p = BatchSize + 3 - k /\ q # Dialer!NoJob /\ Left(r) = k
  BY <1>6, RecordsAreJobs DEF p, k
<1>9. \A i \in 0..(BatchSize - 1) : t # <<>> => (Through(q, i) => Through(r, i))
  <2>1. ASSUME NEW i \in 0..(BatchSize - 1), t # <<>>, Through(q, i) PROVE Through(r, i)
    <3>1. i + (k - 1) < BatchSize
      BY <1>6, <2>1 DEF Through
    <3>2. i + k <= BatchSize
      BY <1>1, <1>2, <2>1, <3>1
    <3>3. QED
      BY <1>8, <3>2 DEF Through
  <2>2. QED
    BY <2>1
<1>f. /\ q \in JobRecords /\ Dialer!Chunks(q.from) \subseteq Dialer!Seqs
      /\ Left(q) <= BatchSize + 2 /\ q.items = Remaining(j, q.from, Left(q))
      /\ q.state = "running" /\ q.failed \in {FALSE} /\ q.cmds = t
  <2>1. Left(q) <= BatchSize + 2
    BY <1>1, <1>2, <1>6
  <2>2. q.failed \in {FALSE}
    BY <1>6
  <2>3. /\ q \in JobRecords /\ Dialer!Chunks(q.from) \subseteq Dialer!Seqs
        /\ q.items = Remaining(j, q.from, Left(q)) /\ q.state = "running" /\ q.cmds = t
    BY <1>1, <1>6
  <2>4. QED
    BY <2>1, <2>2, <2>3
<1>10. CASE Dialer!Creates(j)
  <2>1. CASE p <= BatchSize
    <3>1. it = <<Dialer!DoAt("set", r.from + p - 1), Dialer!Do("reload")>>
      BY <1>10, <2>1 DEF it, Item
    <3>2. /\ it # <<>> /\ Head(it) = Dialer!DoAt("set", r.from + p - 1)
          /\ Tail(it) = <<Dialer!Do("reload")>>
      BY <3>1, ListsAre
    <3>3. t = it /\ Head(it).do = "set"
      BY <1>7, <3>2 DEF t
    <3>4. /\ r.from + p - 1 = r.from + BatchSize + 1 - (k - 1)
          /\ k - 1 >= 2 /\ k - 1 <= BatchSize + 1
      BY <1>1, <1>2, <1>8, <2>1
    <3>5. CreateTurn(q, Head(t), Tail(t))
      BY <1>6, <3>2, <3>3, <3>4 DEF CreateTurn
    <3>6. JobFits(j, q)
      BY <1>f, <1>10, <3>2, <3>3, <3>5, FitsWhen
    <3>7. ~InFirewall(j, q) /\ ~Listed(q)
      BY <1>2, <1>6, <3>2, <3>3, <3>4 DEF InFirewall, Begun, Listed
    <3>8. QED
      BY <1>1, <1>3, <1>6, <1>8, <1>9, <1>10, <3>2, <3>3, <3>6, <3>7
  <2>2. CASE p = BatchSize + 1
    <3>1. it = <<Dialer!Do("firewall")>> /\ k = 2
      BY <1>1, <1>2, <1>8, <1>10, <2>2 DEF it, Item
    <3>2. Head(it).do = "firewall" /\ t = <<Dialer!Do("wait")>>
      BY <1>7, <3>1, ListsAre DEF t
    <3>3. t # <<>> /\ Head(t) = Dialer!Do("wait") /\ Tail(t) = <<>>
      BY <3>2, ListsAre
    <3>4. CreateTurn(q, Head(t), Tail(t))
      BY <1>6, <3>1, <3>3 DEF CreateTurn
    <3>5. JobFits(j, q)
      BY <1>f, <1>10, <3>3, <3>4, FitsWhen
    <3>6. Begun(q, {"wait"}) /\ ~Listed(q)
      BY <1>6, <1>7, <3>1, <3>3 DEF Begun, Listed
    <3>7. QED
      BY <1>1, <1>3, <1>6, <1>8, <1>9, <1>10, <3>2, <3>3, <3>5, <3>6
  <2>3. CASE p = BatchSize + 2
    <3>1. it = <<Dialer!Do("verify")>> /\ k = 1
      BY <1>1, <1>2, <1>8, <1>10, <2>3 DEF it, Item
    <3>2. it # <<>> /\ Head(it) = Dialer!Do("verify") /\ Tail(it) = <<>>
      BY <3>1, ListsAre
    <3>3. Head(it).do = "verify" /\ t = it
      BY <1>7, <3>2 DEF t
    <3>4. CreateTurn(q, Head(t), Tail(t))
      BY <1>6, <3>1, <3>2, <3>3 DEF CreateTurn
    <3>5. JobFits(j, q)
      BY <1>f, <1>10, <3>2, <3>3, <3>4, FitsWhen
    <3>6. ~InFirewall(j, q) /\ Listed(r)
      BY <1>1, <1>6, <1>8, <3>1, <3>2, <3>3 DEF InFirewall, Begun, Listed
    <3>7. QED
      BY <1>1, <1>3, <1>6, <1>8, <1>9, <1>10, <3>2, <3>3, <3>5, <3>6
  <2>4. QED
    BY <1>1, <1>2, <2>1, <2>2, <2>3
<1>11. CASE ~Dialer!Creates(j)
  <2>0. r.reloaded \in {FALSE} /\ (k <= BatchSize => r.mutated = TRUE)
    <3>1. Noted(r)
      BY <1>11 DEF JobFits
    <3>2. r.state = "running" /\ r.cmds = <<>> /\ k # 0 /\ Left(r) = k
      BY <1>1, <1>2, <1>8
    <3>3. k <= BatchSize => Left(r) < BatchSize \/ (Left(r) = BatchSize /\ r.cmds = <<>>)
      BY <1>1, <1>2, <3>2
    <3>4. k <= BatchSize => r.mutated
      BY <3>1, <3>2, <3>3 DEF Noted
    <3>5. ~r.reloaded
      BY <3>1, <3>2 DEF Noted
    <3>6. QED
      BY <1>1, <3>4, <3>5
  <2>1. t # <<>> => Noted(q)
    <3>1. Left(q) < BatchSize => q.mutated = TRUE
      BY <1>1, <1>2, <1>6, <2>0
    <3>2. q.mutated \in BOOLEAN /\ q.reloaded \in {FALSE} /\ q.cmds = t
      BY <1>1, <1>6, <2>0
    <3>3. QED
      BY <3>1, <3>2, NotedWhen
  <2>2. CASE p = 1
    <3>1. it = <<Dialer!Do("inspect")>> /\ k = BatchSize + 2
      BY <1>1, <1>2, <1>8, <1>11, <2>2 DEF it, Item
    <3>2. it # <<>> /\ Head(it) = Dialer!Do("inspect") /\ Tail(it) = <<>>
      BY <3>1, ListsAre
    <3>3. Head(it).do = "inspect" /\ t = it
      BY <1>7, <3>2 DEF t
    <3>4. DeleteTurn(q, Head(t), Tail(t))
      BY <1>1, <1>6, <3>1, <3>2, <3>3 DEF DeleteTurn
    <3>5. JobFits(j, q)
      BY <1>f, <1>11, <2>1, <3>2, <3>3, <3>4, FitsWhen
    <3>6. ~InFirewall(j, q) /\ ~Begun(q, {"reloadFirewall"})
      BY <1>6, <1>11, <3>2, <3>3 DEF InFirewall, Begun
    <3>7. QED
      BY <1>1, <1>3, <1>6, <1>8, <1>9, <1>11, <3>2, <3>3, <3>5, <3>6
  <2>3. CASE p # 1 /\ p <= BatchSize + 1
    <3>1. it = <<Dialer!DoAt("delete", r.from + p - 2)>>
      BY <1>11, <2>3 DEF it, Item
    <3>2. /\ it # <<>> /\ Head(it) = Dialer!DoAt("delete", r.from + p - 2)
          /\ Tail(it) = <<>>
      BY <3>1, ListsAre
    <3>3. Head(it).do = "delete" /\ t = it
      BY <1>7, <3>2 DEF t
    <3>4. /\ r.from + p - 2 = r.from + BatchSize - (k - 1)
          /\ k - 1 >= 1 /\ k - 1 <= BatchSize
      BY <1>1, <1>2, <1>8, <2>3
    <3>5. DeleteTurn(q, Head(t), Tail(t))
      BY <1>6, <3>2, <3>3, <3>4 DEF DeleteTurn
    <3>6. JobFits(j, q)
      BY <1>f, <1>11, <2>1, <3>2, <3>3, <3>5, FitsWhen
    <3>7. ~InFirewall(j, q) /\ ~Begun(q, {"reloadFirewall"})
      BY <1>6, <1>11, <3>2, <3>3 DEF InFirewall, Begun
    <3>8. QED
      BY <1>1, <1>3, <1>6, <1>8, <1>9, <1>11, <3>2, <3>3, <3>6, <3>7
  <2>4. CASE p = BatchSize + 2
    <3>1. /\ k = 1
          /\ it = <<Dialer!Do("survey"), Dialer!Do("reload"), Dialer!Do("reloadFirewall")>>
      BY <1>1, <1>2, <1>8, <1>11, <2>4 DEF it, Item
    <3>2. /\ it # <<>> /\ Head(it) = Dialer!Do("survey")
          /\ Tail(it) = <<Dialer!Do("reload"), Dialer!Do("reloadFirewall")>>
      BY <3>1, ListsAre
    <3>3. Head(it).do = "survey" /\ t = it
      BY <1>7, <3>2 DEF t
    <3>4. DeleteTurn(q, Head(t), Tail(t))
      BY <1>6, <3>1, <3>2, <3>3 DEF DeleteTurn
    <3>5. JobFits(j, q)
      BY <1>f, <1>11, <2>1, <3>2, <3>3, <3>4, FitsWhen
    <3>6. ~InFirewall(j, q) /\ ~Begun(q, {"reloadFirewall"})
      BY <1>6, <1>11, <3>2, <3>3 DEF InFirewall, Begun
    <3>7. QED
      BY <1>1, <1>3, <1>6, <1>8, <1>9, <1>11, <3>2, <3>3, <3>5, <3>6
  <2>5. QED
    BY <1>1, <1>2, <2>2, <2>3, <2>4
<1>12. QED
  BY <1>10, <1>11

\* What is known of the job that has got its turn and its plan P.
GrantsTo(j, r, P, q) ==
  /\ JobFits(j, q) /\ q # Dialer!NoJob /\ q.state = "running" /\ r.state = "running"
  /\ q.from = r.from /\ q.plan = P /\ q.mutated = r.mutated /\ q.reloaded = r.reloaded
  /\ q.cmds # <<>> /\ Begun(q, {"clear"}) /\ (Dialer!Creates(j) => ~Listed(q))
  /\ \A i \in 0..(BatchSize - 1) : Through(q, i) => Through(r, i)

\* The job that has its turn in the chain learns what it has to do there.
LEMMA GrantIs ==
  ASSUME NEW j \in Dialer!Jobs, NEW r, JobFits(j, r), r.cmds # <<>>, Head(r.cmds).do = "wait",
         NEW P \in SUBSET Dialer!Seqs, Dialer!Creates(j) => P # {},
         NEW q, q = [r EXCEPT !.plan = P, !.cmds = Dialer!Rebuild(j, P) \o Tail(r.cmds)]
  PROVE  GrantsTo(j, r, P, q)
<1> USE DEF GrantsTo
<1> DEFINE t == Dialer!Rebuild(j, P) \o Tail(r.cmds)
           clear == Dialer!Do("clear")
           add == Dialer!Do("add")
           reload == Dialer!Do("reload")
           fire == Dialer!Do("reloadFirewall")
<1>1. /\ r \in JobRecords /\ Dialer!Chunks(r.from) \subseteq Dialer!Seqs
      /\ Left(r) <= BatchSize + 2 /\ r.items = Remaining(j, r.from, Left(r))
      /\ r # Dialer!NoJob /\ Left(r) \in Nat /\ BatchSize \in Nat \ {0}
      /\ r.mutated \in BOOLEAN /\ r.reloaded \in BOOLEAN
  BY FittingIs
<1>2. \A v, s : Dialer!Do(v).do = v /\ Dialer!DoAt(v, s).do = v
  BY CommandsAre
<1>3. /\ r.state = "running" /\ r.failed \in {FALSE}
      /\ Dialer!Creates(j) => Left(r) = 1 /\ Tail(r.cmds) = <<>>
      /\ ~Dialer!Creates(j) => /\ Left(r) = 0 /\ Noted(r)
                               /\ Tail(r.cmds) = <<reload, fire>>
  <2>1. /\ r.state = "running" /\ r.failed \in {FALSE}
        /\ Dialer!Creates(j) => CreateTurn(r, Head(r.cmds), Tail(r.cmds))
        /\ ~Dialer!Creates(j) => DeleteTurn(r, Head(r.cmds), Tail(r.cmds)) /\ Noted(r)
    <3>1. Head(r.cmds).do \notin {"reload", "reloadFirewall"}
      OBVIOUS
    <3>2. QED
      BY <3>1, TurnVerbs
  <2> HIDE DEF reload, fire
  <2>2. Dialer!Creates(j) => Left(r) = 1 /\ Tail(r.cmds) = <<>>
    BY <1>2, <2>1 DEF CreateTurn
  <2>3. ~Dialer!Creates(j) => Left(r) = 0 /\ Tail(r.cmds) = <<reload, fire>>
    BY <1>2, <2>1 DEF DeleteTurn, ReloadTurn, reload, fire
  <2>4. QED
    BY <2>1, <2>2, <2>3
<1>4. /\ {clear, add, reload, fire} \subseteq Commands
      /\ clear.do = "clear" /\ add.do = "add"
  BY CommandsAre DEF Verbs
<1>5. /\ Dialer!Creates(j) => t = <<clear, add, fire>>
      /\ ~Dialer!Creates(j) /\ P = {} => t = <<clear, reload, fire>>
      /\ ~Dialer!Creates(j) /\ P # {} => t = <<clear, add, reload, fire>>
  <2>1. t = ((<<clear>> \o (IF P = {} THEN <<>> ELSE <<add>>))
               \o (IF Dialer!Creates(j) THEN <<fire>> ELSE <<>>)) \o Tail(r.cmds)
    BY DEF Dialer!Rebuild
  <2> HIDE DEF t, clear, add, reload, fire
  <2>2. CASE Dialer!Creates(j)
    <3>1. t = ((<<clear>> \o <<add>>) \o <<fire>>) \o <<>>
      BY <1>3, <2>1, <2>2
    <3>2. t = <<clear, add>> \o <<fire>> \o <<>>
      BY <3>1, JoinsAre
    <3>3. t = <<clear, add, fire>> \o <<>>
      BY <3>2, JoinsAre
    <3>4. QED
      BY <2>2, <3>3, JoinsAre
  <2>3. CASE ~Dialer!Creates(j) /\ P = {}
    <3>1. t = ((<<clear>> \o <<>>) \o <<>>) \o <<reload, fire>>
      BY <1>3, <2>1, <2>3
    <3>2. t = <<clear>> \o <<>> \o <<reload, fire>>
      BY <3>1, JoinsAre
    <3>3. t = <<clear>> \o <<reload, fire>>
      BY <3>2, JoinsAre
    <3>4. QED
      BY <2>3, <3>3, JoinsAre
  <2>4. CASE ~Dialer!Creates(j) /\ P # {}
    <3>1. t = ((<<clear>> \o <<add>>) \o <<>>) \o <<reload, fire>>
      BY <1>3, <2>1, <2>4
    <3>2. t = <<clear, add>> \o <<>> \o <<reload, fire>>
      BY <3>1, JoinsAre
    <3>3. t = <<clear, add>> \o <<reload, fire>>
      BY <3>2, JoinsAre
    <3>4. QED
      BY <2>4, <3>3, JoinsAre
  <2>5. QED
    BY <2>2, <2>3, <2>4
<1> HIDE DEF t, clear, add, reload, fire
<1>6. /\ t \in Seq(Commands) /\ t # <<>> /\ Head(t) = clear
      /\ Dialer!Creates(j) => Tail(t) = <<add, fire>>
      /\ ~Dialer!Creates(j) /\ P = {} => Tail(t) = <<reload, fire>>
      /\ ~Dialer!Creates(j) /\ P # {} => Tail(t) = <<add, reload, fire>>
  <2>1. /\ <<clear, add, fire>> \in Seq(Commands) /\ <<clear, reload, fire>> \in Seq(Commands)
        /\ <<clear, add, reload, fire>> \in Seq(Commands)
    BY <1>4
  <2>2. /\ <<clear, add, fire>> # <<>> /\ Head(<<clear, add, fire>>) = clear
        /\ Tail(<<clear, add, fire>>) = <<add, fire>>
        /\ <<clear, reload, fire>> # <<>> /\ Head(<<clear, reload, fire>>) = clear
        /\ Tail(<<clear, reload, fire>>) = <<reload, fire>>
        /\ <<clear, add, reload, fire>> # <<>> /\ Head(<<clear, add, reload, fire>>) = clear
        /\ Tail(<<clear, add, reload, fire>>) = <<add, reload, fire>>
    BY ONLY ListsAre
  <2>3. CASE Dialer!Creates(j)
    BY ONLY <1>5, <2>1, <2>2, <2>3
  <2>4. CASE ~Dialer!Creates(j) /\ P = {}
    BY ONLY <1>5, <2>1, <2>2, <2>4
  <2>5. CASE ~Dialer!Creates(j) /\ P # {}
    BY ONLY <1>5, <2>1, <2>2, <2>5
  <2>6. QED
    BY <2>3, <2>4, <2>5
<1>7. /\ q \in JobRecords /\ q.state = r.state /\ q.from = r.from /\ q.items = r.items
      /\ q.cmds = t /\ q.plan = P /\ q.failed = r.failed
      /\ q.mutated = r.mutated /\ q.reloaded = r.reloaded
  <2>1. q = [r EXCEPT !.plan = P, !.cmds = t]
    BY DEF t
  <2>2. q \in JobRecords
    BY <1>1, <1>6, <2>1 DEF JobRecords
  <2>3. /\ q.state = r.state /\ q.from = r.from /\ q.items = r.items
        /\ q.cmds = t /\ q.plan = P /\ q.failed = r.failed
        /\ q.mutated = r.mutated /\ q.reloaded = r.reloaded
    BY <1>1, <1>6, <2>1 DEF JobRecords
  <2>4. QED
    BY <2>2, <2>3
<1>8. Left(q) = Left(r) /\ q # Dialer!NoJob
  BY <1>7, RecordsAreJobs DEF Left
<1>9. Begun(q, {"clear"})
  BY <1>4, <1>6, <1>7 DEF Begun
<1>10. CASE Dialer!Creates(j)
  <2>1. CreateTurn(q, Head(t), Tail(t))
    BY <1>3, <1>6, <1>8, <1>10 DEF CreateTurn, clear, add, fire
  <2>2. JobFits(j, q)
    BY <1>1, <1>3, <1>6, <1>7, <1>8, <1>10, <2>1 DEF JobFits, Turn
  <2>3. ~Listed(q)
    BY <1>3, <1>6, <1>7, <1>8, <1>10 DEF Listed
  <2>4. \A i \in 0..(BatchSize - 1) : Through(q, i) => Through(r, i)
    BY <1>6, <1>7, <1>8 DEF Through
  <2>5. QED
    BY <1>3, <1>6, <1>7, <1>8, <1>9, <2>2, <2>3, <2>4
<1>11. CASE ~Dialer!Creates(j)
  <2>1. DeleteTurn(q, Head(t), Tail(t))
    BY <1>3, <1>6, <1>7, <1>8, <1>11 DEF DeleteTurn, clear, add, fire, reload
  <2>2. Noted(q)
    BY <1>1, <1>3, <1>6, <1>7, <1>8, <1>11 DEF Noted
  <2>3. JobFits(j, q)
    BY <1>1, <1>3, <1>6, <1>7, <1>8, <1>11, <2>1, <2>2 DEF JobFits, Turn
  <2>4. \A i \in 0..(BatchSize - 1) : Through(q, i) => Through(r, i)
    BY <1>6, <1>7, <1>8 DEF Through
  <2>5. QED
    BY <1>3, <1>6, <1>7, <1>8, <1>9, <1>11, <2>3, <2>4
<1>12. QED
  BY <1>10, <1>11

\* What is known of a deletion after its survey, when command v comes next.
SurveysTo(j, r, v, P, q) ==
  /\ JobFits(j, q) /\ q # Dialer!NoJob /\ q.state = "running" /\ r.state = "running"
  /\ ~Dialer!Creates(j) /\ r.mutated = TRUE /\ r.reloaded \in {FALSE}
  /\ q.from = r.from /\ q.plan = P /\ q.mutated = TRUE /\ q.reloaded \in {FALSE}
  /\ Begun(q, {v}) /\ ~InFirewall(j, r)
  /\ \A i \in 0..(BatchSize - 1) : Through(q, i) => Through(r, i)

\* After its survey a deletion removes the device or queues for the chain.
LEMMA SurveyIs ==
  ASSUME NEW j \in Dialer!Jobs, NEW r, JobFits(j, r), r.cmds # <<>>,
         Head(r.cmds).do \in {"survey", "dropVlan"},
         NEW v \in {"wait", "dropVlan"}, NEW P \in SUBSET Dialer!Seqs,
         NEW q, q = [r EXCEPT !.cmds = <<Dialer!Do(v)>> \o Tail(r.cmds), !.plan = P,
                              !.mutated = TRUE]
  PROVE  SurveysTo(j, r, v, P, q)
<1> USE DEF SurveysTo
<1> DEFINE reload == Dialer!Do("reload")
           fire == Dialer!Do("reloadFirewall")
           t == <<Dialer!Do(v)>> \o Tail(r.cmds)
<1>1. /\ r \in JobRecords /\ Dialer!Chunks(r.from) \subseteq Dialer!Seqs
      /\ Left(r) <= BatchSize + 2 /\ r.items = Remaining(j, r.from, Left(r))
      /\ r # Dialer!NoJob /\ Left(r) \in Nat /\ BatchSize \in Nat \ {0}
      /\ r.mutated \in BOOLEAN /\ r.reloaded \in BOOLEAN
  BY FittingIs
<1>2. \A x, s : Dialer!Do(x).do = x /\ Dialer!DoAt(x, s).do = x
  BY CommandsAre
<1>3. /\ r.state = "running" /\ r.failed \in {FALSE} /\ ~Dialer!Creates(j) /\ Noted(r)
      /\ Left(r) = 0 /\ Tail(r.cmds) = <<reload, fire>>
  <2>1. /\ r.state = "running" /\ r.failed \in {FALSE} /\ ~Dialer!Creates(j) /\ Noted(r)
        /\ DeleteTurn(r, Head(r.cmds), Tail(r.cmds))
    <3>1. Head(r.cmds).do \notin {"set", "reload", "wait", "clear", "add", "reloadFirewall",
                                  "verify"}
      OBVIOUS
    <3>2. QED
      BY <3>1, TurnVerbs
  <2> HIDE DEF reload, fire
  <2>2. Left(r) = 0 /\ Tail(r.cmds) = <<reload, fire>>
    BY <1>2, <2>1 DEF DeleteTurn, ReloadTurn, reload, fire
  <2>3. QED
    BY <2>1, <2>2
<1>4. r.mutated = TRUE /\ r.reloaded \in {FALSE}
  <2>1. r.reloaded \in {FALSE} /\ (Left(r) < BatchSize => r.mutated = TRUE)
    BY <1>1, <1>3, NotedSays
  <2>2. Left(r) < BatchSize
    BY <1>1, <1>3
  <2>3. QED
    BY <2>1, <2>2
<1>5. {Dialer!Do(v), reload, fire} \subseteq Commands
  BY CommandsAre DEF Verbs
<1>6. t = <<Dialer!Do(v), reload, fire>>
  <2> DEFINE d == Dialer!Do(v)
  <2>1. t = <<d>> \o <<reload, fire>>
    BY <1>3
  <2> HIDE DEF t, d, reload, fire
  <2>2. t = <<d, reload, fire>>
    BY <2>1, JoinsAre
  <2>3. QED
    BY <2>2 DEF d
<1> HIDE DEF t, reload, fire
<1>7. /\ t \in Seq(Commands) /\ t # <<>> /\ Head(t) = Dialer!Do(v)
      /\ Tail(t) = <<reload, fire>>
  <2>1. <<Dialer!Do(v), reload, fire>> \in Seq(Commands)
    BY <1>5
  <2>2. QED
    BY <1>6, <2>1, ListsAre
<1>8. /\ q \in JobRecords /\ q.state = r.state /\ q.from = r.from /\ q.items = r.items
      /\ q.cmds = t /\ q.plan = P /\ q.failed = r.failed
      /\ q.mutated = TRUE /\ q.reloaded = r.reloaded
  <2>1. q = [r EXCEPT !.plan = P, !.cmds = t, !.mutated = TRUE]
    BY DEF t
  <2>2. q \in JobRecords
    BY <1>1, <1>7, <2>1 DEF JobRecords
  <2>3. /\ q.state = r.state /\ q.from = r.from /\ q.items = r.items
        /\ q.cmds = t /\ q.plan = P /\ q.failed = r.failed
        /\ q.mutated = TRUE /\ q.reloaded = r.reloaded
    BY <1>1, <1>7, <2>1 DEF JobRecords
  <2>4. QED
    BY <2>2, <2>3
<1>9. Left(q) = Left(r) /\ q # Dialer!NoJob
  BY <1>8, RecordsAreJobs DEF Left
<1>10. Begun(q, {v})
  BY <1>2, <1>7, <1>8 DEF Begun
<1>11. DeleteTurn(q, Head(t), Tail(t))
  <2>1. v = "wait" \/ v = "dropVlan"
    OBVIOUS
  <2>2. QED
    BY <1>3, <1>7, <1>9, <2>1 DEF DeleteTurn, reload, fire
<1>12. Noted(q)
  BY <1>1, <1>3, <1>4, <1>7, <1>8, <1>9 DEF Noted
<1>13. JobFits(j, q)
  BY <1>1, <1>3, <1>7, <1>8, <1>9, <1>11, <1>12 DEF JobFits, Turn
<1>14. ~InFirewall(j, r)
  BY <1>3 DEF InFirewall, Begun
<1>15. \A i \in 0..(BatchSize - 1) : Through(q, i) => Through(r, i)
  BY <1>7, <1>8, <1>9 DEF Through
<1>16. QED
  BY <1>3, <1>4, <1>8, <1>9, <1>10, <1>13, <1>14, <1>15

\* What command c leaves of the router.
Does(j, c, e) ==
  /\ e \in Routers
  /\ e.uci = IF c.do = "set" THEN [uciState.uci EXCEPT ![c.seq] = Dialer!Batch(j)]
             ELSE IF c.do = "delete" THEN [uciState.uci EXCEPT ![c.seq] = Dialer!None]
             ELSE uciState.uci
  /\ e.live = IF c.do = "reload" THEN Dialer!Sections ELSE uciState.live
  /\ e.zone = IF c.do = "delete" THEN uciState.zone \ {c.seq}
              ELSE IF c.do = "clear" THEN {}
              ELSE IF c.do = "add" THEN uciState.zone \cup job[j].plan
              ELSE uciState.zone
  /\ e.liveZone = IF c.do = "reloadFirewall" THEN uciState.zone ELSE uciState.liveZone

\* What a command does to the router.
LEMMA EffectIs ==
  ASSUME RecordsFit, NEW j \in Dialer!Jobs, Dialer!Batch(j) \in Dialer!Batches,
         job[j].plan \subseteq Dialer!Seqs, NEW c,
         c.do \in {"set", "delete"} => c.seq \in Dialer!Seqs,
         NEW e, e = Dialer!Effect(j, c)
  PROVE  Does(j, c, e)
<1> USE DEF Does
<1>1. uciState \in Routers
  BY DEF RecordsFit, Routers
<1>2. Dialer!Sections \subseteq Dialer!Seqs
  BY DEF Dialer!Sections
<1>3. CASE c.do = "set"
  <2>1. e = [uciState EXCEPT !.uci[c.seq] = Dialer!Batch(j),
                             !.vlan = @ \/ c.seq = job[j].from]
    BY <1>3 DEF Dialer!Effect
  <2> DEFINE u == [uciState.uci EXCEPT ![c.seq] = Dialer!Batch(j)]
             v == (uciState.vlan \/ c.seq = job[j].from)
  <2>2. e = [uciState EXCEPT !.uci = u, !.vlan = v]
    BY <1>1, <2>1 DEF Routers
  <2>3. u \in [Dialer!Seqs -> Dialer!Batches \cup {Dialer!None, Dialer!Other}]
    BY <1>1, <1>3 DEF Routers
  <2>4. v \in BOOLEAN
    BY <1>1 DEF Routers
  <2> HIDE DEF u, v
  <2>5. /\ e \in Routers /\ e.uci = u /\ e.live = uciState.live
        /\ e.zone = uciState.zone /\ e.liveZone = uciState.liveZone
    BY <1>1, <2>2, <2>3, <2>4 DEF Routers
  <2>6. QED
    BY <1>3, <2>5 DEF u
<1>4. CASE c.do = "delete"
  <2>1. e = [uciState EXCEPT !.uci[c.seq] = Dialer!None, !.zone = @ \ {c.seq}]
    BY <1>4 DEF Dialer!Effect
  <2> DEFINE u == [uciState.uci EXCEPT ![c.seq] = Dialer!None]
             z == uciState.zone \ {c.seq}
  <2>2. e = [uciState EXCEPT !.uci = u, !.zone = z]
    BY <1>1, <2>1 DEF Routers
  <2>3. u \in [Dialer!Seqs -> Dialer!Batches \cup {Dialer!None, Dialer!Other}]
    BY <1>1, <1>4 DEF Routers
  <2>4. z \in SUBSET Dialer!Seqs
    BY <1>1 DEF Routers
  <2> HIDE DEF u, z
  <2>5. /\ e \in Routers /\ e.uci = u /\ e.live = uciState.live
        /\ e.zone = z /\ e.liveZone = uciState.liveZone
    BY <1>1, <2>2, <2>3, <2>4 DEF Routers
  <2>6. QED
    BY <1>4, <2>5 DEF u, z
<1>5. CASE c.do = "dropVlan"
  BY <1>1, <1>5 DEF Dialer!Effect, Routers
<1>6. CASE c.do = "clear"
  BY <1>1, <1>6 DEF Dialer!Effect, Routers
<1>7. CASE c.do = "add"
  BY <1>1, <1>7 DEF Dialer!Effect, Routers
<1>8. CASE c.do = "reload"
  BY <1>1, <1>2, <1>8 DEF Dialer!Effect, Routers
<1>9. CASE c.do = "reloadFirewall"
  BY <1>1, <1>9 DEF Dialer!Effect, Routers
<1>10. CASE c.do \notin {"set", "delete", "dropVlan", "clear", "add", "reload",
                         "reloadFirewall"}
  BY <1>1, <1>10 DEF Dialer!Effect, Routers
<1>11. QED
  BY <1>3, <1>4, <1>5, <1>6, <1>7, <1>8, <1>9, <1>10

-----------------------------------------------------------------------------
(***************************************************************************)
(* The steps of the runner.                                                *)
(***************************************************************************)

\* What is known of a job with a command to run.
LEMMA ActiveIs ==
  ASSUME RecordsFit, JobsFit, OwnersFit, NEW j \in Dialer!Jobs,
         job[j].state # "none", job[j].cmds # <<>>, NEW c, c = Head(job[j].cmds)
  PROVE  /\ job[j] # Dialer!NoJob /\ JobFits(j, job[j]) /\ job[j] \in JobRecords
         /\ c.do = Dialer!Upcoming(j) /\ job[j].plan \subseteq Dialer!Seqs
         /\ c.do = "set" => Dialer!Creates(j)
         /\ c.do = "delete" => ~Dialer!Creates(j)
         /\ c.do \in {"set", "delete"} =>
              c.seq \in Dialer!Chunks(job[j].from) /\ c.seq \in Dialer!Seqs
<1> DEFINE r == job[j]
<1>1. r # Dialer!NoJob
  BY RecordsAreJobs
<1>2. JobFits(j, r) /\ r \in JobRecords /\ r.plan \subseteq Dialer!Seqs
  BY <1>1, RecordsAreJobs, FieldsAre DEF JobsFit
<1>3. /\ Dialer!Chunks(r.from) \subseteq Dialer!Seqs /\ r.from \in Nat
      /\ BatchSize \in Nat /\ Left(r) \in Nat
  <2>1. r.items \in Seq(Seq(Commands)) /\ r.from \in Dialer!Seqs
    BY <1>2, FieldsAre
  <2>2. QED
    BY <1>2, <2>1, DialerAssumption DEF JobFits, Left, Dialer!Seqs
<1> HIDE DEF r
<1>4. \A v, s : /\ Dialer!Do(v).do = v /\ Dialer!DoAt(v, s).do = v
                /\ Dialer!DoAt(v, s).seq = s
  BY CommandsAre
<1>5. /\ c.do = "set" => CreateTurn(r, c, Tail(r.cmds)) /\ Dialer!Creates(j)
      /\ c.do = "delete" => DeleteTurn(r, c, Tail(r.cmds)) /\ ~Dialer!Creates(j)
  BY <1>2, TurnVerbs DEF r
<1>6. ASSUME c.do = "set" PROVE c.seq \in Dialer!Chunks(r.from)
  <2>1. /\ Left(r) >= 2 /\ Left(r) <= BatchSize + 1
        /\ c.seq = r.from + BatchSize + 1 - Left(r)
    BY <1>4, <1>5, <1>6 DEF CreateTurn
  <2>2. BatchSize + 1 - Left(r) \in 0..(BatchSize - 1)
        /\ c.seq = r.from + (BatchSize + 1 - Left(r))
    BY <1>3, <2>1
  <2>3. QED
    BY <1>3, <2>2, ChunksAre
<1>7. ASSUME c.do = "delete" PROVE c.seq \in Dialer!Chunks(r.from)
  <2>1. /\ Left(r) >= 1 /\ Left(r) <= BatchSize
        /\ c.seq = r.from + BatchSize - Left(r)
    BY <1>4, <1>5, <1>7 DEF DeleteTurn, ReloadTurn
  <2>2. BatchSize - Left(r) \in 0..(BatchSize - 1)
        /\ c.seq = r.from + (BatchSize - Left(r))
    BY <1>3, <2>1
  <2>3. QED
    BY <1>3, <2>2, ChunksAre
<1>8. QED
  BY <1>1, <1>2, <1>3, <1>5, <1>6, <1>7 DEF r, Dialer!Upcoming

\* A command changes only sections of its own batch, and takes no member of another one
\* out of the zone, but for the one that clears it.
LEMMA EffectKeeps ==
  ASSUME RecordsFit, JobsFit, OwnersFit, RangesFit, NEW j \in Dialer!Jobs,
         job[j].state # "none", job[j].cmds # <<>>, NEW c, c = Head(job[j].cmds),
         uciState' = uciState \/ uciState' = Dialer!Effect(j, c)
  PROVE  /\ uciState' \in Routers
         /\ \A s \in Dialer!Seqs : Own(j, s)
         /\ c.do # "clear" => \A b \in Dialer!Batches :
              b \in Enlisted \/ job[Creation(b)] # Dialer!NoJob =>
                Members(b) \cap uciState.zone \subseteq uciState'.zone
<1>1. /\ job[j] # Dialer!NoJob /\ job[j].plan \subseteq Dialer!Seqs
      /\ c.do = "set" => Dialer!Creates(j)
      /\ c.do = "delete" => ~Dialer!Creates(j)
      /\ c.do \in {"set", "delete"} =>
           c.seq \in Dialer!Chunks(job[j].from) /\ c.seq \in Dialer!Seqs
  BY ActiveIs
<1>2. Dialer!Batch(j) \in Dialer!Batches /\ recorded[Dialer!Batch(j)] = job[j].from
      /\ job[j].from # 0
  BY <1>1, JobRanges
<1>3. CASE uciState' = uciState
  BY <1>3 DEF Own, RecordsFit, Routers
<1>4. CASE uciState' = Dialer!Effect(j, c)
  <2> DEFINE e == Dialer!Effect(j, c)
  <2>1. /\ e \in Routers
        /\ e.uci = IF c.do = "set" THEN [uciState.uci EXCEPT ![c.seq] = Dialer!Batch(j)]
                   ELSE IF c.do = "delete" THEN [uciState.uci EXCEPT ![c.seq] = Dialer!None]
                   ELSE uciState.uci
        /\ e.zone = IF c.do = "delete" THEN uciState.zone \ {c.seq}
                    ELSE IF c.do = "clear" THEN {}
                    ELSE IF c.do = "add" THEN uciState.zone \cup job[j].plan
                    ELSE uciState.zone
    <3>1. c.do \in {"set", "delete"} => c.seq \in Dialer!Seqs
      BY <1>1
    <3> HIDE DEF e
    <3>2. e = Dialer!Effect(j, c)
      BY DEF e
    <3>3. Does(j, c, e)
      BY <1>1, <1>2, <3>1, <3>2, EffectIs
    <3>4. QED
      BY <3>3 DEF Does
  <2> HIDE DEF e
  <2>2. uciState' = e
    BY <1>4 DEF e
  <2>3. uciState.uci \in [Dialer!Seqs -> Dialer!Batches \cup {Dialer!None, Dialer!Other}]
    BY DEF RecordsFit
  <2>4. ASSUME NEW s \in Dialer!Seqs PROVE Own(j, s)
    <3>1. CASE c.do = "set"
      BY <1>1, <2>1, <2>2, <2>3, <3>1 DEF Own
    <3>2. CASE c.do = "delete"
      BY <1>1, <2>1, <2>2, <2>3, <3>2 DEF Own
    <3>3. CASE c.do \notin {"set", "delete"}
      BY <2>1, <2>2, <3>3 DEF Own
    <3>4. QED
      BY <3>1, <3>2, <3>3
  <2>5. ASSUME c.do # "clear", NEW b \in Dialer!Batches,
               b \in Enlisted \/ job[Creation(b)] # Dialer!NoJob
        PROVE  Members(b) \cap uciState.zone \subseteq uciState'.zone
    <3>1. CASE c.do = "delete"
      <4>1. recorded[b] # 0 /\ job[Deletion(b)] = Dialer!NoJob
        BY <2>5, EnlistedAre
      <4>2. j = Deletion(Dialer!Batch(j))
        BY <1>1, <3>1, JobsAre
      <4>3. b # Dialer!Batch(j)
        BY <1>1, <4>1, <4>2
      <4>4. Members(b) \cap Members(Dialer!Batch(j)) = {}
        BY <1>2, <4>1, <4>3, MembersAreApart
      <4>5. c.seq \notin Members(b)
        BY <1>1, <1>2, <3>1, <4>4 DEF Members
      <4>6. QED
        BY <2>1, <2>2, <3>1, <4>5
    <3>2. CASE c.do # "delete"
      BY <2>1, <2>2, <2>5, <3>2
    <3>3. QED
      BY <3>1, <3>2
  <2>6. QED
    BY <2>1, <2>2, <2>4, <2>5
<1>5. QED
  BY <1>3, <1>4

\* The batches that are in the zone for good.
LEMMA EnlistedKeep ==
  ASSUME RecordsFit, JobsFit, NEW j \in Dialer!Jobs, NEW q, Moves(j, q), made' \subseteq made,
         Dialer!Creates(j) /\ Listed(q) => Listed(job[j])
  PROVE  Enlisted' \subseteq Enlisted
<1>1. job'[j] = q /\ \A i \in Dialer!Jobs : i # j => job'[i] = job[i]
  BY JobsKeep
<1>2. \A b \in Dialer!Batches : Creation(b) \in Dialer!Jobs /\ Dialer!Creates(Creation(b))
  BY JobsAre
<1>3. QED
  BY <1>1, <1>2 DEF Enlisted

\* The types.
LEMMA RecordsKeep ==
  ASSUME RecordsFit, JobsFit, NEW j \in Dialer!Jobs, NEW q, Moves(j, q),
         uciState' \in Routers, UNCHANGED <<nextSeq, token, seen>>,
         recorded' \in [Dialer!Batches -> 0..SeqLimit],
         deleting' \subseteq Dialer!Batches, made' \subseteq Dialer!Batches,
         lasting' \in BOOLEAN, commandFailures' \in Nat
  PROVE  RecordsFit'
<1>1. job' \in [Dialer!Jobs -> JobRecords \cup {Dialer!NoJob}]
  BY JobsKeep
<1>2. QED
  BY <1>1 DEF RecordsFit, Routers

\* A command beside the survey succeeds.
LEMMA AdvanceKeeps ==
  ASSUME PppoeInv, NEW j \in Dialer!Jobs, Dialer!Active(j),
         Head(job[j].cmds).do \notin {"survey", "dropVlan"},
         NEW q, q = Advanced(j, job[j]), job' = [job EXCEPT ![j] = q],
         uciState' = Dialer!Effect(j, Head(job[j].cmds)),
         chain' = IF Dialer!Holds(j) /\ (Tail(job[j].cmds) = <<>>
                                           \/ Head(Tail(job[j].cmds)).do = "reload")
                  THEN Tail(chain) ELSE chain,
         UNCHANGED <<recorded, nextSeq, token, seen, deleting, made, lasting, commandFailures>>
  PROVE  PppoeInv'
<1> DEFINE r == job[j]
           c == Head(r.cmds)
<1>1. /\ RecordsFit /\ JobsFit /\ OwnersFit /\ RangesFit /\ DeletionsFit /\ OwedFits
      /\ ChainFits /\ MembersFit /\ NotLasting
  BY DEF PppoeInv
<1>2. r.state # "none" /\ r.cmds # <<>> /\ c.do # "wait" /\ Dialer!Upcoming(j) # "wait"
  BY DEF Dialer!Active, Dialer!Upcoming
<1>3. /\ r # Dialer!NoJob /\ JobFits(j, r) /\ r \in JobRecords
      /\ r.plan \subseteq Dialer!Seqs
      /\ c.do \in {"set", "delete"} =>
           c.seq \in Dialer!Chunks(r.from) /\ c.seq \in Dialer!Seqs
  BY <1>1, <1>2, ActiveIs
<1>4. /\ q = Dialer!NoJob \/ JobFits(j, q)
      /\ q # Dialer!NoJob => /\ q.state = r.state /\ q.from = r.from /\ q.plan = r.plan
                             /\ q.failed = r.failed /\ q.items = r.items
      /\ Dialer!Creates(j) => /\ r.state = "running" /\ q # Dialer!NoJob
                              /\ CreationDid(r, q)
      /\ ~Dialer!Creates(j) /\ r.state = "running" =>
           /\ q # Dialer!NoJob /\ DeletionDid(r, q) /\ r.reloaded \in {FALSE}
           /\ c.do # "reloadFirewall" => q.reloaded \in {FALSE}
      /\ r.state = "closing" => ~Dialer!Creates(j) /\ ClosingDid(r, q)
      /\ InFirewall(j, r) =>
           (InFirewall(j, q) <=> ~(Tail(r.cmds) = <<>> \/ Head(Tail(r.cmds)).do = "reload"))
      /\ ~InFirewall(j, r) => ~InFirewall(j, q)
  <2>1. r.cmds # <<>> /\ Head(r.cmds).do \notin {"wait", "survey", "dropVlan"}
        /\ JobFits(j, r) /\ q = Advanced(j, r)
    BY <1>2, <1>3
  <2> HIDE DEF r
  <2>2. AdvancesTo(j, r, q)
    BY ONLY <2>1, AdvanceIs
  <2>3. QED
    BY <2>2 DEF AdvancesTo
<1>5. Moves(j, q)
  BY <1>4 DEF Moves
<1>6. /\ uciState' \in Routers
      /\ \A s \in Dialer!Seqs : Own(j, s)
      /\ c.do # "clear" => \A b \in Dialer!Batches :
           b \in Enlisted \/ job[Creation(b)] # Dialer!NoJob =>
             Members(b) \cap uciState.zone \subseteq uciState'.zone
  BY <1>1, <1>2, EffectKeeps
<1>7. /\ uciState'.uci = IF c.do = "set" THEN [uciState.uci EXCEPT ![c.seq] = Dialer!Batch(j)]
                         ELSE IF c.do = "delete"
                              THEN [uciState.uci EXCEPT ![c.seq] = Dialer!None]
                              ELSE uciState.uci
      /\ uciState'.live = IF c.do = "reload" THEN Dialer!Sections ELSE uciState.live
      /\ uciState'.zone = IF c.do = "delete" THEN uciState.zone \ {c.seq}
                          ELSE IF c.do = "clear" THEN {}
                          ELSE IF c.do = "add" THEN uciState.zone \cup job[j].plan
                          ELSE uciState.zone
      /\ uciState'.liveZone = IF c.do = "reloadFirewall" THEN uciState.zone
                              ELSE uciState.liveZone
  <2>1. Dialer!Batch(j) \in Dialer!Batches
    BY JobsAre
  <2>2. c.do \in {"set", "delete"} => c.seq \in Dialer!Seqs
    BY <1>3
  <2>3. uciState' = Dialer!Effect(j, c)
    OBVIOUS
  <2>4. job[j].plan \subseteq Dialer!Seqs
    BY <1>3
  <2> HIDE DEF c, r
  <2>5. Does(j, c, uciState')
    BY <1>1, <2>1, <2>2, <2>3, <2>4, EffectIs
  <2>6. QED
    BY <2>5 DEF Does
<1>8. r.state \in {"running", "closing"} /\ r.failed \in BOOLEAN /\ Left(r) \in Nat
      /\ BatchSize \in Nat \ {0} /\ r.from \in Nat
  <2>1. /\ r.state \in {"running", "closing"} /\ r.failed \in BOOLEAN
        /\ r.items \in Seq(Seq(Commands)) /\ r.from \in Dialer!Seqs
    BY <1>3, FieldsAre
  <2>2. QED
    BY <2>1, DialerAssumption DEF Left, Dialer!Seqs
<1>9. q # Dialer!NoJob => Left(q) = Left(r)
  BY <1>4 DEF Left
<1>10. \A v : Begun(r, v) <=> c.do \in v
  BY <1>2 DEF Begun
<1>11. Dialer!Holds(j) <=> InFirewall(j, r)
  BY <1>1, <1>2, <1>3, HoldsIs
<1>12. chain' = IF InFirewall(j, r) /\ ~InFirewall(j, q) THEN Tail(chain) ELSE chain
  BY <1>4, <1>11
<1>13. InFirewall(j, r) <=> /\ r.state = "running"
                            /\ \/ c.do \in {"clear", "add"}
                               \/ Dialer!Creates(j) /\ c.do = "reloadFirewall"
  BY <1>2, <1>3, <1>10 DEF InFirewall
<1>h. uciState'.uci = uciState.uci => Dialer!Sections' = Dialer!Sections
  BY DEF Dialer!Sections
<1> HIDE DEF c, r
<1>14. RecordsFit'
  <2>1. /\ recorded' \in [Dialer!Batches -> 0..SeqLimit] /\ deleting' \subseteq Dialer!Batches
        /\ made' \subseteq Dialer!Batches /\ lasting' \in BOOLEAN /\ commandFailures' \in Nat
    BY <1>1 DEF RecordsFit
  <2>2. QED
    BY <1>1, <1>5, <1>6, <2>1, RecordsKeep
<1>15. JobsFit'
  BY <1>1, <1>5, JobsKeep
<1>16. OwnersFit'
  BY <1>1, <1>3, <1>4, <1>5, OwnersKeep DEF r
<1>17. RangesFit' /\ DeletionsFit'
  <2>1. ASSUME r.state = "running", ~Dialer!Creates(j), NEW i \in 0..(BatchSize - 1),
               Through(q, i)
        PROVE  Through(r, i) \/ uciState'.uci[r.from + i] = Dialer!None
    <3>1. DeletionDid(r, q) /\ Left(q) = Left(r) /\ r.cmds # <<>>
      BY <1>2, <1>4, <1>9, <2>1 DEF r
    <3>2. CASE Left(r) = 0
      BY <1>8, <3>1, <3>2 DEF Through
    <3>3. CASE Left(r) = BatchSize + 1
      BY <1>8, <2>1, <3>1, <3>3 DEF Through
    <3>4. CASE /\ c.do = "delete" /\ Left(r) \in 1..BatchSize /\ q.cmds = <<>>
               /\ c.seq = r.from + BatchSize - Left(r)
      <4>1. i + Left(r) <= BatchSize
        BY <1>8, <2>1, <3>1, <3>4 DEF Through
      <4>2. CASE i + Left(r) < BatchSize
        BY <3>1, <4>2 DEF Through
      <4>3. CASE i + Left(r) = BatchSize
        <5>1. c.seq = r.from + i
          BY <1>8, <3>4, <4>3
        <5>2. /\ c.seq \in Dialer!Seqs
              /\ uciState'.uci = [uciState.uci EXCEPT ![c.seq] = Dialer!None]
          BY <1>3, <1>7, <3>4
        <5>3. DOMAIN uciState.uci = Dialer!Seqs
          BY <1>1 DEF RecordsFit
        <5>4. QED
          BY <5>1, <5>2, <5>3
      <4>4. QED
        BY <1>8, <4>1, <4>2, <4>3
    <3>5. QED
      BY <3>1, <3>2, <3>3, <3>4 DEF DeletionDid, c
  <2>2. \/ q = Dialer!NoJob \/ q.state = "closing"
        \/ /\ job[j] # Dialer!NoJob /\ job[j].state = "running" /\ q.from = job[j].from
           /\ ~Dialer!Creates(j) => \A i \in 0..(BatchSize - 1) :
                Through(q, i) => \/ Through(job[j], i)
                                 \/ uciState'.uci[job[j].from + i] = Dialer!None
    BY <1>3, <1>4, <1>8, <2>1 DEF r
  <2>3. QED
    BY <1>1, <1>5, <1>6, <2>2, RangesKeep
<1>18. OwedFits'
  <2>1. \/ lasting' \/ OwesReload(j, q) \/ uciState'.live = Dialer!Sections'
        \/ /\ uciState'.live = uciState.live /\ Dialer!Sections' = Dialer!Sections
           /\ ~OwesReload(j, r)
    <3>1. CASE Dialer!Creates(j)
      <4>1. CreationDid(r, q) /\ r.state = "running" /\ q # Dialer!NoJob
        BY <1>4, <3>1
      <4>2. CASE c.do = "set"
        BY <3>1, <4>1, <4>2 DEF CreationDid, OwesReload, c
      <4>3. CASE c.do = "reload"
        BY <1>7, <1>h, <4>3
      <4>4. CASE c.do \notin {"set", "reload"}
        <5>1. c.do # "delete"
          BY <4>1 DEF CreationDid, c
        <5>2. QED
          BY <1>7, <1>10, <1>h, <3>1, <4>4, <5>1 DEF OwesReload
      <4>5. QED
        BY <4>2, <4>3, <4>4
    <3>2. CASE ~Dialer!Creates(j) /\ r.state = "running"
      <4>1. DeletionDid(r, q) /\ q # Dialer!NoJob /\ q.state = "running"
            /\ r.reloaded \in {FALSE} /\ (c.do # "reloadFirewall" => q.reloaded \in {FALSE})
        BY <1>4, <3>2
      <4>2. CASE c.do = "inspect"
        <5>1. q.mutated = r.mutated /\ q.cmds = <<>>
          BY <4>1, <4>2 DEF DeletionDid, c
        <5>2. OwesReload(j, r) => OwesReload(j, q)
          BY <3>2, <4>1, <4>2, <5>1 DEF OwesReload, Begun
        <5>3. QED
          BY <1>7, <1>h, <4>2, <5>2
      <4>3. CASE c.do \in {"delete", "clear", "add"}
        <5>1. q.mutated /\ ~Begun(q, {"reloadFirewall"})
          BY <4>1, <4>3 DEF DeletionDid, c, Begun
        <5>2. QED
          BY <3>2, <4>1, <4>3, <5>1 DEF OwesReload
      <4>4. CASE c.do = "reload"
        BY <1>7, <1>h, <4>4
      <4>5. CASE c.do = "reloadFirewall"
        BY <1>7, <1>10, <1>h, <3>2, <4>5 DEF OwesReload
      <4>6. QED
        BY <4>1, <4>2, <4>3, <4>4, <4>5 DEF DeletionDid, c
    <3>3. CASE r.state = "closing"
      <4>1. ClosingDid(r, q)
        BY <1>4, <3>3
      <4>2. CASE c.do = "reload"
        BY <1>7, <1>h, <4>2
      <4>3. CASE c.do = "reloadFirewall"
        BY <1>7, <1>10, <1>h, <3>3, <4>3 DEF OwesReload
      <4>4. QED
        BY <4>1, <4>2, <4>3 DEF ClosingDid, c
    <3>4. QED
      BY <1>8, <3>1, <3>2, <3>3
  <2>2. \/ lasting' \/ OwesZone(j, q) \/ uciState'.liveZone = uciState'.zone
        \/ /\ uciState'.liveZone = uciState.liveZone /\ uciState'.zone = uciState.zone
           /\ ~OwesZone(j, r)
    <3>1. CASE Dialer!Creates(j)
      <4>1. CreationDid(r, q) /\ r.state = "running" /\ q # Dialer!NoJob
        BY <1>4, <3>1
      <4>2. CASE c.do \in {"set", "reload", "verify"}
        BY <1>7, <1>10, <3>1, <4>2 DEF OwesZone
      <4>3. CASE c.do \in {"clear", "add"}
        <5>1. Begun(q, {"add"}) \/ Begun(q, {"reloadFirewall"})
          BY <4>1, <4>3 DEF CreationDid, c
        <5>2. Begun(q, {"add", "reloadFirewall"})
          BY <5>1 DEF Begun
        <5>3. QED
          BY <3>1, <4>1, <5>2 DEF OwesZone
      <4>4. CASE c.do = "reloadFirewall"
        BY <1>7, <4>4
      <4>5. QED
        BY <4>1, <4>2, <4>3, <4>4 DEF CreationDid, c
    <3>2. CASE ~Dialer!Creates(j) /\ r.state = "running"
      <4>1. DeletionDid(r, q) /\ q # Dialer!NoJob /\ q.state = "running"
            /\ r.reloaded \in {FALSE} /\ (c.do # "reloadFirewall" => q.reloaded \in {FALSE})
        BY <1>4, <3>2
      <4>2. CASE c.do = "inspect"
        <5>1. q.mutated = r.mutated
          BY <4>1, <4>2 DEF DeletionDid, c
        <5>2. OwesZone(j, r) => OwesZone(j, q)
          BY <3>2, <4>1, <4>2, <5>1 DEF OwesZone
        <5>3. QED
          BY <1>7, <4>2, <5>2
      <4>3. CASE c.do \in {"delete", "clear", "add", "reload"}
        <5>1. q.mutated
          BY <4>1, <4>3 DEF DeletionDid, c
        <5>2. QED
          BY <3>2, <4>1, <4>3, <5>1 DEF OwesZone
      <4>4. CASE c.do = "reloadFirewall"
        BY <1>7, <4>4
      <4>5. QED
        BY <4>1, <4>2, <4>3, <4>4 DEF DeletionDid, c
    <3>3. CASE r.state = "closing"
      <4>1. ClosingDid(r, q) /\ ~Dialer!Creates(j)
        BY <1>4, <3>3
      <4>2. CASE c.do = "reload"
        <5>1. q # Dialer!NoJob /\ q.state = "closing"
          BY <1>4, <3>3, <4>1, <4>2 DEF ClosingDid, c
        <5>2. QED
          BY <4>1, <5>1 DEF OwesZone
      <4>3. CASE c.do = "reloadFirewall"
        BY <1>7, <4>3
      <4>4. QED
        BY <4>1, <4>2, <4>3 DEF ClosingDid, c
    <3>4. QED
      BY <1>8, <3>1, <3>2, <3>3
  <2>3. QED
    BY <1>1, <1>5, <2>1, <2>2, OwedKeeps DEF r
<1>19. CASE ~InFirewall(j, r)
  <2>1. chain' = chain /\ ~InFirewall(j, q)
    BY <1>4, <1>12, <1>19
  <2>2. ChainFits'
    BY <1>1, <1>2, <1>5, <1>10, <1>19, <2>1, ChainStays DEF r
  <2>3. Enlisted' \subseteq Enlisted
    <3>1. Dialer!Creates(j) /\ Listed(q) => Listed(r)
      <4>1. SUFFICES ASSUME Dialer!Creates(j), Listed(q) PROVE Listed(r)
        OBVIOUS
      <4>2. CreationDid(r, q) /\ r.state = "running" /\ Left(q) = Left(r) /\ q.failed = r.failed
        BY <1>4, <1>9, <4>1
      <4>3. Left(r) = 0
        BY <1>8, <1>13, <1>19, <4>1, <4>2 DEF CreationDid, Listed, c, Begun
      <4>4. QED
        BY <1>3, <4>1, <4>2, <4>3 DEF Listed
    <3>2. QED
      BY <1>1, <1>5, <3>1, EnlistedKeep DEF r
  <2>4. c.do # "clear"
    <3>1. c.do = "clear" => r.state = "running"
      BY <1>4, <1>8 DEF ClosingDid, c
    <3>2. QED
      BY <1>13, <1>19, <3>1
  <2>5. \A b \in Dialer!Batches : b \in Enlisted \/ job[Creation(b)] # Dialer!NoJob =>
          recorded'[b] = recorded[b] /\ Members(b) \cap uciState.zone \subseteq uciState'.zone
    BY <1>6, <2>4
  <2>6. \A i \in 1..Len(chain) : job'[chain[i]] = job[chain[i]]
    <3>1. \A i \in 1..Len(chain) : chain[i] \in Dialer!Jobs /\ chain[i] # j
      BY <1>1, <1>19, PlacesAre DEF r
    <3>2. QED
      BY <1>1, <1>5, <3>1, JobsKeep
  <2>7. MembersFit'
    BY <1>1, <2>1, <2>3, <2>5, <2>6, MembersKeep
  <2>8. QED
    BY <1>1, <1>14, <1>15, <1>16, <1>17, <1>18, <2>2, <2>7 DEF PppoeInv, NotLasting
<1>20. CASE InFirewall(j, r)
  <2>1. /\ chain # <<>> /\ Head(chain) = j /\ r.state = "running"
        /\ 1 \in 1..Len(chain) /\ chain[1] = j /\ Len(chain) \in Nat
    <3>1. chain # <<>> /\ Head(chain) = j
      BY <1>11, <1>20 DEF Dialer!Holds
    <3>2. QED
      BY <1>1, <1>13, <1>20, <3>1, HeadIs
  <2>2. commandFailures = 0 => \A b \in Enlisted :
          /\ Members(b) \subseteq r.plan
          /\ \A i \in 1..Len(chain) : i > 1 /\ ~Dialer!Creates(chain[i]) =>
               Members(b) \subseteq job[chain[i]].plan
          /\ c.do # "add" => Members(b) \subseteq uciState.zone
    <3>1. ~Begun(job[chain[1]], {"wait"})
      BY <1>2, <1>10, <2>1 DEF r
    <3>2. c.do # "add" => ~Adding
      BY <1>10, <2>1 DEF Adding, r
    <3>3. QED
      BY <1>1, <2>1, <3>1, <3>2 DEF MembersFit, r
  <2>3. commandFailures = 0 /\ Dialer!Creates(j) =>
          /\ c.do \in {"clear", "add"} => Members(Dialer!Batch(j)) \subseteq r.plan
          /\ c.do = "reloadFirewall" => Members(Dialer!Batch(j)) \subseteq uciState.zone
          /\ \A i \in 1..Len(chain) : i > 1 /\ ~Dialer!Creates(chain[i]) =>
               Members(Dialer!Batch(j)) \subseteq job[chain[i]].plan
    BY <1>1, <1>10, <2>1 DEF MembersFit, r
  <2>4. CASE InFirewall(j, q)
    <3>1. chain' = chain
      BY <1>12, <2>4
    <3>2. ChainFits'
      BY <1>1, <1>5, <1>20, <2>1, <2>4, <3>1, ChainStays DEF r
    <3>3. /\ q # Dialer!NoJob /\ q.plan = r.plan
          /\ Dialer!Creates(j) => ~Listed(q)
          /\ \/ c.do = "clear" /\ Begun(q, {"add"})
             \/ Dialer!Creates(j) /\ c.do = "add" /\ Begun(q, {"reloadFirewall"})
      <4>1. q # Dialer!NoJob
        BY <2>4 DEF InFirewall
      <4>2. CASE Dialer!Creates(j)
        <5>1. CreationDid(r, q) /\ Left(q) = Left(r)
          BY <1>4, <1>9, <4>1, <4>2
        <5>2. /\ Left(r) = 1 /\ q.cmds # <<>>
              /\ \/ c.do = "clear" /\ Begun(q, {"add"})
                 \/ c.do = "add" /\ Begun(q, {"reloadFirewall"})
          BY <1>13, <1>20, <2>4, <5>1 DEF CreationDid, c, InFirewall, Begun
        <5>3. ~Listed(q)
          BY <5>1, <5>2 DEF Listed
        <5>4. QED
          BY <1>4, <4>1, <4>2, <5>2, <5>3
      <4>3. CASE ~Dialer!Creates(j)
        <5>1. DeletionDid(r, q)
          BY <1>4, <2>1, <4>3
        <5>2. c.do = "clear" /\ Begun(q, {"add"})
          BY <1>13, <1>20, <2>4, <4>3, <5>1 DEF DeletionDid, c, InFirewall, Begun
        <5>3. QED
          BY <1>4, <4>1, <4>3, <5>2
      <4>4. QED
        BY <4>2, <4>3
    <3>4. Enlisted' \subseteq Enlisted
      BY <1>1, <1>5, <3>3, EnlistedKeep
    <3>5. MembersFit'
      <4>1. \A v : ~(Begun(q, {"add"}) /\ Begun(q, {"reloadFirewall"}))
        BY DEF Begun
      <4>2. commandFailures = 0 =>
             /\ \A b \in Enlisted : /\ Members(b) \subseteq uciState'.zone \/ Begun(q, {"add"})
                                    /\ Members(b) \subseteq q.plan
             /\ ~Dialer!Creates(j) => q.plan = job[j].plan
             /\ Dialer!Creates(j) =>
                  /\ Begun(q, {"clear", "add"}) => Members(Dialer!Batch(j)) \subseteq q.plan
                  /\ Begun(q, {"reloadFirewall"})
                       => Members(Dialer!Batch(j)) \subseteq uciState'.zone
        <5>1. CASE c.do = "clear" /\ Begun(q, {"add"})
          BY <2>2, <2>3, <3>3, <4>1, <5>1 DEF r
        <5>2. CASE Dialer!Creates(j) /\ c.do = "add" /\ Begun(q, {"reloadFirewall"})
          <6>1. uciState'.zone = uciState.zone \cup r.plan
            BY <1>7, <5>2 DEF r
          <6>2. QED
            BY <2>2, <2>3, <3>3, <5>2, <6>1 DEF r
        <5>3. QED
          BY <3>3, <5>1, <5>2
      <4>3. QED
        BY <1>1, <1>5, <2>1, <3>1, <3>4, <4>2, MembersTurn
    <3>6. QED
      BY <1>1, <1>14, <1>15, <1>16, <1>17, <1>18, <3>2, <3>5 DEF PppoeInv, NotLasting
  <2>5. CASE ~InFirewall(j, q)
    <3>1. chain' = Tail(chain)
      BY <1>12, <1>20, <2>5
    <3>2. ChainFits'
      BY <1>1, <1>5, <2>1, <2>5, <3>1, ChainShrinks
    <3>3. commandFailures = 0 => \A b \in Enlisted' :
           /\ Members(b) \subseteq uciState'.zone
           /\ \A i \in 1..Len(chain) :
                i > 1 /\ ~Dialer!Creates(chain[i]) => Members(b) \subseteq job[chain[i]].plan
      <4> SUFFICES ASSUME commandFailures = 0
                   PROVE  \A b \in Enlisted' :
                            /\ Members(b) \subseteq uciState'.zone
                            /\ \A i \in 1..Len(chain) : i > 1 /\ ~Dialer!Creates(chain[i]) =>
                                 Members(b) \subseteq job[chain[i]].plan
        OBVIOUS
      <4>1. CASE Dialer!Creates(j)
        <5>1. c.do = "reloadFirewall"
          <6>1. CreationDid(r, q) /\ q # Dialer!NoJob /\ q.state = "running"
            BY <1>4, <4>1
          <6>2. QED
            BY <1>13, <1>20, <2>5, <4>1, <6>1 DEF CreationDid, c, InFirewall, Begun
        <5>2. uciState'.zone = uciState.zone
          BY <1>7, <5>1
        <5>3. \A b \in Enlisted' : b \in Enlisted \/ b = Dialer!Batch(j)
          <6>1. job'[j] = q /\ \A i \in Dialer!Jobs : i # j => job'[i] = job[i]
            BY <1>1, <1>5, JobsKeep
          <6>2. \A b \in Dialer!Batches : Creation(b) \in Dialer!Jobs
                                          /\ Dialer!Batch(Creation(b)) = b
            BY JobsAre
          <6>3. QED
            BY <6>1, <6>2 DEF Enlisted
        <5>4. QED
          BY <2>2, <2>3, <4>1, <5>1, <5>2, <5>3
      <4>2. CASE ~Dialer!Creates(j)
        <5>1. Enlisted' \subseteq Enlisted
          BY <1>1, <1>5, <4>2, EnlistedKeep
        <5>2. DeletionDid(r, q) /\ q # Dialer!NoJob /\ q.state = "running"
          BY <1>4, <2>1, <4>2
        <5>3. c.do = "add" \/ (c.do = "clear" /\ r.plan = {})
          BY <1>13, <1>20, <2>5, <4>2, <5>2 DEF DeletionDid, c, InFirewall, Begun
        <5>4. CASE c.do = "add"
          <6>1. uciState'.zone = uciState.zone \cup r.plan
            BY <1>7, <5>4 DEF r
          <6>2. QED
            BY <2>2, <5>1, <6>1
        <5>5. CASE c.do = "clear" /\ r.plan = {}
          <6>1. ASSUME NEW b \in Enlisted PROVE FALSE
            <7>1. Members(b) \subseteq {}
              BY <2>2, <5>5
            <7>2. b \in Dialer!Batches
              BY DEF Enlisted
            <7>3. recorded[b] \in Nat
              BY <1>1, <7>2, EnlistedAre
            <7>4. recorded[b] \in Members(b)
              BY <7>3, ChunksAre DEF Members
            <7>5. QED
              BY <7>1, <7>4
          <6>2. QED
            BY <5>1, <6>1
        <5>6. QED
          BY <5>3, <5>4, <5>5
      <4>3. QED
        BY <4>1, <4>2
    <3>4. MembersFit'
      BY <1>1, <1>5, <2>1, <3>1, <3>3, MembersLeave
    <3>5. QED
      BY <1>1, <1>14, <1>15, <1>16, <1>17, <1>18, <3>2, <3>4 DEF PppoeInv, NotLasting
  <2>6. QED
    BY <2>4, <2>5
<1>21. QED
  BY <1>19, <1>20

\* A command fails, or the verification misses sessions.
LEMMA AbortKeeps ==
  ASSUME PppoeInv, NEW j \in Dialer!Jobs, Dialer!Active(j),
         NEW q, q = Failed(job[j]), job' = [job EXCEPT ![j] = q],
         uciState' = uciState \/ uciState' = Dialer!Effect(j, Head(job[j].cmds)),
         chain' = IF Dialer!Holds(j) THEN Tail(chain) ELSE chain,
         UNCHANGED <<recorded, nextSeq, token, seen, deleting, made>>,
         \/ /\ commandFailures' = commandFailures + 1
            /\ lasting' = (lasting \/ Dialer!Creates(j) \/ job[j].state = "closing")
         \/ /\ commandFailures' = commandFailures /\ lasting' = lasting
            /\ uciState' = uciState /\ Head(job[j].cmds).do = "verify"
  PROVE  PppoeInv'
<1> DEFINE r == job[j]
           c == Head(r.cmds)
<1>1. /\ RecordsFit /\ JobsFit /\ OwnersFit /\ RangesFit /\ DeletionsFit /\ OwedFits
      /\ ChainFits /\ MembersFit /\ NotLasting
  BY DEF PppoeInv
<1>2. r.state # "none" /\ r.cmds # <<>> /\ c.do # "wait" /\ Dialer!Upcoming(j) # "wait"
  BY DEF Dialer!Active, Dialer!Upcoming
<1>3. /\ r # Dialer!NoJob /\ JobFits(j, r) /\ r \in JobRecords
      /\ r.plan \subseteq Dialer!Seqs
      /\ c.do \in {"set", "delete"} =>
           c.seq \in Dialer!Chunks(r.from) /\ c.seq \in Dialer!Seqs
  BY <1>1, <1>2, ActiveIs
<1>4. /\ q = Dialer!NoJob \/ JobFits(j, q)
      /\ q = Dialer!NoJob <=> r.state = "closing"
      /\ r.state = "closing" => ~Dialer!Creates(j)
      /\ q # Dialer!NoJob => /\ q.state = "running" /\ q.from = r.from /\ q.items = r.items
                             /\ q.cmds = <<>> /\ q.failed = TRUE /\ q.mutated \in BOOLEAN
      /\ ~InFirewall(j, q) /\ ~Listed(q)
      /\ r.state = "running" /\ ~Dialer!Creates(j) =>
           /\ q.reloaded \in {FALSE} /\ r.reloaded \in {FALSE}
           /\ q.mutated \/ (c.do = "inspect" /\ ~r.mutated)
      /\ r.state = "running" => \A i \in 0..(BatchSize - 1) : Through(q, i) => Through(r, i)
  <2>1. r.cmds # <<>> /\ JobFits(j, r) /\ q = Failed(r)
    BY <1>2, <1>3
  <2> HIDE DEF r
  <2>2. AbortsTo(j, r, q)
    BY ONLY <2>1, AbortIs
  <2>3. QED
    BY <2>2 DEF AbortsTo
<1>5. Moves(j, q)
  BY <1>4 DEF Moves
<1>6. uciState' \in Routers /\ \A s \in Dialer!Seqs : Own(j, s)
  BY <1>1, <1>2, EffectKeeps
<1>7. r.state \in {"running", "closing"}
  BY <1>3, FieldsAre
<1>8. Dialer!Holds(j) <=> InFirewall(j, r)
  BY <1>1, <1>2, <1>3, HoldsIs
<1>9. \A v : Begun(r, v) <=> c.do \in v
  BY <1>2 DEF Begun
<1>10. c.do = "inspect" =>
         /\ uciState'.uci = uciState.uci /\ uciState'.live = uciState.live
         /\ uciState'.zone = uciState.zone /\ uciState'.liveZone = uciState.liveZone
  BY DEF Dialer!Effect
<1>h. uciState'.uci = uciState.uci => Dialer!Sections' = Dialer!Sections
  BY DEF Dialer!Sections
<1>11. c.do = "verify" => Dialer!Creates(j) /\ ~InFirewall(j, r)
  <2>1. c.do = "verify" => Dialer!Creates(j)
    BY <1>2, <1>3, <1>7, TurnVerbs
  <2>2. QED
    BY <1>9, <2>1 DEF InFirewall
<1> HIDE DEF r, c
<1>12. RecordsFit'
  <2>1. lasting' \in BOOLEAN /\ commandFailures' \in Nat
    <3>1. lasting \in BOOLEAN /\ commandFailures \in Nat
      BY <1>1 DEF RecordsFit
    <3> DEFINE x == (lasting \/ Dialer!Creates(j) \/ job[j].state = "closing")
    <3>2. x \in BOOLEAN
      OBVIOUS
    <3>3. \/ commandFailures' = commandFailures + 1 /\ lasting' = x
          \/ commandFailures' = commandFailures /\ lasting' = lasting
      OBVIOUS
    <3> HIDE DEF x
    <3>4. QED
      BY <3>1, <3>2, <3>3
  <2>2. /\ recorded' \in [Dialer!Batches -> 0..SeqLimit] /\ deleting' \subseteq Dialer!Batches
        /\ made' \subseteq Dialer!Batches
    BY <1>1 DEF RecordsFit
  <2>3. QED
    BY <1>1, <1>5, <1>6, <2>1, <2>2, RecordsKeep
<1>13. JobsFit'
  BY <1>1, <1>5, JobsKeep
<1>14. OwnersFit'
  BY <1>1, <1>3, <1>4, <1>5, OwnersKeep DEF r
<1>15. RangesFit' /\ DeletionsFit'
  BY <1>1, <1>3, <1>4, <1>5, <1>6, <1>7, RangesKeep DEF r
<1>16. OwedFits'
  <2>1. CASE lasting'
    BY <2>1 DEF OwedFits
  <2>2. CASE ~lasting'
    <3>1. lasting => lasting'
      BY DEF r, c
    <3>2. CASE c.do = "verify" /\ uciState' = uciState
      <4>1. ~OwesReload(j, r) /\ ~OwesZone(j, r)
        BY <1>9, <1>11, <3>2 DEF OwesReload, OwesZone
      <4>2. QED
        BY <1>1, <1>5, <1>h, <3>1, <3>2, <4>1, OwedKeeps DEF r
    <3>3. CASE r.state = "running" /\ ~Dialer!Creates(j)
      <4>1. CASE q.mutated
        <5>1. OwesReload(j, q) /\ OwesZone(j, q)
          BY <1>4, <3>3, <4>1 DEF OwesReload, OwesZone, Begun
        <5>2. QED
          BY <1>1, <1>5, <3>1, <5>1, OwedKeeps
      <4>2. CASE ~q.mutated
        <5>1. c.do = "inspect" /\ ~r.mutated
          BY <1>4, <3>3, <4>2
        <5>2. ~OwesReload(j, r) /\ ~OwesZone(j, r)
          BY <3>3, <5>1 DEF OwesReload, OwesZone
        <5>3. QED
          BY <1>1, <1>5, <1>10, <1>h, <3>1, <5>1, <5>2, OwedKeeps DEF r
      <4>3. QED
        BY <4>1, <4>2
    <3>4. QED
      BY <1>7, <2>2, <3>2, <3>3 DEF r, c
  <2>3. QED
    BY <2>1, <2>2
<1>17. ChainFits'
  <2>1. CASE InFirewall(j, r)
    <3>1. chain' = Tail(chain) /\ chain # <<>> /\ Head(chain) = j
      BY <1>8, <2>1 DEF Dialer!Holds
    <3>2. QED
      BY <1>1, <1>4, <1>5, <3>1, ChainShrinks
  <2>2. CASE ~InFirewall(j, r)
    <3>1. chain' = chain /\ ~Begun(r, {"wait"})
      BY <1>2, <1>8, <1>9, <2>2 DEF c, r
    <3>2. QED
      BY <1>1, <1>4, <1>5, <2>2, <3>1, ChainStays DEF r
  <2>3. QED
    BY <2>1, <2>2
<1>18. MembersFit'
  <2>1. CASE commandFailures' = commandFailures + 1
    BY <1>1, <2>1, MembersFailed
  <2>2. CASE commandFailures' = commandFailures /\ uciState' = uciState /\ c.do = "verify"
    <3>1. chain' = chain /\ ~InFirewall(j, r)
      BY <1>8, <1>11, <2>2
    <3>2. Enlisted' \subseteq Enlisted
      BY <1>1, <1>4, <1>5, EnlistedKeep
    <3>3. \A i \in 1..Len(chain) : job'[chain[i]] = job[chain[i]]
      <4>1. \A i \in 1..Len(chain) : chain[i] \in Dialer!Jobs /\ chain[i] # j
        BY <1>1, <3>1, PlacesAre DEF r
      <4>2. QED
        BY <1>1, <1>5, <4>1, JobsKeep
    <3>4. QED
      BY <1>1, <2>2, <3>1, <3>2, <3>3, MembersKeep
  <2>3. QED
    BY <2>1, <2>2 DEF c, r
<1>19. NotLasting'
  BY <1>1 DEF NotLasting, RecordsFit
<1>20. QED
  BY <1>12, <1>13, <1>14, <1>15, <1>16, <1>17, <1>18, <1>19 DEF PppoeInv

\* The survey of a deletion: it removes the device or queues for the chain.
LEMMA SurveyKeeps ==
  ASSUME PppoeInv, NEW j \in Dialer!Jobs, Dialer!Active(j),
         Head(job[j].cmds).do \in {"survey", "dropVlan"},
         NEW v \in {"wait", "dropVlan"}, NEW P,
         P = IF v = "wait" THEN Dialer!Members(Dialer!Batches \ {Dialer!Batch(j)})
             ELSE job[j].plan,
         NEW q, q = [job[j] EXCEPT !.cmds = <<Dialer!Do(v)>> \o Tail(job[j].cmds), !.plan = P,
                                   !.mutated = TRUE],
         job' = [job EXCEPT ![j] = q],
         uciState' = Dialer!Effect(j, Head(job[j].cmds)),
         chain' = IF v = "wait" THEN Append(chain, j) ELSE chain,
         UNCHANGED <<recorded, nextSeq, token, seen, deleting, made, lasting, commandFailures>>
  PROVE  PppoeInv'
<1> DEFINE r == job[j]
           c == Head(r.cmds)
<1>1. /\ RecordsFit /\ JobsFit /\ OwnersFit /\ RangesFit /\ DeletionsFit /\ OwedFits
      /\ ChainFits /\ MembersFit /\ NotLasting
  BY DEF PppoeInv
<1>2. r.state # "none" /\ r.cmds # <<>>
  BY DEF Dialer!Active
<1>3. r # Dialer!NoJob /\ JobFits(j, r) /\ r.plan \subseteq Dialer!Seqs
  BY <1>1, <1>2, ActiveIs
<1>4. P \in SUBSET Dialer!Seqs
  BY <1>1, <1>3 DEF Dialer!Members, RangesFit
<1>5. /\ JobFits(j, q) /\ q # Dialer!NoJob /\ q.state = "running" /\ r.state = "running"
      /\ ~Dialer!Creates(j) /\ r.mutated = TRUE /\ r.reloaded \in {FALSE}
      /\ q.from = r.from /\ q.plan = P /\ q.mutated = TRUE /\ q.reloaded \in {FALSE}
      /\ Begun(q, {v}) /\ ~InFirewall(j, r)
      /\ \A i \in 0..(BatchSize - 1) : Through(q, i) => Through(r, i)
  <2>1. /\ r.cmds # <<>> /\ JobFits(j, r) /\ Head(r.cmds).do \in {"survey", "dropVlan"}
        /\ q = [r EXCEPT !.cmds = <<Dialer!Do(v)>> \o Tail(r.cmds), !.plan = P,
                         !.mutated = TRUE]
    BY <1>2, <1>3
  <2> HIDE DEF r
  <2>2. SurveysTo(j, r, v, P, q)
    BY ONLY <1>4, <2>1, SurveyIs
  <2>3. QED
    BY <2>2 DEF SurveysTo
<1>6. Moves(j, q)
  BY <1>5 DEF Moves
<1>7. uciState' \in Routers /\ \A s \in Dialer!Seqs : Own(j, s)
  BY <1>1, <1>2, EffectKeeps
<1>8. /\ uciState'.uci = uciState.uci /\ uciState'.live = uciState.live
      /\ uciState'.zone = uciState.zone /\ uciState'.liveZone = uciState.liveZone
  <2>1. Dialer!Batch(j) \in Dialer!Batches
    BY JobsAre
  <2>2. c.do \notin {"set", "delete", "clear", "add", "reload", "reloadFirewall"}
        /\ uciState' = Dialer!Effect(j, c)
    OBVIOUS
  <2> HIDE DEF c
  <2>3. c.do \in {"set", "delete"} => c.seq \in Dialer!Seqs
    BY <2>2
  <2>4. Does(j, c, uciState')
    BY <1>1, <1>3, <2>1, <2>2, <2>3, EffectIs
  <2>5. QED
    BY <2>2, <2>4 DEF Does
<1> HIDE DEF r, c
<1>9. RecordsFit'
  <2>1. /\ recorded' \in [Dialer!Batches -> 0..SeqLimit] /\ deleting' \subseteq Dialer!Batches
        /\ made' \subseteq Dialer!Batches /\ lasting' \in BOOLEAN /\ commandFailures' \in Nat
    BY <1>1 DEF RecordsFit
  <2>2. QED
    BY <1>1, <1>6, <1>7, <2>1, RecordsKeep
<1>10. JobsFit'
  BY <1>1, <1>6, JobsKeep
<1>11. OwnersFit'
  BY <1>1, <1>3, <1>5, <1>6, OwnersKeep DEF r
<1>12. RangesFit' /\ DeletionsFit'
  BY <1>1, <1>3, <1>5, <1>6, <1>7, RangesKeep DEF r
<1>13. OwedFits'
  <2>1. OwesReload(j, q) /\ OwesZone(j, q)
    <3>1. ~Begun(q, {"reloadFirewall"})
      BY <1>5 DEF Begun
    <3>2. QED
      BY <1>5, <3>1 DEF OwesReload, OwesZone
  <2>2. QED
    BY <1>1, <1>6, <2>1, OwedKeeps
<1>14. Enlisted' \subseteq Enlisted
  BY <1>1, <1>5, <1>6, EnlistedKeep
<1>15. ChainFits' /\ MembersFit'
  <2>1. CASE v = "wait"
    <3>1. ChainFits'
      BY <1>1, <1>5, <1>6, <2>1, ChainGrows DEF r
    <3>2. MembersFit'
      BY <1>1, <1>3, <1>5, <1>6, <1>8, <1>14, <2>1, MembersJoin DEF r
    <3>3. QED
      BY <3>1, <3>2
  <2>2. CASE v = "dropVlan"
    <3>1. ~InFirewall(j, q) /\ ~Begun(r, {"wait"})
      BY <1>3, <1>5, <2>2 DEF InFirewall, Begun
    <3>2. ChainFits'
      BY <1>1, <1>5, <1>6, <2>2, <3>1, ChainStays DEF r
    <3>3. \A i \in 1..Len(chain) : job'[chain[i]] = job[chain[i]]
      <4>1. \A i \in 1..Len(chain) : chain[i] \in Dialer!Jobs /\ chain[i] # j
        BY <1>1, <1>5, PlacesAre DEF r
      <4>2. QED
        BY <1>1, <1>6, <4>1, JobsKeep
    <3>4. MembersFit'
      BY <1>1, <1>8, <1>14, <2>2, <3>3, MembersKeep
    <3>5. QED
      BY <3>2, <3>4
  <2>3. QED
    BY <2>1, <2>2
<1>16. QED
  BY <1>1, <1>9, <1>10, <1>11, <1>12, <1>13, <1>15 DEF PppoeInv, NotLasting

\* A command succeeds.
LEMMA SucceedsKeeps ==
  ASSUME PppoeInv, NEW j \in Dialer!Jobs, Dialer!Succeeds(j)
  PROVE  PppoeInv'
<1> DEFINE r == job[j]
           c == Head(r.cmds)
           t == Tail(r.cmds)
<1>1. /\ Dialer!Active(j) /\ uciState' = Dialer!Effect(j, c)
      /\ UNCHANGED <<recorded, nextSeq, token, seen, deleting, made, lasting, commandFailures>>
  BY DEF Dialer!Succeeds, Dialer!counts
<1>2. /\ r \in JobRecords /\ job \in [Dialer!Jobs -> JobRecords \cup {Dialer!NoJob}]
      /\ r.cmds # <<>> /\ JobFits(j, r)
  <2>1. r.state # "none" /\ r.cmds # <<>>
    BY <1>1 DEF Dialer!Active
  <2>2. QED
    BY <2>1, ActiveIs DEF PppoeInv, RecordsFit
<1>3. CASE c.do \in {"survey", "dropVlan"}
  <2>1. r.mutated = TRUE
    <3>1. "wait" \in {"wait", "dropVlan"}
      OBVIOUS
    <3> DEFINE q == [r EXCEPT !.cmds = <<Dialer!Do("wait")>> \o Tail(r.cmds),
                             !.plan = r.plan, !.mutated = TRUE]
    <3>3. q = [r EXCEPT !.cmds = <<Dialer!Do("wait")>> \o Tail(r.cmds), !.plan = r.plan,
                        !.mutated = TRUE]
      OBVIOUS
    <3>4. Head(r.cmds).do \in {"survey", "dropVlan"} /\ JobFits(j, r) /\ r.cmds # <<>>
      BY <1>2, <1>3
    <3>5. r.plan \in SUBSET Dialer!Seqs
      BY <1>2, FieldsAre
    <3> HIDE DEF q, r
    <3>6. SurveysTo(j, r, "wait", r.plan, q)
      BY ONLY <3>1, <3>3, <3>4, <3>5, SurveyIs
    <3>7. QED
      BY <3>6 DEF SurveysTo
  <2>2. \/ /\ job' = [job EXCEPT ![j].cmds = <<Dialer!Do("dropVlan")>> \o t,
                                 ![j].mutated = TRUE]
           /\ chain' = chain
        \/ Dialer!Joined(j, t)
    BY <1>3 DEF Dialer!Succeeds
  <2>3. CASE /\ job' = [job EXCEPT ![j].cmds = <<Dialer!Do("dropVlan")>> \o t,
                                   ![j].mutated = TRUE]
             /\ chain' = chain
    <3> DEFINE u == <<Dialer!Do("dropVlan")>> \o t
               q == [r EXCEPT !.cmds = u, !.plan = r.plan, !.mutated = TRUE]
    <3>1. job' = [job EXCEPT ![j] = q]
      <4> HIDE DEF u, t
      <4>1. job' = [job EXCEPT ![j].cmds = u, ![j].mutated = TRUE]
        BY <2>3 DEF u
      <4>2. q = [r EXCEPT !.cmds = u, !.mutated = TRUE]
        BY <1>2 DEF JobRecords
      <4>3. QED
        BY <1>2, <4>1, <4>2
    <3>2. q = [r EXCEPT !.cmds = <<Dialer!Do("dropVlan")>> \o t, !.plan = r.plan,
                        !.mutated = TRUE]
      OBVIOUS
    <3> HIDE DEF q, u
    <3>3. QED
      BY <1>1, <1>3, <2>3, <3>1, <3>2, SurveyKeeps
  <2>4. CASE Dialer!Joined(j, t)
    <3> DEFINE u == <<Dialer!Do("wait")>> \o t
               P == Dialer!Members(Dialer!Batches \ {Dialer!Batch(j)})
               q == [r EXCEPT !.cmds = u, !.plan = P, !.mutated = TRUE]
    <3>1. job' = [job EXCEPT ![j] = q] /\ chain' = Append(chain, j)
      <4> HIDE DEF u, t, P
      <4>1. job' = [job EXCEPT ![j].cmds = u, ![j].plan = P] /\ chain' = Append(chain, j)
        BY <2>4 DEF Dialer!Joined, u, P
      <4>2. q = [r EXCEPT !.cmds = u, !.plan = P]
        BY <1>2, <2>1 DEF JobRecords
      <4>3. QED
        BY <1>2, <4>1, <4>2
    <3>2. q = [r EXCEPT !.cmds = <<Dialer!Do("wait")>> \o t, !.plan = P, !.mutated = TRUE]
      OBVIOUS
    <3> HIDE DEF q, u
    <3>3. QED
      BY <1>1, <1>3, <3>1, <3>2, SurveyKeeps
  <2>5. QED
    BY <2>2, <2>3, <2>4
<1>4. CASE c.do \notin {"survey", "dropVlan"}
  <2> DEFINE q == Advanced(j, r)
  <2>1. /\ job' = [job EXCEPT
                 ![j] = IF t = <<>> /\ r.state = "closing" THEN Dialer!NoJob
                        ELSE [r EXCEPT
                                !.cmds = t,
                                !.mutated = r.mutated \/ c.do = "delete",
                                !.reloaded = r.reloaded
                                  \/ (~Dialer!Creates(j) /\ c.do = "reloadFirewall")]]
        /\ chain' = IF Dialer!Holds(j) /\ (t = <<>> \/ Head(t).do = "reload")
                    THEN Tail(chain) ELSE chain
    BY <1>4 DEF Dialer!Succeeds
  <2>2. job' = [job EXCEPT ![j] = q]
    BY <2>1 DEF Advanced
  <2> HIDE DEF q
  <2>3. q = Advanced(j, job[j])
    BY DEF q
  <2>4. QED
    BY <1>1, <1>4, <2>1, <2>2, <2>3, AdvanceKeeps
<1>5. QED
  BY <1>3, <1>4

\* A command fails, or the verification does.
LEMMA FailsKeeps ==
  ASSUME PppoeInv, NEW j \in Dialer!Jobs, Dialer!Fails(j) \/ Dialer!Missed(j)
  PROVE  PppoeInv'
<1> DEFINE r == job[j]
           c == Head(r.cmds)
           q == Failed(r)
<1>1. /\ Dialer!Active(j) /\ Dialer!Aborted(j)
      /\ \/ /\ commandFailures' = commandFailures + 1
            /\ uciState' = uciState \/ uciState' = Dialer!Effect(j, c)
            /\ lasting' = (lasting \/ Dialer!Creates(j) \/ r.state = "closing")
         \/ /\ commandFailures' = commandFailures /\ lasting' = lasting
            /\ uciState' = uciState /\ c.do = "verify"
  BY DEF Dialer!Fails, Dialer!Missed, Dialer!counts, Dialer!Upcoming
<1>2. job' = [job EXCEPT ![j] = q]
  BY <1>1 DEF Dialer!Aborted, Failed, Dialer!Upcoming
<1>3. /\ chain' = IF Dialer!Holds(j) THEN Tail(chain) ELSE chain
      /\ UNCHANGED <<recorded, nextSeq, token, seen, deleting, made>>
  BY <1>1 DEF Dialer!Aborted
<1>4. q = Failed(job[j])
  OBVIOUS
<1> HIDE DEF q
<1>5. QED
  BY <1>1, <1>2, <1>3, <1>4, AbortKeeps

\* A step of one job beside the router.
LEMMA QuietKeeps ==
  ASSUME RecordsFit, JobsFit, OwnersFit, RangesFit, DeletionsFit, OwedFits, NotLasting,
         NEW j \in Dialer!Jobs, NEW q, Moves(j, q), job[j] # Dialer!NoJob,
         UNCHANGED <<uciState, recorded, nextSeq, token, seen, deleting, made, lasting,
                     commandFailures>>,
         job[j].state = "running", q.state = "running", q.from = job[j].from,
         \A i \in 0..(BatchSize - 1) : Through(q, i) => Through(job[j], i),
         OwesReload(j, job[j]) => OwesReload(j, q), OwesZone(j, job[j]) => OwesZone(j, q),
         Dialer!Creates(j) /\ Listed(q) => Listed(job[j])
  PROVE  /\ RecordsFit' /\ JobsFit' /\ OwnersFit' /\ RangesFit' /\ DeletionsFit' /\ OwedFits'
         /\ NotLasting' /\ Enlisted' \subseteq Enlisted
<1>1. RecordsFit'
  <2>1. /\ recorded' \in [Dialer!Batches -> 0..SeqLimit] /\ deleting' \subseteq Dialer!Batches
        /\ made' \subseteq Dialer!Batches /\ lasting' \in BOOLEAN /\ commandFailures' \in Nat
        /\ uciState' \in Routers
    BY DEF RecordsFit, Routers
  <2>2. QED
    BY <2>1, RecordsKeep
<1>2. JobsFit'
  BY JobsKeep
<1>3. OwnersFit'
  BY OwnersKeep
<1>4. RangesFit' /\ DeletionsFit'
  <2>1. \A s \in Dialer!Seqs : Own(j, s)
    BY DEF Own
  <2>2. QED
    BY <2>1, RangesKeep
<1>5. OwedFits'
  <2>1. Dialer!Sections' = Dialer!Sections
    BY DEF Dialer!Sections
  <2>2. QED
    BY <2>1, OwedKeeps
<1>6. NotLasting'
  BY DEF NotLasting
<1>7. Enlisted' \subseteq Enlisted
  BY EnlistedKeep
<1>8. QED
  BY <1>1, <1>2, <1>3, <1>4, <1>5, <1>6, <1>7

\* A job that is not in the firewall is none of those in the chain.
LEMMA OthersStay ==
  ASSUME RecordsFit, JobsFit, ChainFits, NEW j \in Dialer!Jobs, NEW q, Moves(j, q),
         ~InFirewall(j, job[j])
  PROVE  \A i \in 1..Len(chain) : job'[chain[i]] = job[chain[i]]
<1>1. \A i \in 1..Len(chain) : chain[i] \in Dialer!Jobs /\ chain[i] # j
  BY PlacesAre
<1>2. QED
  BY <1>1, JobsKeep

\* A job begins its next item.
LEMMA NextItemKeeps ==
  ASSUME PppoeInv, NEW j \in Dialer!Jobs, Dialer!NextItem(j)
  PROVE  PppoeInv'
<1> DEFINE r == job[j]
           q == Began(r)
<1>1. /\ RecordsFit /\ JobsFit /\ OwnersFit /\ RangesFit /\ DeletionsFit /\ OwedFits
      /\ ChainFits /\ MembersFit /\ NotLasting
  BY DEF PppoeInv
<1>2. /\ r.state = "running" /\ r.cmds = <<>> /\ r.items # <<>> /\ ~r.failed
      /\ UNCHANGED <<uciState, recorded, nextSeq, token, seen, deleting, made, lasting,
                     commandFailures>>
  BY DEF Dialer!NextItem, Dialer!counts
<1>3. r # Dialer!NoJob /\ JobFits(j, r) /\ r \in JobRecords /\ r.failed \in {FALSE}
  <2>1. r # Dialer!NoJob
    BY <1>2, RecordsAreJobs
  <2>2. JobFits(j, r) /\ r \in JobRecords
    BY <1>1, <2>1, RecordsAreJobs DEF JobsFit
  <2>3. r.failed \in BOOLEAN
    BY <2>2, FieldsAre
  <2>4. QED
    BY <1>2, <2>1, <2>2, <2>3
<1>4. BeginsTo(j, r, q)
  <2>1. q = Began(r)
    OBVIOUS
  <2> HIDE DEF q, r
  <2>2. QED
    BY ONLY <1>2, <1>3, <2>1, ItemIs
<1>5. /\ JobFits(j, q) /\ q # Dialer!NoJob /\ q.state = "running"
      /\ q.from = r.from /\ r.mutated = q.mutated /\ r.reloaded = q.reloaded
      /\ IF Head(Head(r.items)).do = "firewall"
         THEN Dialer!Creates(j) /\ Begun(q, {"wait"}) /\ ~Listed(q)
         ELSE ~InFirewall(j, q) /\ (Dialer!Creates(j) /\ Listed(q) => Listed(r))
      /\ ~Dialer!Creates(j) => ~Begun(q, {"reloadFirewall"})
      /\ \A i \in 0..(BatchSize - 1) : Through(q, i) => Through(r, i)
  <2> HIDE DEF q, r
  <2>1. QED
    BY <1>4 DEF BeginsTo
<1>6. IF Head(Head(r.items)).do = "firewall"
      THEN job' = [job EXCEPT ![j] = q] /\ chain' = Append(chain, j)
      ELSE job' = [job EXCEPT ![j] = q] /\ chain' = chain
  <2>1. job \in [Dialer!Jobs -> JobRecords \cup {Dialer!NoJob}]
    BY <1>1 DEF RecordsFit
  <2>2. CASE Head(Head(r.items)).do = "firewall"
    <3>1. job' = [job EXCEPT ![j] = [r EXCEPT !.items = Tail(r.items),
                                              !.cmds = <<Dialer!Do("wait")>>]]
          /\ chain' = Append(chain, j)
      BY <2>1, <2>2 DEF Dialer!NextItem
    <3>2. q = [r EXCEPT !.items = Tail(r.items), !.cmds = <<Dialer!Do("wait")>>]
      BY <2>2 DEF Began
    <3> HIDE DEF q
    <3>3. QED
      BY <2>2, <3>1, <3>2
  <2>3. CASE ~(Head(Head(r.items)).do = "firewall")
    <3>1. job' = [job EXCEPT ![j] = [r EXCEPT !.items = Tail(r.items),
                                              !.cmds = Head(r.items)]]
          /\ chain' = chain
      BY <2>1, <2>3 DEF Dialer!NextItem
    <3>2. q = [r EXCEPT !.items = Tail(r.items), !.cmds = Head(r.items)]
      BY <2>3 DEF Began
    <3> HIDE DEF q
    <3>3. QED
      BY <2>3, <3>1, <3>2
  <2>4. QED
    BY <2>2, <2>3
<1> HIDE DEF q
<1>7. Moves(j, q)
  BY <1>5, <1>6 DEF Moves
<1>8. ~InFirewall(j, r) /\ ~Begun(r, {"wait"})
  BY <1>2 DEF InFirewall, Begun
<1>9. /\ OwesReload(j, r) => OwesReload(j, q)
      /\ OwesZone(j, r) => OwesZone(j, q)
  <2>1. CASE Dialer!Creates(j)
    BY <1>2, <2>1 DEF OwesReload, OwesZone, Begun
  <2>2. CASE ~Dialer!Creates(j)
    <3> HIDE DEF r
    <3>1. QED
      BY <1>2, <1>3, <1>5, <2>2 DEF OwesReload, OwesZone
  <2>3. QED
    BY <2>1, <2>2
<1>10. Dialer!Creates(j) /\ Listed(q) => Listed(r)
  BY <1>5
<1> HIDE DEF r
<1>11. /\ RecordsFit' /\ JobsFit' /\ OwnersFit' /\ RangesFit' /\ DeletionsFit' /\ OwedFits'
       /\ NotLasting' /\ Enlisted' \subseteq Enlisted
  BY <1>1, <1>2, <1>3, <1>5, <1>7, <1>9, <1>10, QuietKeeps DEF r
<1>12. ChainFits' /\ MembersFit'
  <2>1. CASE Head(Head(r.items)).do = "firewall"
    <3>1. /\ chain' = Append(chain, j) /\ Dialer!Creates(j) /\ Begun(q, {"wait"})
      BY <1>5, <1>6, <2>1
    <3>2. ChainFits'
      BY <1>1, <1>5, <1>7, <1>8, <3>1, ChainGrows DEF r
    <3>3. MembersFit'
      BY <1>1, <1>2, <1>3, <1>7, <1>8, <1>11, <3>1, MembersJoin DEF r
    <3>4. QED
      BY <3>2, <3>3
  <2>2. CASE ~(Head(Head(r.items)).do = "firewall")
    <3>1. chain' = chain /\ ~InFirewall(j, q)
      BY <1>5, <1>6, <2>2
    <3>2. ChainFits'
      BY <1>1, <1>7, <1>8, <3>1, ChainStays DEF r
    <3>3. \A i \in 1..Len(chain) : job'[chain[i]] = job[chain[i]]
      BY <1>1, <1>7, <1>8, OthersStay DEF r
    <3>4. MembersFit'
      BY <1>1, <1>2, <1>11, <3>1, <3>3, MembersKeep
    <3>5. QED
      BY <3>2, <3>4
  <2>3. QED
    BY <2>1, <2>2
<1>13. QED
  BY <1>11, <1>12 DEF PppoeInv

\* A user cancels a job: it notices between two items.
LEMMA CancelKeeps ==
  ASSUME PppoeInv, NEW j \in Dialer!Jobs, Dialer!Cancel(j)
  PROVE  PppoeInv'
<1> DEFINE r == job[j]
           q == [r EXCEPT !.cancelled = TRUE]
<1>1. /\ RecordsFit /\ JobsFit /\ OwnersFit /\ RangesFit /\ DeletionsFit /\ OwedFits
      /\ ChainFits /\ MembersFit /\ NotLasting
  BY DEF PppoeInv
<1>2. /\ r.state = "running" /\ chain' = chain
      /\ UNCHANGED <<uciState, recorded, nextSeq, token, seen, deleting, made, lasting,
                     commandFailures>>
  BY DEF Dialer!Cancel
<1>3. r # Dialer!NoJob /\ JobFits(j, r) /\ r \in JobRecords
  <2>1. r # Dialer!NoJob
    BY <1>2, RecordsAreJobs
  <2>2. QED
    BY <1>1, <2>1, RecordsAreJobs DEF JobsFit
<1>4. job' = [job EXCEPT ![j] = q]
  <2>1. job \in [Dialer!Jobs -> JobRecords \cup {Dialer!NoJob}]
    BY <1>1 DEF RecordsFit
  <2>2. QED
    BY <2>1 DEF Dialer!Cancel
<1>5. /\ q \in JobRecords /\ q.state = r.state /\ q.from = r.from /\ q.items = r.items
      /\ q.cmds = r.cmds /\ q.plan = r.plan /\ q.failed = r.failed
      /\ q.mutated = r.mutated /\ q.reloaded = r.reloaded
  <2>1. q \in JobRecords
    BY <1>3 DEF JobRecords
  <2>2. /\ q.state = r.state /\ q.from = r.from /\ q.items = r.items
        /\ q.cmds = r.cmds /\ q.plan = r.plan /\ q.failed = r.failed
        /\ q.mutated = r.mutated /\ q.reloaded = r.reloaded
    BY <1>3 DEF JobRecords
  <2>3. QED
    BY <2>1, <2>2
<1> HIDE DEF q, r
<1>6. Left(q) = Left(r)
  BY <1>5 DEF Left
<1>7. JobFits(j, q) /\ q # Dialer!NoJob
  <2>1. Turn(j, r, Head(r.cmds), Tail(r.cmds)) => Turn(j, q, Head(r.cmds), Tail(r.cmds))
    BY <1>5, <1>6 DEF Turn, CreateTurn, DeleteTurn
  <2>2. Noted(r) => Noted(q)
    BY <1>5, <1>6 DEF Noted
  <2>3. JobFits(j, q)
    BY <1>3, <1>5, <1>6, <2>1, <2>2 DEF JobFits
  <2>4. QED
    BY <1>5, <2>3, RecordsAreJobs
<1>8. Moves(j, q)
  BY <1>4, <1>7 DEF Moves
<1>9. \A v : Begun(q, v) <=> Begun(r, v)
  BY <1>5 DEF Begun
<1>10. InFirewall(j, q) <=> InFirewall(j, r)
  BY <1>3, <1>5, <1>7, <1>9 DEF InFirewall
<1>11. /\ OwesReload(j, r) => OwesReload(j, q)
       /\ OwesZone(j, r) => OwesZone(j, q)
  BY <1>5, <1>7, <1>9 DEF OwesReload, OwesZone
<1>12. Listed(q) => Listed(r)
  BY <1>3, <1>5, <1>6 DEF Listed
<1>13. \A i \in 0..(BatchSize - 1) : Through(q, i) => Through(r, i)
  BY <1>5, <1>6 DEF Through
<1>14. /\ RecordsFit' /\ JobsFit' /\ OwnersFit' /\ RangesFit' /\ DeletionsFit' /\ OwedFits'
       /\ NotLasting' /\ Enlisted' \subseteq Enlisted
  BY <1>1, <1>2, <1>3, <1>5, <1>8, <1>11, <1>12, <1>13, QuietKeeps DEF r
<1>15. ChainFits'
  BY <1>1, <1>2, <1>8, <1>9, <1>10, ChainStays DEF r
<1>16. MembersFit'
  <2>1. \A i \in 1..Len(chain) : /\ job'[chain[i]].cmds = job[chain[i]].cmds
                                 /\ job'[chain[i]].plan = job[chain[i]].plan
    <3>1. job'[j] = q /\ \A i \in Dialer!Jobs : i # j => job'[i] = job[i]
      BY <1>1, <1>8, JobsKeep
    <3>2. \A i \in 1..Len(chain) : chain[i] \in Dialer!Jobs
      BY <1>1, PlacesAre
    <3>3. QED
      BY <1>5, <3>1, <3>2 DEF r
  <2>2. QED
    BY <1>1, <1>2, <1>14, <2>1, MembersKeep
<1>17. QED
  BY <1>14, <1>15, <1>16 DEF PppoeInv

\* A job has its turn in the chain.
LEMMA GrantedKeeps ==
  ASSUME PppoeInv, NEW j \in Dialer!Jobs, Dialer!Granted(j)
  PROVE  PppoeInv'
<1> DEFINE r == job[j]
           P == IF Dialer!Creates(j) THEN Dialer!Members(Dialer!Batches) ELSE job[j].plan
           q == [r EXCEPT !.plan = P, !.cmds = Dialer!Rebuild(j, P) \o Tail(r.cmds)]
<1>1. /\ RecordsFit /\ JobsFit /\ OwnersFit /\ RangesFit /\ DeletionsFit /\ OwedFits
      /\ ChainFits /\ MembersFit /\ NotLasting
  BY DEF PppoeInv
<1>2. /\ chain # <<>> /\ Head(chain) = j /\ Head(r.cmds).do = "wait" /\ chain' = chain
      /\ UNCHANGED <<uciState, recorded, nextSeq, token, seen, deleting, made, lasting,
                     commandFailures>>
  BY DEF Dialer!Granted, Dialer!Upcoming, Dialer!counts
<1>3. r # Dialer!NoJob /\ JobFits(j, r) /\ r \in JobRecords /\ r.cmds # <<>>
      /\ InFirewall(j, r) /\ Len(chain) \in Nat /\ 1 \in 1..Len(chain) /\ chain[1] = j
  <2>1. Len(chain) \in Nat /\ 1 \in 1..Len(chain) /\ chain[1] = j
    BY <1>1, <1>2, HeadIs
  <2>2. InFirewall(j, r) /\ r # Dialer!NoJob
    BY <1>1, <2>1, PlacesAre
  <2>3. JobFits(j, r) /\ r \in JobRecords
    BY <1>1, <2>2, RecordsAreJobs DEF JobsFit
  <2>4. r.cmds # <<>>
    BY <2>2 DEF InFirewall, Begun
  <2>5. QED
    BY <2>1, <2>2, <2>3, <2>4
<1>4. P \in SUBSET Dialer!Seqs /\ (Dialer!Creates(j) => P # {})
      /\ (Dialer!Creates(j) => Members(Dialer!Batch(j)) \subseteq P)
  <2>1. r.plan \subseteq Dialer!Seqs
    BY <1>3, FieldsAre
  <2>2. Dialer!Members(Dialer!Batches) \subseteq Dialer!Seqs
    BY <1>1 DEF Dialer!Members, RangesFit
  <2>3. /\ Dialer!Batch(j) \in Dialer!Batches /\ recorded[Dialer!Batch(j)] # 0
        /\ recorded[Dialer!Batch(j)] \in Nat
    BY <1>1, <1>3, JobRanges
  <2>4. Members(Dialer!Batch(j)) \subseteq Dialer!Members(Dialer!Batches)
    BY <2>3, PlansAre
  <2>5. recorded[Dialer!Batch(j)] \in Members(Dialer!Batch(j))
    BY <2>3, ChunksAre DEF Members
  <2>6. QED
    BY <2>1, <2>2, <2>4, <2>5
<1>5. job' = [job EXCEPT ![j] = q]
  <2>1. job \in [Dialer!Jobs -> JobRecords \cup {Dialer!NoJob}]
    BY <1>1 DEF RecordsFit
  <2> HIDE DEF P
  <2>2. job' = [job EXCEPT ![j].plan = P, ![j].cmds = Dialer!Rebuild(j, P) \o Tail(r.cmds)]
    BY <1>3, <2>1 DEF Dialer!Granted, P, JobRecords
  <2>3. QED
    BY <2>1, <2>2
<1>6. GrantsTo(j, r, P, q)
  <2>1. q = [r EXCEPT !.plan = P, !.cmds = Dialer!Rebuild(j, P) \o Tail(r.cmds)]
    OBVIOUS
  <2> HIDE DEF q, r, P
  <2>2. QED
    BY ONLY <1>2, <1>3, <1>4, <2>1, GrantIs
<1> HIDE DEF q, P
<1>7. /\ JobFits(j, q) /\ q # Dialer!NoJob /\ q.state = "running" /\ r.state = "running"
      /\ q.from = r.from /\ q.plan = P /\ q.mutated = r.mutated /\ q.reloaded = r.reloaded
      /\ q.cmds # <<>> /\ Begun(q, {"clear"}) /\ (Dialer!Creates(j) => ~Listed(q))
      /\ \A i \in 0..(BatchSize - 1) : Through(q, i) => Through(r, i)
  BY <1>6 DEF GrantsTo
<1>8. Moves(j, q)
  BY <1>5, <1>7 DEF Moves
<1>9. /\ Begun(r, {"wait"}) /\ ~Begun(r, {"reload"}) /\ ~Begun(r, {"add", "reloadFirewall"})
      /\ ~Begun(r, {"add"})
      /\ ~Begun(q, {"reloadFirewall"}) /\ Begun(q, {"wait", "clear", "add"})
  BY <1>2, <1>3, <1>7 DEF Begun
<1>10. InFirewall(j, q)
  BY <1>7, <1>9 DEF InFirewall
<1> HIDE DEF r
<1>11. /\ OwesReload(j, r) => OwesReload(j, q)
       /\ OwesZone(j, r) => OwesZone(j, q)
  BY <1>3, <1>7, <1>9 DEF OwesReload, OwesZone
<1>12. /\ RecordsFit' /\ JobsFit' /\ OwnersFit' /\ RangesFit' /\ DeletionsFit' /\ OwedFits'
       /\ NotLasting' /\ Enlisted' \subseteq Enlisted
  BY <1>1, <1>2, <1>3, <1>7, <1>8, <1>11, QuietKeeps DEF r
<1>13. ChainFits'
  BY <1>1, <1>2, <1>3, <1>8, <1>10, ChainStays DEF r
<1>14. MembersFit'
  <2>1. ASSUME commandFailures = 0, NEW b \in Enlisted
        PROVE  Members(b) \subseteq uciState'.zone /\ Members(b) \subseteq q.plan
    <3>1. ~Adding
      BY <1>2, <1>9 DEF Adding, r
    <3>2. Members(b) \subseteq uciState.zone
      BY <1>1, <2>1, <3>1 DEF MembersFit
    <3>3. b \in Dialer!Batches
      BY DEF Enlisted
    <3>4. CASE Dialer!Creates(j)
      <4>1. recorded[b] # 0
        BY <1>1, <3>3, EnlistedAre
      <4>2. Members(b) \subseteq Dialer!Members(Dialer!Batches)
        BY <3>3, <4>1, PlansAre
      <4>3. QED
        BY <1>2, <1>7, <3>2, <3>4, <4>2 DEF P
    <3>5. CASE ~Dialer!Creates(j)
      <4>1. Members(b) \subseteq job[chain[1]].plan
        BY <1>1, <1>3, <2>1, <3>5 DEF MembersFit
      <4>2. QED
        BY <1>2, <1>3, <1>7, <3>2, <3>5, <4>1 DEF P
    <3>6. QED
      BY <3>4, <3>5
  <2>2. ~Dialer!Creates(j) => q.plan = job[j].plan
    BY <1>7 DEF P
  <2>3. Dialer!Creates(j) => /\ Members(Dialer!Batch(j)) \subseteq q.plan
                             /\ ~Begun(q, {"reloadFirewall"})
    BY <1>4, <1>7, <1>9
  <2>4. QED
    BY <1>1, <1>2, <1>8, <1>12, <2>1, <2>2, <2>3, MembersTurn
<1>15. QED
  BY <1>12, <1>13, <1>14 DEF PppoeInv

\* Job j has ended as q: it is gone, or does its last reload.
EndsTo(j, q) ==
  /\ Moves(j, q) /\ ~InFirewall(j, q)
  /\ q = Dialer!NoJob \/ (q.state = "closing" /\ q.from = job[j].from)
  /\ OwesReload(j, job[j]) => OwesReload(j, q)
  /\ OwesZone(j, job[j]) => OwesZone(j, q)

\* A creation ends: its batch has been listed before it is made.
LEMMA CreationEnds ==
  ASSUME PppoeInv, NEW j \in Dialer!Jobs, Dialer!Ends(j), Dialer!Creates(j)
  PROVE  PppoeInv'
<1> DEFINE r == job[j]
           b == Dialer!Batch(j)
<1>1. /\ RecordsFit /\ JobsFit /\ OwnersFit /\ RangesFit /\ DeletionsFit /\ OwedFits
      /\ ChainFits /\ MembersFit /\ NotLasting
  BY DEF PppoeInv
<1>2. /\ r.state = "running" /\ r.cmds = <<>> /\ job' = [job EXCEPT ![j] = Dialer!NoJob]
      /\ r.items = <<>> \/ r.failed \/ r.cancelled
      /\ \/ made' = made
         \/ made' = made \cup {b} /\ ~r.failed /\ ~r.cancelled /\ recorded[b] # 0
      /\ UNCHANGED <<uciState, recorded, nextSeq, token, seen, chain, deleting, lasting,
                     commandFailures>>
  BY DEF Dialer!Ends, Dialer!counts
<1>3. r # Dialer!NoJob /\ JobFits(j, r)
  <2>1. r # Dialer!NoJob
    BY <1>2, RecordsAreJobs
  <2>2. QED
    BY <1>1, <2>1 DEF JobsFit
<1>4. /\ b \in Dialer!Batches /\ j = Creation(b) /\ b \notin made
      /\ job[Deletion(b)] = Dialer!NoJob /\ Creation(b) # Deletion(b)
  <2>1. b \in Dialer!Batches /\ b \notin made /\ job[Deletion(b)] = Dialer!NoJob
    BY <1>1, <1>3, JobRanges
  <2>2. j = Creation(b) /\ Creation(b) # Deletion(b)
    BY JobsAre DEF Creation, Deletion
  <2>3. QED
    BY <2>1, <2>2
<1>5. Moves(j, Dialer!NoJob)
  BY <1>2 DEF Moves
<1>6. /\ ~InFirewall(j, r) /\ ~Begun(r, {"wait"}) /\ ~InFirewall(j, Dialer!NoJob)
      /\ ~OwesReload(j, r) /\ ~OwesZone(j, r)
  BY <1>2 DEF InFirewall, Begun, OwesReload, OwesZone
<1>7. made' \in SUBSET Dialer!Batches
  BY <1>1, <1>2, <1>4 DEF RecordsFit
<1>8. r.items = <<>> => Left(r) = 0
  BY EmptySeq DEF Left
<1> HIDE DEF r, b
<1>9. RecordsFit'
  <2>1. /\ recorded' \in [Dialer!Batches -> 0..SeqLimit] /\ deleting' \subseteq Dialer!Batches
        /\ lasting' \in BOOLEAN /\ commandFailures' \in Nat /\ uciState' \in Routers
    BY <1>1, <1>2 DEF RecordsFit, Routers
  <2>2. QED
    BY <1>1, <1>2, <1>5, <1>7, <2>1, RecordsKeep
<1>10. /\ JobsFit' /\ job'[j] = Dialer!NoJob
       /\ \A i \in Dialer!Jobs : i # j => job'[i] = job[i]
  BY <1>1, <1>5, JobsKeep
<1>11. OwnersFit'
  <2>1. ASSUME NEW x \in Dialer!Batches
        PROVE  /\ \A i \in {Creation(x), Deletion(x)} :
                    job'[i] # Dialer!NoJob => recorded[x] = job'[i].from /\ x \notin made'
               /\ job'[Creation(x)] = Dialer!NoJob \/ job'[Deletion(x)] = Dialer!NoJob
               /\ x \in made' => recorded[x] # 0
    <3>1. /\ Creation(x) \in Dialer!Jobs /\ Deletion(x) \in Dialer!Jobs
      BY JobsAre
    <3>2. CASE x = b
      BY <1>2, <1>4, <1>10, <3>1, <3>2
    <3>3. CASE x # b
      <4>1. Creation(x) # j /\ Deletion(x) # j
        BY <1>4, <3>3 DEF Creation, Deletion
      <4>2. job'[Creation(x)] = job[Creation(x)] /\ job'[Deletion(x)] = job[Deletion(x)]
        BY <1>10, <3>1, <4>1
      <4>3. x \in made' => x \in made
        BY <1>2, <3>3
      <4>4. QED
        BY <1>1, <4>2, <4>3 DEF OwnersFit
    <3>4. QED
      BY <3>2, <3>3
  <2>2. recorded' = recorded
    BY <1>2
  <2>3. QED
    BY <2>1, <2>2 DEF OwnersFit
<1>12. RangesFit' /\ DeletionsFit'
  <2>1. \A s \in Dialer!Seqs : Own(j, s)
    BY <1>2 DEF Own
  <2>2. QED
    BY <1>1, <1>2, <1>5, <2>1, RangesKeep
<1>13. OwedFits'
  <2>1. Dialer!Sections' = Dialer!Sections
    BY <1>2 DEF Dialer!Sections
  <2>2. QED
    BY <1>1, <1>2, <1>5, <1>6, <2>1, OwedKeeps DEF r
<1>14. ChainFits'
  BY <1>1, <1>2, <1>5, <1>6, ChainStays DEF r
<1>15. Enlisted' \subseteq Enlisted
  <2>1. ASSUME NEW x \in Dialer!Batches, x \in made' \/ Listed(job'[Creation(x)])
        PROVE  x \in Enlisted
    <3>1. CASE x \in made
      BY <3>1 DEF Enlisted
    <3>2. CASE x \notin made /\ x \in made'
      <4>1. x = b /\ ~r.failed /\ r.items = <<>>
        BY <1>2, <3>2
      <4>2. Listed(r)
        BY <1>3, <1>8, <4>1 DEF Listed
      <4>3. QED
        BY <1>4, <4>1, <4>2 DEF Enlisted, r
    <3>3. CASE Listed(job'[Creation(x)])
      <4>1. Creation(x) \in Dialer!Jobs
        BY JobsAre
      <4>2. Creation(x) # j
        BY <1>10, <3>3 DEF Listed
      <4>3. QED
        BY <1>10, <3>3, <4>1, <4>2 DEF Enlisted
    <3>4. QED
      BY <2>1, <3>1, <3>2, <3>3
  <2>2. QED
    BY <2>1 DEF Enlisted
<1>16. MembersFit'
  <2>1. \A i \in 1..Len(chain) : job'[chain[i]] = job[chain[i]]
    BY <1>1, <1>5, <1>6, OthersStay DEF r
  <2>2. QED
    BY <1>1, <1>2, <1>15, <2>1, MembersKeep
<1>17. NotLasting'
  BY <1>1, <1>2 DEF NotLasting
<1>18. QED
  BY <1>9, <1>10, <1>11, <1>12, <1>13, <1>14, <1>16, <1>17 DEF PppoeInv

\* What a deletion that ends leaves: after all its items nothing is owed and its sections
\* are gone, after anything else it may have one more reload to do.
LEMMA DeletionEndsTo ==
  ASSUME PppoeInv, NEW j \in Dialer!Jobs, Dialer!Ends(j), ~Dialer!Creates(j)
  PROVE  /\ job[j] # Dialer!NoJob /\ job[j].state = "running" /\ job[j].cmds = <<>>
         /\ \E q : EndsTo(j, q)
         /\ \/ recorded' = recorded
            \/ /\ recorded' = [recorded EXCEPT ![Dialer!Batch(j)] = 0]
               /\ job'[j] = Dialer!NoJob
               /\ \A i \in 0..(BatchSize - 1) : Through(job[j], i)
<1> DEFINE r == job[j]
           ends == [r EXCEPT !.state = "closing",
                             !.cmds = <<Dialer!Do("reload"), Dialer!Do("reloadFirewall")>>]
<1>1. RecordsFit /\ JobsFit
  BY DEF PppoeInv
<1>2. /\ r.state = "running" /\ r.cmds = <<>>
      /\ r.items = <<>> \/ r.failed \/ r.cancelled
      /\ \/ recorded' = recorded
         \/ recorded' = [recorded EXCEPT ![Dialer!Batch(j)] = 0] /\ ~r.failed /\ ~r.cancelled
      /\ job' = IF r.mutated /\ ~r.reloaded
                THEN [job EXCEPT ![j].state = "closing",
                                 ![j].cmds = <<Dialer!Do("reload"),
                                               Dialer!Do("reloadFirewall")>>]
                ELSE [job EXCEPT ![j] = Dialer!NoJob]
  BY DEF Dialer!Ends
<1>3. r # Dialer!NoJob /\ JobFits(j, r) /\ r \in JobRecords
  <2>1. r # Dialer!NoJob
    BY <1>2, RecordsAreJobs
  <2>2. QED
    BY <1>1, <2>1, RecordsAreJobs DEF JobsFit
<1>4. job' = IF r.mutated /\ ~r.reloaded THEN [job EXCEPT ![j] = ends]
             ELSE [job EXCEPT ![j] = Dialer!NoJob]
  <2>1. job \in [Dialer!Jobs -> JobRecords \cup {Dialer!NoJob}]
    BY <1>1 DEF RecordsFit
  <2>2. QED
    BY <1>2, <2>1
<1>5. /\ ends.state = "closing" /\ ends.from = r.from /\ ends.items = r.items
      /\ ends.cmds = <<Dialer!Do("reload"), Dialer!Do("reloadFirewall")>>
  BY <1>3 DEF JobRecords
<1>6. ends \in JobRecords
  <2>1. <<Dialer!Do("reload"), Dialer!Do("reloadFirewall")>> \in Seq(Commands)
    <3>1. Dialer!Do("reload") \in Commands /\ Dialer!Do("reloadFirewall") \in Commands
      BY CommandsAre DEF Verbs
    <3>2. QED
      BY <3>1
  <2> DEFINE new == <<Dialer!Do("reload"), Dialer!Do("reloadFirewall")>>
  <2> HIDE DEF new, r
  <2>2. new \in Seq(Commands)
    BY <2>1 DEF new
  <2>3. [r EXCEPT !.state = "closing", !.cmds = new] \in JobRecords
    BY <1>3, <2>2 DEF JobRecords
  <2>4. QED
    BY <2>3 DEF new
<1> HIDE DEF ends, r
<1>7. /\ ends.cmds # <<>> /\ Head(ends.cmds) = Dialer!Do("reload")
      /\ Tail(ends.cmds) = <<Dialer!Do("reloadFirewall")>>
      /\ Begun(ends, {"reload"}) /\ Left(ends) = Left(r)
  <2>1. /\ ends.cmds # <<>> /\ Head(ends.cmds) = Dialer!Do("reload")
        /\ Tail(ends.cmds) = <<Dialer!Do("reloadFirewall")>>
    BY <1>5, ListsAre
  <2>2. QED
    BY <1>5, <2>1, CommandsAre DEF Begun, Left
<1>8. JobFits(j, ends) /\ ends # Dialer!NoJob
  <2>1. Turn(j, ends, Head(ends.cmds), Tail(ends.cmds))
    BY <1>5, <1>7 DEF Turn, ReloadTurn
  <2>2. Noted(ends)
    BY <1>5 DEF Noted
  <2>3. JobFits(j, ends)
    BY <1>3, <1>5, <1>6, <1>7, <2>1, <2>2 DEF JobFits
  <2>4. QED
    BY <1>6, <2>3, RecordsAreJobs
<1>9. \E q : EndsTo(j, q)
  <2>1. CASE r.mutated /\ ~r.reloaded
    <3>1. Moves(j, ends)
      BY <1>4, <1>8, <2>1 DEF Moves
    <3>2. ~InFirewall(j, ends)
      BY <1>5 DEF InFirewall
    <3>3. OwesReload(j, ends) /\ OwesZone(j, ends)
      BY <1>5, <1>7, <1>8 DEF OwesReload, OwesZone
    <3>4. EndsTo(j, ends)
      BY <1>5, <3>1, <3>2, <3>3 DEF EndsTo, r
    <3>5. QED
      BY <3>4
  <2>2. CASE ~(r.mutated /\ ~r.reloaded)
    <3>1. Moves(j, Dialer!NoJob)
      BY <1>4, <2>2 DEF Moves
    <3>2. ~InFirewall(j, Dialer!NoJob)
      BY DEF InFirewall
    <3>3. ~OwesReload(j, r) /\ ~OwesZone(j, r)
      BY <1>2, <2>2 DEF OwesReload, OwesZone
    <3>4. EndsTo(j, Dialer!NoJob)
      BY <3>1, <3>2, <3>3 DEF EndsTo, r
    <3>5. QED
      BY <3>4
  <2>3. QED
    BY <2>1, <2>2
<1>10. ASSUME ~r.failed /\ ~r.cancelled
       PROVE  job'[j] = Dialer!NoJob /\ \A i \in 0..(BatchSize - 1) : Through(r, i)
  <2>1. Left(r) = 0
    BY <1>2, <1>10, EmptySeq DEF Left
  <2>2. BatchSize \in Nat
    BY DialerAssumption
  <2>3. \A i \in 0..(BatchSize - 1) : i + 0 <= BatchSize
    BY <2>2
  <2>4. \A i \in 0..(BatchSize - 1) : Through(r, i)
    BY <1>2, <1>10, <2>1, <2>3 DEF Through
  <2>5. r.reloaded
    BY <1>2, <1>3, <1>10, <2>1 DEF JobFits, Noted
  <2>6. job' = [job EXCEPT ![j] = Dialer!NoJob]
    BY <1>4, <2>5
  <2>7. job'[j] = Dialer!NoJob
    BY <1>1, <2>6 DEF RecordsFit
  <2>8. QED
    BY <2>4, <2>7
<1>11. QED
  BY <1>2, <1>3, <1>9, <1>10 DEF r

\* A deletion ends: its record goes away when its sections have.
LEMMA DeletionEnds ==
  ASSUME PppoeInv, NEW j \in Dialer!Jobs, Dialer!Ends(j), ~Dialer!Creates(j)
  PROVE  PppoeInv'
<1> DEFINE r == job[j]
           b == Dialer!Batch(j)
<1>1. /\ RecordsFit /\ JobsFit /\ OwnersFit /\ RangesFit /\ DeletionsFit /\ OwedFits
      /\ ChainFits /\ MembersFit /\ NotLasting
  BY DEF PppoeInv
<1>2. /\ UNCHANGED <<uciState, made, nextSeq, token, seen, chain, lasting, commandFailures>>
      /\ deleting' = deleting \ {b}
  BY DEF Dialer!Ends, Dialer!counts
<1>3. /\ r # Dialer!NoJob /\ r.state = "running" /\ r.cmds = <<>>
      /\ \/ recorded' = recorded
         \/ /\ recorded' = [recorded EXCEPT ![b] = 0]
            /\ job'[j] = Dialer!NoJob
            /\ \A i \in 0..(BatchSize - 1) : Through(r, i)
  BY DeletionEndsTo
<1>4. PICK q : EndsTo(j, q)
  BY DeletionEndsTo
<1> HIDE DEF r, b
<1>5. /\ Moves(j, q) /\ ~InFirewall(j, q)
      /\ q = Dialer!NoJob \/ (q.state = "closing" /\ q.from = r.from)
      /\ OwesReload(j, r) => OwesReload(j, q)
      /\ OwesZone(j, r) => OwesZone(j, q)
  BY <1>4 DEF EndsTo, r
<1>6. /\ b \in Dialer!Batches /\ j = Deletion(b) /\ b \notin made /\ recorded[b] = r.from
      /\ job[Creation(b)] = Dialer!NoJob /\ Creation(b) # Deletion(b)
      /\ r.from \in Nat
  <2>1. /\ b \in Dialer!Batches /\ b \notin made /\ job[Creation(b)] = Dialer!NoJob
        /\ recorded[b] = r.from /\ r.from \in Nat
    BY <1>1, <1>3, JobRanges DEF r, b
  <2>2. j = Deletion(b) /\ Creation(b) # Deletion(b)
    BY JobsAre DEF Creation, Deletion, b
  <2>3. QED
    BY <2>1, <2>2
<1>7. ~InFirewall(j, r) /\ ~Begun(r, {"wait"})
  BY <1>3 DEF InFirewall, Begun
<1>8. /\ JobsFit' /\ job'[j] = q
      /\ \A i \in Dialer!Jobs : i # j => job'[i] = job[i]
  BY <1>1, <1>5, JobsKeep
<1>9. recorded' \in [Dialer!Batches -> 0..SeqLimit]
      /\ \A x \in Dialer!Batches : x # b => recorded'[x] = recorded[x]
  <2>1. recorded \in [Dialer!Batches -> 0..SeqLimit] /\ 0 \in 0..SeqLimit
    BY <1>1, DialerAssumption DEF RecordsFit
  <2>2. QED
    BY <1>3, <1>6, <2>1
<1>10. RecordsFit'
  <2>1. /\ deleting' \subseteq Dialer!Batches /\ made' \subseteq Dialer!Batches
        /\ lasting' \in BOOLEAN /\ commandFailures' \in Nat /\ uciState' \in Routers
    BY <1>1, <1>2 DEF RecordsFit, Routers
  <2>2. QED
    BY <1>1, <1>2, <1>5, <1>9, <2>1, RecordsKeep
<1>11. OwedFits'
  <2>1. Dialer!Sections' = Dialer!Sections
    BY <1>2 DEF Dialer!Sections
  <2>2. QED
    BY <1>1, <1>2, <1>5, <2>1, OwedKeeps DEF r
<1>12. ChainFits'
  BY <1>1, <1>2, <1>5, <1>7, ChainStays DEF r
<1>13. MembersFit'
  <2>1. \A i \in 1..Len(chain) : job'[chain[i]] = job[chain[i]]
    BY <1>1, <1>5, <1>7, OthersStay DEF r
  <2>2. Enlisted' \subseteq Enlisted
    BY <1>1, <1>2, <1>5, EnlistedKeep
  <2>3. ASSUME NEW x \in Dialer!Batches, x \in Enlisted \/ job[Creation(x)] # Dialer!NoJob
        PROVE  recorded'[x] = recorded[x]
    <3>1. x # b
      BY <1>6, <2>3 DEF Enlisted, Listed
    <3>2. QED
      BY <1>9, <3>1
  <2>4. QED
    BY <1>1, <1>2, <2>1, <2>2, <2>3, MembersKeep
<1>14. NotLasting'
  BY <1>1, <1>2 DEF NotLasting
<1>15. CASE recorded' = recorded
  <2>1. OwnersFit'
    BY <1>1, <1>2, <1>3, <1>5, <1>15, OwnersKeep DEF r
  <2>2. RangesFit' /\ DeletionsFit'
    <3>1. \A s \in Dialer!Seqs : Own(j, s)
      BY <1>2 DEF Own
    <3>2. QED
      BY <1>1, <1>2, <1>5, <1>15, <3>1, RangesKeep
  <2>3. QED
    BY <1>8, <1>10, <1>11, <1>12, <1>13, <1>14, <2>1, <2>2 DEF PppoeInv
<1>16. CASE /\ recorded' = [recorded EXCEPT ![b] = 0] /\ job'[j] = Dialer!NoJob
            /\ \A i \in 0..(BatchSize - 1) : Through(r, i)
  <2>0. recorded'[b] = 0
    BY <1>1, <1>6, <1>16 DEF RecordsFit
  <2>1. OwnersFit'
    <3>1. ASSUME NEW x \in Dialer!Batches
          PROVE  /\ \A i \in {Creation(x), Deletion(x)} :
                      job'[i] # Dialer!NoJob => recorded'[x] = job'[i].from /\ x \notin made
                 /\ job'[Creation(x)] = Dialer!NoJob \/ job'[Deletion(x)] = Dialer!NoJob
                 /\ x \in made => recorded'[x] # 0
      <4>1. Creation(x) \in Dialer!Jobs /\ Deletion(x) \in Dialer!Jobs
        BY JobsAre
      <4>2. CASE x = b
        <5>1. job'[Creation(x)] = Dialer!NoJob /\ job'[Deletion(x)] = Dialer!NoJob
          BY <1>6, <1>8, <1>16, <4>1, <4>2
        <5>2. QED
          BY <1>6, <4>2, <5>1
      <4>3. CASE x # b
        <5>1. Creation(x) # j /\ Deletion(x) # j
          BY <1>6, <4>3 DEF Creation, Deletion
        <5>2. job'[Creation(x)] = job[Creation(x)] /\ job'[Deletion(x)] = job[Deletion(x)]
          BY <1>8, <4>1, <5>1
        <5>3. QED
          BY <1>1, <1>9, <4>3, <5>2 DEF OwnersFit
      <4>4. QED
        BY <4>2, <4>3
    <3>2. QED
      BY <1>2, <3>1 DEF OwnersFit
  <2>2. DeletionsFit'
    <3>1. ASSUME NEW x \in Dialer!Batches, job'[Deletion(x)] # Dialer!NoJob
          PROVE  job'[Deletion(x)] = job[Deletion(x)]
      BY <1>8, <1>16, <3>1, JobsAre
    <3>2. QED
      BY <1>1, <1>2, <3>1 DEF DeletionsFit
  <2>3. \A s \in Dialer!Chunks(recorded[b]) : uciState.uci[s] = Dialer!None
    <3>1. \A i \in 0..(BatchSize - 1) : uciState.uci[r.from + i] = Dialer!None
      BY <1>1, <1>3, <1>6, <1>16 DEF DeletionsFit, r
    <3>2. QED
      BY <1>6, <3>1, ChunksAre
  <2>4. Dialer!RangesAreApart'
    <3>1. ASSUME NEW x \in Dialer!Batches, NEW y \in Dialer!Batches, x # y,
                 recorded'[x] # 0, recorded'[y] # 0
          PROVE  Dialer!Chunks(recorded'[x]) \cap Dialer!Chunks(recorded'[y]) = {}
      <4>1. recorded'[x] = recorded[x] /\ recorded'[y] = recorded[y]
        BY <1>9, <2>0, <3>1
      <4>2. QED
        BY <1>1, <3>1, <4>1 DEF RangesFit, Dialer!RangesAreApart
    <3>2. ASSUME NEW x \in Dialer!Batches, recorded'[x] # 0
          PROVE  \A s \in Dialer!Chunks(recorded'[x]) : uciState'.uci[s] \in {Dialer!None, x}
      <4>1. recorded'[x] = recorded[x]
        BY <1>9, <2>0, <3>2
      <4>2. QED
        BY <1>1, <1>2, <3>2, <4>1 DEF RangesFit, Dialer!RangesAreApart
    <3>3. QED
      BY <3>1, <3>2 DEF Dialer!RangesAreApart, Dialer!Chunks
  <2>5. Dialer!SectionsAreRecorded'
    <3>1. ASSUME NEW s \in Dialer!Seqs, uciState.uci[s] \in Dialer!Batches
          PROVE  /\ recorded'[uciState.uci[s]] # 0
                 /\ s \in Dialer!Chunks(recorded'[uciState.uci[s]])
      <4>1. /\ recorded[uciState.uci[s]] # 0
            /\ s \in Dialer!Chunks(recorded[uciState.uci[s]])
        BY <1>1, <3>1 DEF RangesFit, Dialer!SectionsAreRecorded
      <4>2. uciState.uci[s] # b
        BY <2>3, <3>1, <4>1, SectionsAre
      <4>3. recorded'[uciState.uci[s]] = recorded[uciState.uci[s]]
        BY <1>9, <3>1, <4>2
      <4>4. QED
        BY <4>1, <4>3
    <3>2. QED
      BY <1>2, <3>1 DEF Dialer!SectionsAreRecorded, Dialer!Chunks
  <2>6. RangesFit'
    <3>1. ASSUME NEW x \in Dialer!Batches
          PROVE  recorded'[x] # 0 => Dialer!Chunks(recorded'[x]) \subseteq Dialer!Seqs
      BY <1>1, <1>9, <2>0 DEF RangesFit
    <3>2. \A x \in Dialer!Batches : seen'[x] # Dialer!NotAsked =>
            \A s \in Dialer!Seqs : uciState'.uci[s] = Dialer!Other => s \in seen'[x]
      BY <1>1, <1>2 DEF RangesFit
    <3>3. QED
      BY <2>4, <2>5, <3>1, <3>2 DEF RangesFit, Dialer!Chunks
  <2>7. QED
    BY <1>8, <1>10, <1>11, <1>12, <1>13, <1>14, <2>1, <2>2, <2>6 DEF PppoeInv
<1>17. QED
  BY <1>3, <1>15, <1>16

-----------------------------------------------------------------------------
(***************************************************************************)
(* The steps of the form, and all steps together.                          *)
(***************************************************************************)

\* A step beside the jobs.
LEMMA BesideKeeps ==
  ASSUME PppoeInv, RecordsFit',
         UNCHANGED <<uciState, recorded, job, chain, made, lasting, commandFailures>>,
         \A b \in Dialer!Batches : seen'[b] # Dialer!NotAsked =>
           \A s \in Dialer!Seqs : uciState.uci[s] = Dialer!Other => s \in seen'[b]
  PROVE  PppoeInv'
<1>1. /\ RecordsFit /\ JobsFit /\ OwnersFit /\ RangesFit /\ DeletionsFit /\ OwedFits
      /\ ChainFits /\ MembersFit /\ NotLasting
  BY DEF PppoeInv
<1>2. JobsFit' /\ OwnersFit' /\ DeletionsFit'
  BY <1>1 DEF JobsFit, OwnersFit, DeletionsFit
<1>3. RangesFit'
  <2>1. Dialer!RangesAreApart'
    BY <1>1 DEF RangesFit, Dialer!RangesAreApart, Dialer!Chunks
  <2>2. Dialer!SectionsAreRecorded'
    BY <1>1 DEF RangesFit, Dialer!SectionsAreRecorded, Dialer!Chunks
  <2>3. \A b \in Dialer!Batches :
          recorded'[b] # 0 => Dialer!Chunks(recorded'[b]) \subseteq Dialer!Seqs
    BY <1>1 DEF RangesFit
  <2>4. \A b \in Dialer!Batches : seen'[b] # Dialer!NotAsked =>
          \A s \in Dialer!Seqs : uciState'.uci[s] = Dialer!Other => s \in seen'[b]
    OBVIOUS
  <2>5. QED
    BY <2>1, <2>2, <2>3, <2>4 DEF RangesFit, Dialer!Chunks
<1>4. OwedFits'
  BY <1>1 DEF OwedFits, Dialer!Sections
<1>5. ChainFits'
  BY <1>1 DEF ChainFits
<1>6. MembersFit'
  <2>1. Enlisted' = Enlisted /\ Adding' = Adding
    BY DEF Enlisted, Adding
  <2>2. \A b : Members(b)' = Members(b)
    BY DEF Members, Dialer!Chunks
  <2>3. QED
    BY <1>1, <2>1, <2>2 DEF MembersFit, Members
<1>7. NotLasting'
  BY <1>1 DEF NotLasting
<1>8. QED
  BY <1>2, <1>3, <1>4, <1>5, <1>6, <1>7 DEF PppoeInv

\* A range is found for a form.
LEMMA CheckKeeps ==
  ASSUME PppoeInv, NEW b \in Dialer!Batches, Dialer!Check(b)
  PROVE  PppoeInv'
<1>1. RecordsFit /\ RangesFit
  BY DEF PppoeInv
<1>2. /\ UNCHANGED <<uciState, recorded, nextSeq, seen, job, chain, deleting, made, lasting,
                     commandFailures>>
      /\ \E from \in Dialer!FoundRanges : token' = [token EXCEPT ![b] = from]
  BY DEF Dialer!Check
<1>3. Dialer!FoundRanges \subseteq Dialer!Seqs
  BY DEF Dialer!FoundRanges
<1>4. Dialer!Seqs \subseteq 0..SeqLimit
  BY DialerAssumption DEF Dialer!Seqs
<1>5. token' \in [Dialer!Batches -> 0..SeqLimit]
  BY <1>1, <1>2, <1>3, <1>4 DEF RecordsFit
<1>6. RecordsFit'
  BY <1>1, <1>2, <1>5 DEF RecordsFit
<1>7. QED
  BY <1>1, <1>2, <1>6, BesideKeeps DEF RangesFit

\* apply() reads the inventory, in which all sections are.
LEMMA AsksKeeps ==
  ASSUME PppoeInv, NEW b \in Dialer!Batches, Dialer!Asks(b)
  PROVE  PppoeInv'
<1>1. RecordsFit /\ RangesFit
  BY DEF PppoeInv
<1>2. /\ UNCHANGED <<uciState, recorded, nextSeq, token, job, chain, deleting, made, lasting,
                     commandFailures>>
      /\ seen' = [seen EXCEPT ![b] = Dialer!Sections]
  BY DEF Dialer!Asks, Dialer!counts
<1>3. Dialer!Seqs \subseteq 0..SeqLimit
  BY DialerAssumption DEF Dialer!Seqs
<1>4. Dialer!Sections \in SUBSET (0..SeqLimit)
  BY <1>3 DEF Dialer!Sections
<1>5. seen \in [Dialer!Batches -> SUBSET (0..SeqLimit)]
  BY <1>1 DEF RecordsFit
<1>6. seen' \in [Dialer!Batches -> SUBSET (0..SeqLimit)]
  BY <1>2, <1>4, <1>5
<1>7. RecordsFit'
  BY <1>1, <1>2, <1>6 DEF RecordsFit
<1>8. ASSUME NEW x \in Dialer!Batches, seen'[x] # Dialer!NotAsked, NEW s \in Dialer!Seqs,
             uciState.uci[s] = Dialer!Other
      PROVE  s \in seen'[x]
  <2>1. CASE x = b
    <3>1. seen'[x] = Dialer!Sections
      BY <1>2, <1>5, <2>1
    <3>2. QED
      BY <1>8, <3>1, SectionsAre DEF Dialer!Sections
  <2>2. CASE x # b
    <3>1. seen'[x] = seen[x]
      BY <1>2, <1>5, <2>2
    <3>2. QED
      BY <1>1, <1>8, <3>1 DEF RangesFit
  <2>3. QED
    BY <2>1, <2>2
<1>9. QED
  BY <1>2, <1>7, <1>8, BesideKeeps

\* What is known of a job that has just been started.
StartsAs(j, q) ==
  /\ JobFits(j, q) /\ q # Dialer!NoJob /\ q.state = "running" /\ q.cmds = <<>>
  /\ ~InFirewall(j, q) /\ ~Listed(q) /\ q \in JobRecords
  /\ \A i \in 0..(BatchSize - 1) : ~Through(q, i)

\* A started job has all its items before it.
LEMMA StartedIs ==
  ASSUME NEW b \in Dialer!Batches, NEW from \in Dialer!Seqs,
         Dialer!Chunks(from) \subseteq Dialer!Seqs, NEW j \in {Creation(b), Deletion(b)},
         NEW items, items = Remaining(j, from, BatchSize + 2),
         NEW q, q = Dialer!Started(from, items)
  PROVE  StartsAs(j, q) /\ q.from = from
<1>1. BatchSize \in Nat \ {0} /\ BatchSize + 2 \in 0..(BatchSize + 2)
  BY DialerAssumption
<1>2. items \in Seq(Seq(Commands)) /\ Len(items) = BatchSize + 2
  BY <1>1, RemainingIs
<1>3. <<>> \in Seq(Commands)
  OBVIOUS
<1>4. q \in JobRecords
  BY <1>2, <1>3 DEF Dialer!Started, JobRecords
<1>5. /\ q.state = "running" /\ q.from = from /\ q.items = items /\ q.cmds = <<>>
      /\ q.failed = FALSE /\ q.mutated = FALSE /\ q.reloaded = FALSE
  BY DEF Dialer!Started
<1>6. Left(q) = BatchSize + 2
  BY <1>2, <1>5 DEF Left
<1>7. Noted(q)
  BY <1>1, <1>5, <1>6 DEF Noted
<1>8. JobFits(j, q)
  BY <1>1, <1>4, <1>5, <1>6, <1>7 DEF JobFits
<1>9. ~InFirewall(j, q)
  BY <1>5 DEF InFirewall, Begun
<1>10. ~Listed(q)
  BY <1>1, <1>6 DEF Listed
<1>11. \A i \in 0..(BatchSize - 1) : ~Through(q, i)
  BY <1>1, <1>5, <1>6 DEF Through
<1>12. QED
  BY <1>4, <1>5, <1>8, <1>9, <1>10, <1>11, RecordsAreJobs DEF StartsAs

\* apply() starts a creation on a range that is free of what is recorded and of what its
\* inventory has shown.
LEMMA AcceptedKeeps ==
  ASSUME PppoeInv, NEW b \in Dialer!Batches, Dialer!Apply(b), recorded[b] = 0,
         Dialer!Free(token[b], seen[b])
  PROVE  PppoeInv'
<1> DEFINE from == token[b]
           j == Creation(b)
           items == Dialer!CreateItems(from)
           q == Dialer!Started(from, items)
<1>1. /\ RecordsFit /\ JobsFit /\ OwnersFit /\ RangesFit /\ DeletionsFit /\ OwedFits
      /\ ChainFits /\ MembersFit /\ NotLasting
  BY DEF PppoeInv
<1>2. /\ seen[b] # Dialer!NotAsked
      /\ seen' = [seen EXCEPT ![b] = Dialer!NotAsked] /\ token' = [token EXCEPT ![b] = 0]
      /\ recorded' = [recorded EXCEPT ![b] = from]
      /\ nextSeq' = (IF nextSeq > from + BatchSize THEN nextSeq ELSE from + BatchSize)
      /\ job' = [job EXCEPT ![j] = q]
      /\ UNCHANGED <<uciState, chain, deleting, made, lasting, commandFailures>>
  BY DEF Dialer!Apply, Dialer!counts, Creation
<1>3. BatchSize \in Nat \ {0} /\ SeqLimit \in Nat
  BY DialerAssumption
<1>4. from \in Dialer!Seqs /\ from \in Nat /\ from # 0 /\ from \in 0..SeqLimit
      /\ Dialer!Chunks(from) \subseteq Dialer!Seqs
  <2>1. from \in 0..SeqLimit
    BY <1>1 DEF RecordsFit
  <2>2. from \in Nat
    BY <1>3, <2>1
  <2>3. Dialer!Chunks(from) \subseteq Dialer!Seqs
    BY DEF Dialer!Free
  <2>4. from \in Dialer!Seqs
    BY <2>2, <2>3, ChunksAre
  <2>5. QED
    BY <2>1, <2>2, <2>3, <2>4 DEF Dialer!Seqs
<1>5. Dialer!Chunks(from) \cap Dialer!Members(Dialer!Batches) = {}
      /\ Dialer!Chunks(from) \cap seen[b] = {}
  BY DEF Dialer!Free
<1>6. j \in Dialer!Jobs /\ Dialer!Creates(j)
  BY JobsAre
<1>7. StartsAs(j, q) /\ q.from = from
  <2>1. items = Remaining(j, from, BatchSize + 2)
    BY <1>4, StartsAre
  <2>2. q = Dialer!Started(from, items) /\ j \in {Creation(b), Deletion(b)}
    OBVIOUS
  <2> HIDE DEF from, items, q, j
  <2>3. QED
    BY <1>4, <2>1, <2>2, StartedIs
<1> HIDE DEF from, items, q
<1>8. /\ JobFits(j, q) /\ q # Dialer!NoJob /\ q.state = "running" /\ q.cmds = <<>>
      /\ ~InFirewall(j, q) /\ ~Listed(q)
  BY <1>7 DEF StartsAs
<1>9. Moves(j, q)
  BY <1>2, <1>8 DEF Moves
<1>10. job[Creation(b)] = Dialer!NoJob /\ job[Deletion(b)] = Dialer!NoJob /\ b \notin made
  <2>1. \A i \in {Creation(b), Deletion(b)} : job[i] = Dialer!NoJob
    <3>1. ASSUME NEW i \in {Creation(b), Deletion(b)}, job[i] # Dialer!NoJob PROVE FALSE
      <4>1. i \in Dialer!Jobs /\ Dialer!Batch(i) = b
        BY JobsAre
      <4>2. recorded[b] = job[i].from /\ job[i].from # 0
        BY <1>1, <3>1, <4>1, JobRanges
      <4>3. QED
        BY <4>2
    <3>2. QED
      BY <3>1
  <2>2. b \notin made
    BY <1>1 DEF OwnersFit
  <2>3. QED
    BY <2>1, <2>2
<1>11. job[j] = Dialer!NoJob /\ ~InFirewall(j, job[j]) /\ ~OwesReload(j, job[j])
       /\ ~OwesZone(j, job[j])
  BY <1>10 DEF InFirewall, OwesReload, OwesZone
<1>12. /\ JobsFit' /\ job'[j] = q /\ job' \in [Dialer!Jobs -> JobRecords \cup {Dialer!NoJob}]
       /\ \A i \in Dialer!Jobs : i # j => job'[i] = job[i]
  BY <1>1, <1>6, <1>9, JobsKeep
<1>13. /\ recorded' \in [Dialer!Batches -> 0..SeqLimit] /\ recorded'[b] = from
       /\ \A x \in Dialer!Batches : x # b => recorded'[x] = recorded[x]
  BY <1>1, <1>2, <1>4 DEF RecordsFit
<1>14. /\ seen' \in [Dialer!Batches -> SUBSET (0..SeqLimit)]
       /\ \A x \in Dialer!Batches : seen'[x] # Dialer!NotAsked => seen'[x] = seen[x]
  <2>1. Dialer!NotAsked \in SUBSET (0..SeqLimit)
    BY <1>3 DEF Dialer!NotAsked
  <2>2. seen \in [Dialer!Batches -> SUBSET (0..SeqLimit)]
    BY <1>1 DEF RecordsFit
  <2>3. QED
    BY <1>2, <2>1, <2>2
<1>15. RecordsFit'
  <2>1. nextSeq' \in 1..(SeqLimit + 1)
    <3>1. nextSeq \in 1..(SeqLimit + 1)
      BY <1>1 DEF RecordsFit
    <3>2. from + (BatchSize - 1) \in Dialer!Seqs
      <4>1. BatchSize - 1 \in 0..(BatchSize - 1)
        BY <1>3
      <4>2. from + (BatchSize - 1) \in Dialer!Chunks(from)
        BY <1>4, <4>1, ChunksAre
      <4>3. QED
        BY <1>4, <4>2
    <3>3. from + BatchSize \in 1..(SeqLimit + 1)
      BY <1>3, <1>4, <3>2 DEF Dialer!Seqs
    <3>4. QED
      BY <1>2, <3>1, <3>3
  <2>2. token' \in [Dialer!Batches -> 0..SeqLimit]
    BY <1>1, <1>2, <1>3 DEF RecordsFit
  <2>3. QED
    BY <1>1, <1>2, <1>12, <1>13, <1>14, <2>1, <2>2 DEF RecordsFit
<1>16. OwnersFit'
  <2>1. ASSUME NEW x \in Dialer!Batches
        PROVE  /\ \A i \in {Creation(x), Deletion(x)} :
                    job'[i] # Dialer!NoJob => recorded'[x] = job'[i].from /\ x \notin made
               /\ job'[Creation(x)] = Dialer!NoJob \/ job'[Deletion(x)] = Dialer!NoJob
               /\ x \in made => recorded'[x] # 0
    <3>1. Creation(x) \in Dialer!Jobs /\ Deletion(x) \in Dialer!Jobs
          /\ Creation(x) # Deletion(x)
      BY JobsAre DEF Creation, Deletion
    <3>2. CASE x = b
      <4>1. job'[Creation(x)] = q /\ job'[Deletion(x)] = Dialer!NoJob
        BY <1>10, <1>12, <3>1, <3>2
      <4>2. QED
        BY <1>7, <1>10, <1>13, <3>2, <4>1
    <3>3. CASE x # b
      <4>1. Creation(x) # j /\ Deletion(x) # j
        BY <3>3 DEF Creation, Deletion
      <4>2. job'[Creation(x)] = job[Creation(x)] /\ job'[Deletion(x)] = job[Deletion(x)]
        BY <1>12, <3>1, <4>1
      <4>3. QED
        BY <1>1, <1>13, <3>3, <4>2 DEF OwnersFit
    <3>4. QED
      BY <3>2, <3>3
  <2>2. QED
    BY <1>2, <2>1 DEF OwnersFit
<1>17. RangesFit'
  <2>1. ASSUME NEW x \in Dialer!Batches, x # b, recorded[x] # 0
        PROVE  Dialer!Chunks(from) \cap Dialer!Chunks(recorded[x]) = {}
    <3>1. Members(x) \subseteq Dialer!Members(Dialer!Batches)
      BY <2>1, PlansAre
    <3>2. QED
      BY <1>5, <3>1 DEF Members
  <2>2. ASSUME NEW s \in Dialer!Chunks(from)
        PROVE  uciState.uci[s] \in {Dialer!None, b}
    <3>1. s \in Dialer!Seqs
      BY <1>4
    <3>2. uciState.uci[s] \in Dialer!Batches \cup {Dialer!None, Dialer!Other}
      BY <1>1, <3>1 DEF RecordsFit
    <3>3. uciState.uci[s] # Dialer!Other
      BY <1>1, <1>2, <1>5, <3>1 DEF RangesFit
    <3>4. CASE uciState.uci[s] \in Dialer!Batches
      <4>1. recorded[uciState.uci[s]] # 0 /\ s \in Dialer!Chunks(recorded[uciState.uci[s]])
        BY <1>1, <3>1, <3>4 DEF RangesFit, Dialer!SectionsAreRecorded
      <4>2. uciState.uci[s] # b
        BY <4>1
      <4>3. QED
        BY <2>1, <3>4, <4>1, <4>2
    <3>5. QED
      BY <3>2, <3>3, <3>4
  <2>3. Dialer!RangesAreApart'
    <3>1. ASSUME NEW x \in Dialer!Batches, NEW y \in Dialer!Batches, x # y,
                 recorded'[x] # 0, recorded'[y] # 0
          PROVE  Dialer!Chunks(recorded'[x]) \cap Dialer!Chunks(recorded'[y]) = {}
      <4>1. CASE x = b
        BY <1>13, <2>1, <3>1, <4>1
      <4>2. CASE y = b
        BY <1>13, <2>1, <3>1, <4>2
      <4>3. CASE x # b /\ y # b
        <5>1. recorded'[x] = recorded[x] /\ recorded'[y] = recorded[y]
          BY <1>13, <4>3
        <5>2. QED
          BY <1>1, <3>1, <5>1 DEF RangesFit, Dialer!RangesAreApart
      <4>4. QED
        BY <4>1, <4>2, <4>3
    <3>2. ASSUME NEW x \in Dialer!Batches, recorded'[x] # 0
          PROVE  \A s \in Dialer!Chunks(recorded'[x]) : uciState'.uci[s] \in {Dialer!None, x}
      <4>1. CASE x = b
        BY <1>2, <1>13, <2>2, <4>1
      <4>2. CASE x # b
        <5>1. recorded'[x] = recorded[x]
          BY <1>13, <4>2
        <5>2. QED
          BY <1>1, <1>2, <3>2, <5>1 DEF RangesFit, Dialer!RangesAreApart
      <4>3. QED
        BY <4>1, <4>2
    <3>3. QED
      BY <3>1, <3>2 DEF Dialer!RangesAreApart, Dialer!Chunks
  <2>4. Dialer!SectionsAreRecorded'
    <3>1. ASSUME NEW s \in Dialer!Seqs, uciState.uci[s] \in Dialer!Batches
          PROVE  /\ recorded'[uciState.uci[s]] # 0
                 /\ s \in Dialer!Chunks(recorded'[uciState.uci[s]])
      <4>1. /\ recorded[uciState.uci[s]] # 0
            /\ s \in Dialer!Chunks(recorded[uciState.uci[s]])
        BY <1>1, <3>1 DEF RangesFit, Dialer!SectionsAreRecorded
      <4>2. uciState.uci[s] # b
        BY <4>1
      <4>3. recorded'[uciState.uci[s]] = recorded[uciState.uci[s]]
        BY <1>13, <3>1, <4>2
      <4>4. QED
        BY <4>1, <4>3
    <3>2. QED
      BY <1>2, <3>1 DEF Dialer!SectionsAreRecorded, Dialer!Chunks
  <2>5. ASSUME NEW x \in Dialer!Batches
        PROVE  recorded'[x] # 0 => Dialer!Chunks(recorded'[x]) \subseteq Dialer!Seqs
    BY <1>1, <1>4, <1>13 DEF RangesFit
  <2>6. \A x \in Dialer!Batches : seen'[x] # Dialer!NotAsked =>
          \A s \in Dialer!Seqs : uciState'.uci[s] = Dialer!Other => s \in seen'[x]
    BY <1>1, <1>2, <1>14 DEF RangesFit
  <2>7. QED
    BY <2>3, <2>4, <2>5, <2>6 DEF RangesFit, Dialer!Chunks
<1>18. DeletionsFit'
  <2>1. \A x \in Dialer!Batches : job'[Deletion(x)] = job[Deletion(x)]
    BY <1>12, JobsAre DEF Creation, Deletion
  <2>2. QED
    BY <1>1, <1>2, <2>1 DEF DeletionsFit
<1>19. OwedFits'
  <2>1. Dialer!Sections' = Dialer!Sections
    BY <1>2 DEF Dialer!Sections
  <2> HIDE DEF j
  <2>2. QED
    BY <1>1, <1>2, <1>6, <1>9, <1>11, <2>1, OwedKeeps
<1> HIDE DEF j
<1>20. ChainFits'
  BY <1>1, <1>2, <1>6, <1>8, <1>9, <1>11, ChainStays
<1>21. MembersFit'
  <2>1. \A i \in 1..Len(chain) : job'[chain[i]] = job[chain[i]]
    BY <1>1, <1>6, <1>9, <1>11, OthersStay
  <2>2. Enlisted' \subseteq Enlisted
    BY <1>1, <1>2, <1>6, <1>8, <1>9, EnlistedKeep
  <2>3. ASSUME NEW x \in Dialer!Batches, x \in Enlisted \/ job[Creation(x)] # Dialer!NoJob
        PROVE  recorded'[x] = recorded[x]
    <3>1. recorded[x] # 0
      BY <1>1, <2>3, EnlistedAre
    <3>2. QED
      BY <1>13, <3>1
  <2>4. QED
    BY <1>1, <1>2, <2>1, <2>2, <2>3, MembersKeep
<1>22. NotLasting'
  BY <1>1, <1>2 DEF NotLasting
<1>23. QED
  BY <1>12, <1>15, <1>16, <1>17, <1>18, <1>19, <1>20, <1>21, <1>22 DEF PppoeInv

\* The rest of apply().
LEMMA ApplyKeeps ==
  ASSUME PppoeInv, NEW b \in Dialer!Batches, Dialer!Apply(b)
  PROVE  PppoeInv'
<1>1. CASE recorded[b] = 0 /\ Dialer!Free(token[b], seen[b])
  BY <1>1, AcceptedKeeps
<1>2. CASE ~(recorded[b] = 0 /\ Dialer!Free(token[b], seen[b]))
  <2>1. RecordsFit /\ RangesFit
    BY DEF PppoeInv
  <2>2. /\ seen' = [seen EXCEPT ![b] = Dialer!NotAsked] /\ token' = [token EXCEPT ![b] = 0]
        /\ UNCHANGED <<uciState, recorded, nextSeq, job, chain, deleting, made, lasting,
                       commandFailures>>
    BY <1>2 DEF Dialer!Apply, Dialer!counts
  <2>3. 0 \in 0..SeqLimit
    BY DialerAssumption
  <2>4. Dialer!NotAsked \in SUBSET (0..SeqLimit)
    BY <2>3 DEF Dialer!NotAsked
  <2>5. seen \in [Dialer!Batches -> SUBSET (0..SeqLimit)]
        /\ token \in [Dialer!Batches -> 0..SeqLimit]
    BY <2>1 DEF RecordsFit
  <2>6. seen' \in [Dialer!Batches -> SUBSET (0..SeqLimit)]
        /\ token' \in [Dialer!Batches -> 0..SeqLimit]
        /\ \A x \in Dialer!Batches : seen'[x] # Dialer!NotAsked => seen'[x] = seen[x]
    BY <2>2, <2>3, <2>4, <2>5
  <2>7. RecordsFit'
    BY <2>1, <2>2, <2>6 DEF RecordsFit
  <2>8. QED
    BY <2>1, <2>2, <2>6, <2>7, BesideKeeps DEF RangesFit
<1>3. QED
  BY <1>1, <1>2

\* batchDelete(): nobody deletes a batch that is being created.
LEMMA DeleteKeeps ==
  ASSUME PppoeInv, NEW b \in Dialer!Batches, Dialer!Delete(b)
  PROVE  PppoeInv'
<1> DEFINE from == recorded[b]
           j == Deletion(b)
           items == Dialer!DeleteItems(from)
           q == Dialer!Started(from, items)
<1>1. /\ RecordsFit /\ JobsFit /\ OwnersFit /\ RangesFit /\ DeletionsFit /\ OwedFits
      /\ ChainFits /\ MembersFit /\ NotLasting
  BY DEF PppoeInv
<1>2. /\ from # 0 /\ job[j] = Dialer!NoJob /\ job[Creation(b)] = Dialer!NoJob
      /\ deleting' = deleting \cup {b} /\ made' = made \ {b}
      /\ job' = [job EXCEPT ![j] = q]
      /\ UNCHANGED <<uciState, recorded, nextSeq, token, seen, chain, lasting,
                     commandFailures>>
  BY DEF Dialer!Delete, Dialer!counts, Creation, Deletion
<1>3. from \in Dialer!Seqs /\ Dialer!Chunks(from) \subseteq Dialer!Seqs
  <2>1. from \in 0..SeqLimit
    BY <1>1 DEF RecordsFit
  <2>2. Dialer!Chunks(from) \subseteq Dialer!Seqs
    BY <1>1, <1>2 DEF RangesFit
  <2>3. from \in Nat
    BY <2>1, DialerAssumption
  <2>4. QED
    BY <2>2, <2>3, ChunksAre
<1>4. j \in Dialer!Jobs /\ ~Dialer!Creates(j)
  BY JobsAre
<1>5. StartsAs(j, q) /\ q.from = from
  <2>1. items = Remaining(j, from, BatchSize + 2)
    BY <1>3, StartsAre
  <2>2. q = Dialer!Started(from, items) /\ j \in {Creation(b), Deletion(b)}
    OBVIOUS
  <2> HIDE DEF from, items, q, j
  <2>3. QED
    BY <1>3, <2>1, <2>2, StartedIs
<1> HIDE DEF items, q
<1>6. /\ JobFits(j, q) /\ q # Dialer!NoJob /\ q.state = "running" /\ q.cmds = <<>>
      /\ ~InFirewall(j, q) /\ ~Listed(q)
      /\ \A i \in 0..(BatchSize - 1) : ~Through(q, i)
  BY <1>5 DEF StartsAs
<1>7. Moves(j, q)
  BY <1>2, <1>6 DEF Moves
<1>8. ~InFirewall(j, job[j]) /\ ~OwesReload(j, job[j]) /\ ~OwesZone(j, job[j])
  BY <1>2 DEF InFirewall, OwesReload, OwesZone
<1>9. /\ JobsFit' /\ job'[j] = q
      /\ \A i \in Dialer!Jobs : i # j => job'[i] = job[i]
  BY <1>1, <1>4, <1>7, JobsKeep
<1>10. made' \in SUBSET made /\ made' \in SUBSET Dialer!Batches
  BY <1>1, <1>2 DEF RecordsFit
<1>11. RecordsFit'
  <2>1. /\ recorded' \in [Dialer!Batches -> 0..SeqLimit] /\ deleting' \subseteq Dialer!Batches
        /\ lasting' \in BOOLEAN /\ commandFailures' \in Nat /\ uciState' \in Routers
    BY <1>1, <1>2 DEF RecordsFit, Routers
  <2> HIDE DEF j
  <2>2. QED
    BY <1>1, <1>2, <1>4, <1>7, <1>10, <2>1, RecordsKeep
<1>12. OwnersFit'
  <2>1. ASSUME NEW x \in Dialer!Batches
        PROVE  /\ \A i \in {Creation(x), Deletion(x)} :
                    job'[i] # Dialer!NoJob => recorded[x] = job'[i].from /\ x \notin made'
               /\ job'[Creation(x)] = Dialer!NoJob \/ job'[Deletion(x)] = Dialer!NoJob
               /\ x \in made' => recorded[x] # 0
    <3>1. Creation(x) \in Dialer!Jobs /\ Deletion(x) \in Dialer!Jobs
          /\ Creation(x) # Deletion(x)
      BY JobsAre DEF Creation, Deletion
    <3>2. CASE x = b
      <4>1. job'[Creation(x)] = Dialer!NoJob /\ job'[Deletion(x)] = q
        BY <1>2, <1>9, <3>1, <3>2
      <4>2. QED
        BY <1>2, <1>5, <3>2, <4>1
    <3>3. CASE x # b
      <4>1. Creation(x) # j /\ Deletion(x) # j
        BY <3>3 DEF Creation, Deletion
      <4>2. job'[Creation(x)] = job[Creation(x)] /\ job'[Deletion(x)] = job[Deletion(x)]
        BY <1>9, <3>1, <4>1
      <4>3. QED
        BY <1>1, <1>10, <4>2 DEF OwnersFit
    <3>4. QED
      BY <3>2, <3>3
  <2>2. QED
    BY <1>2, <2>1 DEF OwnersFit
<1>13. RangesFit'
  <2>1. Dialer!RangesAreApart'
    BY <1>1, <1>2 DEF RangesFit, Dialer!RangesAreApart, Dialer!Chunks
  <2>2. Dialer!SectionsAreRecorded'
    BY <1>1, <1>2 DEF RangesFit, Dialer!SectionsAreRecorded, Dialer!Chunks
  <2>3. \A x \in Dialer!Batches :
          recorded'[x] # 0 => Dialer!Chunks(recorded'[x]) \subseteq Dialer!Seqs
    BY <1>1, <1>2 DEF RangesFit
  <2>4. \A x \in Dialer!Batches : seen'[x] # Dialer!NotAsked =>
          \A s \in Dialer!Seqs : uciState'.uci[s] = Dialer!Other => s \in seen'[x]
    BY <1>1, <1>2 DEF RangesFit
  <2>5. QED
    BY <2>1, <2>2, <2>3, <2>4 DEF RangesFit, Dialer!Chunks
<1>14. DeletionsFit'
  <2>1. ASSUME NEW x \in Dialer!Batches, x # b PROVE job'[Deletion(x)] = job[Deletion(x)]
    BY <1>9, <2>1, JobsAre DEF Deletion
  <2>2. job'[Deletion(b)] = q
    BY <1>9
  <2>3. QED
    BY <1>1, <1>2, <1>6, <2>1, <2>2 DEF DeletionsFit
<1> HIDE DEF j
<1>15. OwedFits'
  <2>1. Dialer!Sections' = Dialer!Sections
    BY <1>2 DEF Dialer!Sections
  <2>2. QED
    BY <1>1, <1>2, <1>4, <1>7, <1>8, <2>1, OwedKeeps
<1>16. ChainFits'
  BY <1>1, <1>2, <1>4, <1>6, <1>7, <1>8, ChainStays
<1>17. MembersFit'
  <2>1. \A i \in 1..Len(chain) : job'[chain[i]] = job[chain[i]]
    BY <1>1, <1>4, <1>7, <1>8, OthersStay
  <2>2. Enlisted' \subseteq Enlisted
    BY <1>1, <1>4, <1>7, <1>10, EnlistedKeep
  <2>3. QED
    BY <1>1, <1>2, <2>1, <2>2, MembersKeep
<1>18. NotLasting'
  BY <1>1, <1>2 DEF NotLasting
<1>19. QED
  BY <1>9, <1>11, <1>12, <1>13, <1>14, <1>15, <1>16, <1>17, <1>18 DEF PppoeInv

\* Nothing is recorded, on the router there is at most a section of the operator.
LEMMA PppoeInit ==
  ASSUME AllInit
  PROVE  PppoeInv
<1>1. Dialer!Init
  BY DEF AllInit
<1>2. PICK s \in SeqOccupied \cup {0} :
        uciState = [uci |-> [t \in Dialer!Seqs |-> IF t = s THEN Dialer!Other ELSE Dialer!None],
                    live |-> Dialer!Seqs \cap {s}, zone |-> {}, liveZone |-> {}, vlan |-> FALSE]
  BY <1>1 DEF Dialer!Init
<1>3. /\ recorded = [b \in Dialer!Batches |-> 0] /\ nextSeq = 1
      /\ token = [b \in Dialer!Batches |-> 0]
      /\ seen = [b \in Dialer!Batches |-> Dialer!NotAsked]
      /\ job = [j \in Dialer!Jobs |-> Dialer!NoJob] /\ chain = <<>>
      /\ deleting = {} /\ made = {} /\ lasting = FALSE /\ commandFailures = 0
  BY <1>1 DEF Dialer!Init
<1>4. SeqLimit \in Nat /\ 0 \in 0..SeqLimit /\ 1 \in 1..(SeqLimit + 1)
  BY DialerAssumption
<1>5. /\ uciState.uci = [t \in Dialer!Seqs |-> IF t = s THEN Dialer!Other ELSE Dialer!None]
      /\ uciState.live = Dialer!Seqs \cap {s} /\ uciState.zone = {} /\ uciState.liveZone = {}
  BY <1>2
<1>6. RecordsFit
  <2>1. uciState \in Routers
    BY <1>2 DEF Routers
  <2>2. Dialer!NotAsked \in SUBSET (0..SeqLimit)
    BY <1>4 DEF Dialer!NotAsked
  <2>3. /\ recorded \in [Dialer!Batches -> 0..SeqLimit] /\ nextSeq \in 1..(SeqLimit + 1)
        /\ token \in [Dialer!Batches -> 0..SeqLimit]
    BY <1>3, <1>4
  <2>4. seen \in [Dialer!Batches -> SUBSET (0..SeqLimit)]
    BY <1>3, <2>2
  <2>5. job \in [Dialer!Jobs -> JobRecords \cup {Dialer!NoJob}]
    BY <1>3
  <2>6. QED
    BY <1>3, <2>1, <2>3, <2>4, <2>5 DEF RecordsFit, Routers
<1>7. \A j \in Dialer!Jobs : job[j] = Dialer!NoJob
  BY <1>3
<1>8. JobsFit /\ DeletionsFit
  BY <1>7, JobsAre DEF JobsFit, DeletionsFit
<1>9. OwnersFit
  BY <1>3, <1>7, JobsAre DEF OwnersFit
<1>10. RangesFit
  <2>1. \A t \in Dialer!Seqs : uciState.uci[t] \in {Dialer!Other, Dialer!None}
    BY <1>5
  <2>2. Dialer!SectionsAreRecorded
    BY <2>1, SectionsAre DEF Dialer!SectionsAreRecorded
  <2>3. Dialer!RangesAreApart
    BY <1>3 DEF Dialer!RangesAreApart
  <2>4. QED
    BY <1>3, <2>2, <2>3 DEF RangesFit
<1>11. OwedFits
  <2>1. Dialer!Sections = Dialer!Seqs \cap {s}
    BY <1>5, SectionsAre DEF Dialer!Sections
  <2>2. QED
    BY <1>5, <2>1 DEF OwedFits
<1>12. ChainFits
  <2>1. chain \in Seq(Dialer!Jobs) /\ Len(chain) = 0
    BY <1>3
  <2>2. \A j \in Dialer!Jobs : ~InFirewall(j, job[j])
    BY <1>7 DEF InFirewall
  <2>3. QED
    BY <2>1, <2>2 DEF ChainFits
<1>13. MembersFit
  <2>1. \A b \in Dialer!Batches : b \notin Enlisted
    BY <1>3, <1>7, JobsAre DEF Enlisted, Listed
  <2>2. Len(chain) = 0 /\ Enlisted \subseteq Dialer!Batches
    BY <1>3 DEF Enlisted
  <2>3. QED
    BY <2>1, <2>2 DEF MembersFit
<1>14. NotLasting
  BY <1>3 DEF NotLasting
<1>15. QED
  BY <1>6, <1>8, <1>9, <1>10, <1>11, <1>12, <1>13, <1>14 DEF PppoeInv

\* Every step of the dialer keeps the invariant.
LEMMA PppoeStep ==
  ASSUME PppoeInv, [Dialer!Next]_(Dialer!vars)
  PROVE  PppoeInv'
<1>1. CASE UNCHANGED Dialer!vars
  <2>1. UNCHANGED <<uciState, recorded, nextSeq, token, seen, job, chain, deleting, made,
                    lasting, commandFailures>>
    BY <1>1 DEF Dialer!vars, Dialer!counts
  <2>2. RecordsFit /\ RangesFit
    BY DEF PppoeInv
  <2>3. RecordsFit'
    BY <2>1, <2>2 DEF RecordsFit
  <2>4. QED
    BY <2>1, <2>2, <2>3, BesideKeeps DEF RangesFit
<1>2. ASSUME NEW b \in Dialer!Batches,
             Dialer!Check(b) \/ Dialer!Asks(b) \/ Dialer!Apply(b) \/ Dialer!Delete(b)
      PROVE  PppoeInv'
  BY <1>2, CheckKeeps, AsksKeeps, ApplyKeeps, DeleteKeeps
<1>3. ASSUME NEW j \in Dialer!Jobs, Dialer!Cancel(j) \/ Dialer!Runs(j)
      PROVE  PppoeInv'
  <2>1. CASE Dialer!Cancel(j)
    BY <2>1, CancelKeeps
  <2>2. CASE Dialer!Runs(j)
    <3>1. \/ Dialer!NextItem(j) \/ Dialer!Ends(j) \/ Dialer!Granted(j) \/ Dialer!Succeeds(j)
          \/ Dialer!Fails(j) \/ Dialer!Missed(j)
      BY <2>2 DEF Dialer!Runs
    <3>2. QED
      BY <3>1, NextItemKeeps, CreationEnds, DeletionEnds, GrantedKeeps, SucceedsKeeps,
         FailsKeeps
  <2>3. QED
    BY <1>3, <2>1, <2>2
<1>4. QED
  BY <1>1, <1>2, <1>3 DEF Dialer!Next

\* The types of the dialer follow from the invariant.
LEMMA PppoeTypes ==
  ASSUME PppoeInv
  PROVE  Dialer!TypeOK
<1>1. RecordsFit /\ ChainFits
  BY DEF PppoeInv
<1>2. \A j \in Dialer!Jobs : job[j].state \in {"none", "running", "closing"}
  <2>1. \A j \in Dialer!Jobs : job[j] \in JobRecords \/ job[j] = Dialer!NoJob
    BY <1>1 DEF RecordsFit
  <2>2. QED
    BY <2>1, FieldsAre, RecordsAreJobs
<1>3. Dialer!ToSet(chain) \subseteq Dialer!Jobs
  <2>1. chain \in Seq(Dialer!Jobs)
    BY <1>1 DEF ChainFits
  <2>2. QED
    BY <2>1 DEF Dialer!ToSet
<1>4. \A b \in Dialer!Batches : seen[b] \subseteq 0..SeqLimit
  BY <1>1 DEF RecordsFit
<1>5. QED
  BY <1>1, <1>2, <1>3, <1>4 DEF RecordsFit, Dialer!TypeOK

\* What is said of the dialer follows from the invariant: at rest no job owes anything and
\* the chain is empty.
LEMMA PppoeInvAgrees ==
  ASSUME PppoeInv
  PROVE  Dialer!PppoeAgrees
<1>1. RecordsFit /\ RangesFit /\ OwedFits /\ ChainFits /\ MembersFit /\ NotLasting /\ OwnersFit
  BY DEF PppoeInv
<1>2. Dialer!RunningIsCommitted
  <2>1. ASSUME Dialer!AtRest PROVE \A j \in Dialer!Jobs : /\ ~OwesReload(j, job[j])
                                                          /\ ~OwesZone(j, job[j])
    BY <2>1 DEF Dialer!AtRest, OwesReload, OwesZone
  <2>2. QED
    BY <1>1, <2>1 DEF OwedFits, Dialer!RunningIsCommitted
<1>3. Dialer!MadeAreMembers
  <2>1. ASSUME Dialer!AtRest, commandFailures = 0, NEW b \in made
        PROVE  Dialer!Chunks(recorded[b]) \subseteq uciState.liveZone
    <3>1. b \in Enlisted
      BY <1>1, <2>1 DEF RecordsFit, Enlisted
    <3>2. ~Adding
      <4>1. CASE chain = <<>>
        BY <4>1 DEF Adding
      <4>2. CASE chain # <<>>
        <5>1. 1 \in 1..Len(chain)
          BY <1>1, <4>2, HeadIs
        <5>2. chain[1] \in Dialer!Jobs /\ job[chain[1]] # Dialer!NoJob
          BY <1>1, <5>1, PlacesAre
        <5>3. QED
          BY <2>1, <5>2 DEF Dialer!AtRest
      <4>3. QED
        BY <4>1, <4>2
    <3>3. Members(b) \subseteq uciState.zone
      BY <1>1, <2>1, <3>1, <3>2 DEF MembersFit
    <3>4. uciState.liveZone = uciState.zone
      BY <1>1, <1>2, <2>1 DEF NotLasting, Dialer!RunningIsCommitted
    <3>5. QED
      BY <3>3, <3>4 DEF Members
  <2>2. QED
    BY <2>1 DEF Dialer!MadeAreMembers
<1>4. QED
  BY <1>1, <1>2, <1>3 DEF RangesFit, Dialer!PppoeAgrees

\* The ranges of the batches stay apart from each other and from the operator's, every
\* session on the router has a record, a router at rest runs what is committed, and a batch
\* that is made is in the firewall zone: for any size and number of batches, any number of
\* deletions, cancellations and failures, and any section of the operator (pppoe.ts, uci.ts,
\* jobs.ts).
THEOREM DialerStaysAgreed == AllSpec => []PppoeAgrees
<1>1. AllInit => PppoeInv
  BY PppoeInit
<1>2. PppoeInv /\ [AllNext]_all => PppoeInv'
  <2> SUFFICES ASSUME PppoeInv, [AllNext]_all PROVE PppoeInv'
    OBVIOUS
  <2>1. [Dialer!Next]_(Dialer!vars)
    BY DEF AllNext, all, pppoeVars, Dialer!vars, Dialer!counts
  <2>2. QED
    BY <2>1, PppoeStep
<1>3. PppoeInv => PppoeAgrees
  BY PppoeTypes, PppoeInvAgrees DEF PppoeAgrees
<1>4. QED
  BY <1>1, <1>2, <1>3, PTL DEF AllSpec

=============================================================================
