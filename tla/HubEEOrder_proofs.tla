------------------------- MODULE HubEEOrder_proofs --------------------------
(***************************************************************************)
(* Further proofs about HubEENotifications: what reaches a Shipment, and   *)
(* in which order.  Four invariants are added to Inv:                      *)
(*                                                                         *)
(*   HeardInv    nothing runs ahead of the cases on HubEE;                 *)
(*   SoloInv     one job at a time: a job writes the row it has loaded;    *)
(*   OrderInv    one job at a time and a HubEE that does what it answers:  *)
(*               no update that is left is older than its Shipment;        *)
(*   AppliedInv  the latest update is applied before it is acknowledged.   *)
(*                                                                         *)
(* They give the properties of the runs with one job, and the refinement   *)
(* of ShipmentLifecycle.                                                   *)
(***************************************************************************)
EXTENDS HubEENotifications_proofs

Statuses == Processable \cup {"opened", "deposited", "hubee_notified"}

(* The case has, or has had, the status s. *)
Reached(c, s) == s = siStatus[c] \/ Rank(s) < Rank(siStatus[c])

(* A notification speaks of a case that is on HubEE, and of a status it    *)
(* has reached.                                                            *)
Behind(n) ==
  /\ siStatus[n.of] # None
  /\ n.status # None => Reached(n.of, n.status)

(* Nothing runs ahead of the cases on HubEE. *)
HeardInv ==
  /\ \A n \in Range(queue) : n \in Own => Behind(n)
  /\ \A j \in Jobs : \A n \in Range(batch[j]) : n \in Own => Behind(n)
  /\ \A n \in received : Behind(n)
  /\ \A call \in late : Behind(call.for)
  /\ \A c \in Cases :
       /\ row[c].saved => siStatus[c] # None
       /\ row[c].status # "pending" => row[c].saved /\ Reached(c, row[c].status)

-----------------------------------------------------------------------------
(* Ranks.                                                                  *)

LEMMA RankValues ==
  /\ Rank("opened") = 0 /\ Rank("deposited") = 1 /\ Rank("hubee_notified") = 1
  /\ Rank("sent") = 2 /\ Rank("si_received") = 3 /\ Rank("in_progress") = 4
  /\ Rank("done") = 5 /\ Rank("refused") = 5
BY DEF Rank, FinalStatuses

LEMMA RankType ==
  /\ \A s \in Statuses : Rank(s) \in Nat
  /\ \A s, t \in Statuses :
       Rank(s) = Rank(t) =>
         \/ s = t
         \/ s \in {"deposited", "hubee_notified"} /\ t \in {"deposited", "hubee_notified"}
         \/ s \in FinalStatuses /\ t \in FinalStatuses
  /\ \A s \in Statuses, t \in FinalStatuses : Rank(s) <= Rank(t)
<1>1. Statuses = {"opened", "deposited", "hubee_notified", "sent", "si_received",
                  "in_progress", "done", "refused"}
  BY DEF Statuses, Processable, FinalStatuses
<1>2. \A s \in Statuses : Rank(s) \in 0..5
  BY <1>1, RankValues
<1>3. ASSUME NEW s \in Statuses, NEW t \in Statuses, Rank(s) = Rank(t)
      PROVE  \/ s = t
             \/ s \in {"deposited", "hubee_notified"} /\ t \in {"deposited", "hubee_notified"}
             \/ s \in {"done", "refused"} /\ t \in {"done", "refused"}
  BY <1>1, <1>3, RankValues
<1>4. \A t \in FinalStatuses : Rank(t) = 5
  BY RankValues DEF FinalStatuses
<1> QED  BY <1>2, <1>3, <1>4 DEF FinalStatuses

(* Statuses of a case on HubEE and in its notifications. *)
LEMMA StatusTypes ==
  ASSUME Inv
  PROVE  /\ \A c \in Cases : siStatus[c] # None => siStatus[c] \in Statuses
         /\ \A n \in Own : n.status # None => n.status \in Processable \cup {"hubee_notified"}
         /\ \A c \in Cases : row[c].status # "pending" => row[c].status \in Processable
         /\ None \notin Statuses /\ Processable \subseteq Statuses
         /\ "pending" \notin Processable
BY OwnFacts, NoneAssumption DEF Inv, SharedInv, Statuses, Processable, FinalStatuses

(* A case only moves up. *)
Rises ==
  \A c \in Cases :
    \/ siStatus'[c] = siStatus[c]
    \/ siStatus[c] = None /\ siStatus'[c] \in Statuses
    \/ siStatus'[c] \in Statuses /\ Rank(siStatus[c]) < Rank(siStatus'[c])

LEMMA ReachedStays ==
  ASSUME Inv, Rises, NEW c \in Cases, siStatus[c] # None, NEW s \in Statuses, Reached(c, s)
  PROVE  siStatus'[c] # None /\ Reached(c, s)'
BY StatusTypes, RankType DEF Rises, Reached

LEMMA BehindStays ==
  ASSUME Inv, Rises, NEW n \in Own, Behind(n)
  PROVE  Behind(n)'
<1>1. n.of \in Cases /\ siStatus[n.of] # None
  BY OwnFacts DEF Behind
<1>2. siStatus'[n.of] # None
  BY <1>1, StatusTypes DEF Rises
<1>3. n.status # None => n.status \in Statuses
  BY StatusTypes DEF Statuses
<1>4. n.status # None => Reached(n.of, n.status)'
  BY <1>1, <1>3, ReachedStays DEF Behind
<1> QED  BY <1>2, <1>4 DEF Behind

-----------------------------------------------------------------------------
(* What each step may add to what is heard of a case.                      *)
LEMMA HeardStays ==
  ASSUME Inv, Inv', HeardInv, Rises,
         \A n \in Range(queue') : n \in Range(queue) \/ (n \in Own => Behind(n)'),
         \A j \in Jobs : Range(batch'[j]) \subseteq Range(batch[j]) \cup Range(queue),
         \A n \in received' \ received : Behind(n),
         \A call \in late' \ late : Behind(call.for),
         \A c \in Cases :
           /\ row'[c].saved => siStatus[c] # None
           /\ row'[c].status # "pending" => row'[c].saved /\ Reached(c, row'[c].status)
  PROVE  HeardInv'
<1>1. ASSUME NEW n \in Own, Behind(n)  PROVE Behind(n)'
  BY <1>1, BehindStays
<1>2. \A n \in Range(queue') : n \in Own => Behind(n)'
  BY <1>1 DEF HeardInv
<1>3. \A j \in Jobs : \A n \in Range(batch'[j]) : n \in Own => Behind(n)'
  BY <1>1 DEF HeardInv
<1>4. \A n \in received' : Behind(n)'
  BY <1>1 DEF HeardInv, Inv, SharedInv
<1>5. \A call \in late' : Behind(call.for)'
  <2> SUFFICES ASSUME NEW call \in late' PROVE Behind(call.for)'
    OBVIOUS
  <2>1. call.for \in Own /\ Behind(call.for)
    BY DEF HeardInv, Inv, SharedInv
  <2> QED  BY <1>1, <2>1
<1>6. ASSUME NEW c \in Cases
      PROVE  /\ row'[c].saved => siStatus'[c] # None
             /\ row'[c].status # "pending" => row'[c].saved /\ Reached(c, row[c].status)'
  <2>1. row'[c].status # "pending" => row'[c].status \in Statuses
    BY DEF Inv, SharedInv, Statuses
  <2>2. siStatus[c] # None => siStatus'[c] # None
    BY StatusTypes DEF Rises
  <2>3. row'[c].status # "pending" => Reached(c, row[c].status)'
    <3> SUFFICES ASSUME row'[c].status # "pending" PROVE Reached(c, row[c].status)'
      OBVIOUS
    <3> DEFINE s == row'[c].status
    <3>1. s \in Statuses /\ Reached(c, s) /\ siStatus[c] # None
      BY <2>1
    <3> HIDE DEF s
    <3>2. siStatus'[c] = siStatus[c] \/ Rank(siStatus[c]) < Rank(siStatus'[c])
      BY <3>1 DEF Rises
    <3>3. s = siStatus'[c] \/ Rank(s) < Rank(siStatus'[c])
      BY <3>1, <3>2, StatusTypes, RankType DEF Reached, Rises
    <3> QED  BY <3>3 DEF Reached, s
  <2> QED  BY <2>2, <2>3
<1> QED  BY <1>2, <1>3, <1>4, <1>5, <1>6 DEF HeardInv

-----------------------------------------------------------------------------
(* Queues and batches.                                                     *)

(* Two updates of one case. *)
SameCase(m, n) == m.of = n.of /\ m.status # None /\ n.status # None

(* The updates of a case stand in the order in which it got them. *)
Sorted(q) ==
  \A i, k \in 1..Len(q) :
    i < k /\ SameCase(q[i], q[k]) => Rank(q[i].status) < Rank(q[k].status)

LEMMA WithoutShifts ==
  ASSUME NEW S, NEW q \in Seq(S), NEW n, n \in Range(q)
  PROVE  \E i \in 1..Len(q) :
           /\ q[i] = n
           /\ Len(Without(q, n)) = Len(q) - 1
           /\ \A k \in 1..(i - 1) : Without(q, n)[k] = q[k]
           /\ \A k \in i..(Len(q) - 1) : Without(q, n)[k] = q[k + 1]
<1> DEFINE i == CHOOSE k \in DOMAIN q : q[k] = n
           front == SubSeq(q, 1, i - 1)
           back == SubSeq(q, i + 1, Len(q))
<1>1. i \in 1..Len(q) /\ q[i] = n
  BY DEF Range
<1> HIDE DEF i
<1>2. Without(q, n) = front \o back
  BY DEF Without, RemoveAt, i
<1>3. /\ front \in Seq(S) /\ Len(front) = i - 1
      /\ \A k \in 1..(i - 1) : front[k] = q[k]
  BY <1>1, \A k \in 1..(i - 1) : q[k] \in S, SubSeqProperties, 1 \in Int, i - 1 \in Int
<1>4. /\ back \in Seq(S) /\ Len(back) = Len(q) - i
      /\ \A k \in 1..(Len(q) - i) : back[k] = q[k + i]
  BY <1>1, \A k \in (i + 1)..Len(q) : q[k] \in S, SubSeqProperties, i + 1 \in Int, Len(q) \in Int
<1> HIDE DEF front, back
<1>5. /\ Len(front \o back) = Len(q) - 1
      /\ \A k \in 1..(i - 1) : (front \o back)[k] = front[k]
      /\ \A k \in i..(Len(q) - 1) : (front \o back)[k] = back[k - (i - 1)]
  <2>1. /\ Len(front \o back) = Len(front) + Len(back)
        /\ \A k \in 1..(Len(front) + Len(back)) :
             (front \o back)[k] = IF k <= Len(front) THEN front[k] ELSE back[k - Len(front)]
    BY <1>3, <1>4, ConcatProperties
  <2>2. Len(front) = i - 1 /\ Len(back) = Len(q) - i /\ Len(q) \in Nat /\ i \in 1..Len(q)
    BY <1>1, <1>3, <1>4
  <2> QED  BY <2>1, <2>2
<1>6. \A k \in i..(Len(q) - 1) : back[k - (i - 1)] = q[k + 1]
  BY <1>1, <1>4
<1> QED  BY <1>1, <1>2, <1>3, <1>5, <1>6

LEMMA WithoutRange ==
  ASSUME NEW S, NEW q \in Seq(S), NEW n
  PROVE  Range(Without(q, n)) \subseteq Range(q)
<1>1. CASE n \notin Range(q)
  BY <1>1 DEF Without
<1>2. CASE n \in Range(q)
  <2> DEFINE w == Without(q, n)
  <2>1. w \in Seq(S) /\ Len(q) \in Nat
    BY WithoutFacts
  <2>2. PICK i \in 1..Len(q) :
          /\ Len(w) = Len(q) - 1
          /\ \A k \in 1..(i - 1) : w[k] = q[k]
          /\ \A k \in i..(Len(q) - 1) : w[k] = q[k + 1]
    BY <1>2, WithoutShifts
  <2> HIDE DEF w
  <2>3. ASSUME NEW m \in Range(w)  PROVE m \in Range(q)
    <3>1. PICK k \in 1..Len(w) : w[k] = m
      BY <2>1, RangeEquality
    <3>2. PICK d \in 1..Len(q) : q[d] = m
      BY <2>1, <2>2, <3>1
    <3> QED  BY <3>2, RangeEquality
  <2> QED  BY <2>3 DEF w
<1> QED  BY <1>1, <1>2

LEMMA WithoutSorted ==
  ASSUME NEW S, NEW q \in Seq(S), NEW n, n.status # None => Rank(n.status) \in Nat, Sorted(q)
  PROVE  /\ Sorted(Without(q, n))
         /\ n.status # None => n \notin Range(Without(q, n))
<1>1. CASE n \notin Range(q)
  BY <1>1 DEF Without
<1>2. CASE n \in Range(q)
  <2> DEFINE w == Without(q, n)
  <2>1. w \in Seq(S) /\ Len(q) \in Nat
    BY WithoutFacts
  <2>2. PICK i \in 1..Len(q) :
          /\ q[i] = n
          /\ Len(w) = Len(q) - 1
          /\ \A k \in 1..(i - 1) : w[k] = q[k]
          /\ \A k \in i..(Len(q) - 1) : w[k] = q[k + 1]
    BY <1>2, WithoutShifts
  <2> HIDE DEF w
  <2>3. \A k \in 1..Len(w) : IF k < i THEN k \in 1..Len(q) /\ w[k] = q[k]
                             ELSE k + 1 \in 1..Len(q) /\ w[k] = q[k + 1]
    BY <2>1, <2>2
  <2>4. Sorted(w)
    <3> SUFFICES ASSUME NEW a \in 1..Len(w), NEW b \in 1..Len(w), a < b, SameCase(w[a], w[b])
                 PROVE  Rank(w[a].status) < Rank(w[b].status)
      BY DEF Sorted
    <3>1. PICK c \in 1..Len(q), d \in 1..Len(q) : c < d /\ w[a] = q[c] /\ w[b] = q[d]
      BY <2>1, <2>2, <2>3
    <3> QED  BY <3>1 DEF Sorted
  <2>5. ASSUME NEW m \in Range(w), n.status # None  PROVE m # n
    <3>1. PICK k \in 1..Len(w) : w[k] = m
      BY <2>1, RangeEquality
    <3>2. PICK d \in 1..Len(q) : d # i /\ q[d] = m
      BY <2>1, <2>2, <2>3, <3>1
    <3> SUFFICES ASSUME m = n PROVE FALSE
      OBVIOUS
    <3>3. SameCase(q[d], q[i]) /\ SameCase(q[i], q[d])
      BY <2>2, <2>5, <3>2 DEF SameCase
    <3>4. Rank(n.status) < Rank(n.status)
      BY <2>1, <2>2, <3>2, <3>3 DEF Sorted
    <3> QED  BY <2>5, <3>4
  <2> QED  BY <2>4, <2>5 DEF w
<1> QED  BY <1>1, <1>2

LEMMA AppendSorted ==
  ASSUME NEW S, NEW q \in Seq(S), NEW n \in S, Sorted(q),
         \A m \in Range(q) : SameCase(m, n) => Rank(m.status) < Rank(n.status)
  PROVE  Sorted(Append(q, n))
<1> DEFINE a == Append(q, n)
<1>1. /\ Len(a) = Len(q) + 1 /\ Len(q) \in Nat
      /\ \A k \in 1..Len(q) : a[k] = q[k]
      /\ a[Len(q) + 1] = n
  BY AppendProperties
<1> HIDE DEF a
<1>2. \A k \in 1..Len(q) : q[k] \in Range(q)
  BY RangeEquality
<1>3. Sorted(a)
  <2> SUFFICES ASSUME NEW i \in 1..Len(a), NEW k \in 1..Len(a), i < k, SameCase(a[i], a[k])
               PROVE  Rank(a[i].status) < Rank(a[k].status)
    BY DEF Sorted
  <2>1. CASE k = Len(q) + 1
    BY <1>1, <1>2, <2>1
  <2>2. CASE k # Len(q) + 1
    BY <1>1, <2>2 DEF Sorted
  <2> QED  BY <2>1, <2>2
<1> QED  BY <1>3 DEF a

LEMMA TailFacts ==
  ASSUME NEW S, NEW q \in Seq(S), q # <<>>
  PROVE  /\ Tail(q) \in Seq(S) /\ Len(Tail(q)) = Len(q) - 1 /\ Len(q) \in Nat /\ Len(q) > 0
         /\ \A k \in 1..Len(Tail(q)) : Tail(q)[k] = q[k + 1]
         /\ Head(q) = q[1]
         /\ Range(q) = {Head(q)} \cup Range(Tail(q))
<1> DEFINE t == Tail(q)
<1>1. /\ t \in Seq(S) /\ Len(t) = Len(q) - 1 /\ Len(q) \in Nat /\ Len(q) > 0
      /\ \A k \in 1..Len(t) : t[k] = q[k + 1]
      /\ Head(q) = q[1]
  BY HeadTailProperties, EmptySeq
<1> HIDE DEF t
<1>2. ASSUME NEW m \in Range(q)  PROVE m \in {Head(q)} \cup Range(t)
  <2>1. PICK k \in 1..Len(q) : q[k] = m
    BY RangeEquality
  <2>2. CASE k = 1
    BY <1>1, <2>1, <2>2
  <2>3. CASE k # 1
    <3>1. k - 1 \in 1..Len(t) /\ t[k - 1] = m
      BY <1>1, <2>1, <2>3
    <3> QED  BY <1>1, <3>1, RangeEquality
  <2> QED  BY <2>2, <2>3
<1>3. ASSUME NEW m \in Range(t)  PROVE m \in Range(q)
  <2>1. PICK k \in 1..Len(t) : t[k] = m
    BY <1>1, RangeEquality
  <2>2. k + 1 \in 1..Len(q) /\ q[k + 1] = m
    BY <1>1, <2>1
  <2> QED  BY <2>2, RangeEquality
<1>4. Head(q) \in Range(q)
  <2>1. 1 \in 1..Len(q)
    BY <1>1
  <2> QED  BY <1>1, <2>1, RangeEquality
<1> QED  BY <1>1, <1>2, <1>3, <1>4 DEF t

LEMMA TailSorted ==
  ASSUME NEW S, NEW q \in Seq(S), q # <<>>, Sorted(q)
  PROVE  /\ Sorted(Tail(q))
         /\ \A m \in Range(Tail(q)) :
              SameCase(Head(q), m) => Rank(Head(q).status) < Rank(m.status)
<1> DEFINE t == Tail(q)
<1>1. /\ t \in Seq(S) /\ Len(t) = Len(q) - 1 /\ Len(q) \in Nat /\ Len(q) > 0
      /\ \A k \in 1..Len(t) : t[k] = q[k + 1]
      /\ Head(q) = q[1]
  BY TailFacts
<1> HIDE DEF t
<1>2. Sorted(t)
  BY <1>1 DEF Sorted
<1>3. ASSUME NEW m \in Range(t), SameCase(Head(q), m)
      PROVE  Rank(Head(q).status) < Rank(m.status)
  <2>1. PICK k \in 1..Len(t) : t[k] = m
    BY <1>1, RangeEquality
  <2>2. 1 \in 1..Len(q) /\ k + 1 \in 1..Len(q) /\ 1 < k + 1 /\ q[k + 1] = m
    BY <1>1, <2>1
  <2> QED  BY <1>1, <1>3, <2>2 DEF Sorted
<1> QED  BY <1>2, <1>3 DEF t

(* The prefix that a job fetches. *)
LEMMA PrefixSorted ==
  ASSUME NEW S, NEW q \in Seq(S), NEW count \in 0..Len(q)
  PROVE  LET p == SubSeq(q, 1, count) IN
         /\ Range(p) \subseteq Range(q)
         /\ Sorted(q) =>
              /\ Sorted(p)
              /\ \A m \in Range(p), n \in Range(q) :
                   SameCase(m, n) /\ n \notin Range(p) => Rank(m.status) < Rank(n.status)
<1> DEFINE p == SubSeq(q, 1, count)
<1>1. Len(q) \in Nat /\ \A k \in 1..count : q[k] \in S
  OBVIOUS
<1>2. p \in Seq(S) /\ Len(p) = count /\ \A k \in 1..count : p[k] = q[k]
  BY <1>1, SubSeqProperties, 1 \in Int, count \in Int
<1> HIDE DEF p
<1>3. ASSUME NEW m \in Range(p)  PROVE \E k \in 1..count : q[k] = m /\ k \in 1..Len(q)
  <2>1. PICK k \in 1..Len(p) : p[k] = m
    BY <1>2, RangeEquality
  <2> QED  BY <1>1, <1>2, <2>1
<1>4. Range(p) \subseteq Range(q)
  BY <1>3, RangeEquality
<1>5. Sorted(q) => Sorted(p)
  BY <1>1, <1>2 DEF Sorted
<1>6. ASSUME Sorted(q), NEW m \in Range(p), NEW n \in Range(q), SameCase(m, n), n \notin Range(p)
      PROVE  Rank(m.status) < Rank(n.status)
  <2>1. PICK k \in 1..count : q[k] = m /\ k \in 1..Len(q)
    BY <1>3
  <2>2. PICK i \in 1..Len(q) : q[i] = n
    BY RangeEquality
  <2>3. ~ (i <= count)
    <3> SUFFICES ASSUME i <= count PROVE FALSE
      OBVIOUS
    <3>1. i \in 1..Len(p) /\ p[i] = n
      BY <1>2, <2>2
    <3> QED  BY <1>2, <1>6, <3>1, RangeEquality
  <2> QED  BY <1>1, <1>6, <2>1, <2>2, <2>3 DEF Sorted
<1> QED  BY <1>4, <1>5, <1>6 DEF p

-----------------------------------------------------------------------------
(* What the steps of a job leave of its batch and of the rest.             *)

LEMMA RestartBatch ==
  ASSUME Inv, NEW i \in Jobs, NEW to, NEW n, Restart(i, to, n)
  PROVE  batch'[i] = <<>> /\ pc'[i] = to /\ Others(i)
BY DEF Restart, Goto, Others, Inv, LocalInv

LEMMA RetryBatch ==
  ASSUME Inv, NEW i \in Jobs, Retry(i)
  PROVE  batch'[i] = <<>> /\ pc'[i] \in {"fetch", "idle"} /\ Others(i)
BY RestartBatch DEF Retry

LEMMA SkipBatch ==
  ASSUME Inv, NEW i \in Jobs, Skip(i)
  PROVE  batch'[i] = Tail(batch[i]) /\ pc'[i] = "next" /\ Others(i)
BY DEF Skip, Goto, Others, Inv, LocalInv

LEMMA GotoBatch ==
  ASSUME Inv, NEW i \in Jobs, NEW to, Goto(i, to), UNCHANGED <<batch, memo>>
  PROVE  batch'[i] = batch[i] /\ memo'[i] = memo[i] /\ pc'[i] = to /\ Others(i)
BY DEF Goto, Others, Inv, LocalInv
(* What any step of a job may do to its batch and to what all share. *)
LEMMA JobStep ==
  ASSUME Inv, NEW i \in Jobs, Enqueue(i) \/ Works(i) \/ Fails(i)
  PROVE  /\ Others(i)
         /\ \/ batch'[i] = batch[i] \/ batch'[i] = <<>>
            \/ /\ batch[i] # <<>> /\ batch'[i] = Tail(batch[i])
               /\ FormulaireQF(Current(i)) /\ ~ MayRefuse => queue' = Without(queue, Current(i))
            \/ FetchNotifications(i)
         /\ siStatus' = siStatus
         /\ queue' = queue \/ (pc[i] = "delete" /\ queue' = Without(queue, Current(i)))
         /\ row' = row \/ WriteShipmentStatus(i) \/ AnonymizeShipment(i)
         /\ \/ received' = received
            \/ pc[i] = "update_event" /\ received' = received \cup {Current(i)}
         /\ \A call \in late' \ late :
              pc[i] \in {"update_event", "delete"} \cup Closers /\ call.for = Current(i)
         /\ unread \subseteq unread' /\ rowless \subseteq rowless'
<1>1. ASSUME NEW answered \in BOOLEAN, NEW to, Continue(i, answered, to)
      PROVE  Others(i) /\ (batch'[i] = batch[i] \/ batch'[i] = <<>>)
  BY <1>1, GotoBatch, RetryBatch DEF Continue, job
<1>2. CASE Enqueue(i) \/ EndOfBatch(i) \/ Dies(i) \/ Interrupted(i) \/ FetchRaises(i)
  <2>1. UNCHANGED <<hubee, row, unread, rowless>> /\ Others(i) /\ batch'[i] = <<>>
    BY <1>2, RestartBatch, RetryBatch
    DEF history, Enqueue, EndOfBatch, Dies, Interrupted, FetchRaises
  <2> QED  BY <2>1 DEF hubee
<1>3. CASE FetchNotifications(i)
  <2>1. UNCHANGED <<hubee, row, unread, rowless>> /\ Others(i)
    BY <1>3 DEF history, FetchNotifications, Goto, Others, Inv, LocalInv
  <2> QED  BY <1>3, <2>1 DEF hubee
<1>4. CASE ProcessNotification(i)
  <2>1. UNCHANGED <<hubee, row, unread, rowless>> /\ batch[i] # <<>>
    BY <1>4 DEF history, ProcessNotification
  <2>2. /\ Others(i)
        /\ IF FormulaireQF(Current(i)) THEN batch'[i] = batch[i] ELSE batch'[i] = Tail(batch[i])
    <3>1. CASE FormulaireQF(Current(i))
      BY <1>4, <3>1, GotoBatch DEF ProcessNotification, job
    <3>2. CASE ~ FormulaireQF(Current(i))
      BY <1>4, <3>2, SkipBatch DEF ProcessNotification
    <3> QED  BY <3>1, <3>2
  <2> QED  BY <2>1, <2>2 DEF hubee
<1>5. ASSUME NEW answered \in BOOLEAN, ReadEvent(i, answered) \/ ReadEventRefused(i)
      PROVE  /\ UNCHANGED <<hubee, row, rowless>> /\ unread \subseteq unread'
             /\ Others(i) /\ (batch'[i] = batch[i] \/ batch'[i] = <<>>)
  <2>1. CASE ReadEvent(i, answered)
    BY <1>1, <2>1 DEF ReadEvent, history
  <2>2. CASE ReadEventRefused(i)
    BY <2>2, GotoBatch DEF ReadEventRefused, job
  <2> QED  BY <1>5, <2>1, <2>2
<1>6. CASE LoadShipment(i)
  <2>1. /\ UNCHANGED <<hubee, row, unread>> /\ rowless \subseteq rowless'
        /\ Others(i) /\ batch'[i] = batch[i]
    BY <1>6 DEF LoadShipment, Goto, Others, Inv, LocalInv
  <2> QED  BY <2>1 DEF hubee
<1>7. CASE WriteShipmentStatus(i) \/ AnonymizeShipment(i)
  <2>1. UNCHANGED <<hubee, unread, rowless>> /\ Others(i) /\ batch'[i] = batch[i]
    BY <1>7, GotoBatch DEF history, WriteShipmentStatus, AnonymizeShipment, job
  <2> QED  BY <1>7, <2>1 DEF hubee
<1>8. ASSUME NEW executed \in BOOLEAN, NEW answered \in BOOLEAN,
             \/ CloseCase(i, executed, answered)
             \/ CreateClosedEvent(i, executed, answered)
             \/ CloseFolder(i, executed, answered)
      PROVE  /\ Others(i) /\ (batch'[i] = batch[i] \/ batch'[i] = <<>>)
             /\ UNCHANGED <<siStatus, queue, row, received, unread, rowless>>
             /\ pc[i] \in Closers
             /\ \A call \in late' \ late : call.for = Current(i)
  <2>1. ASSUME NEW from \in Closers, NEW part, NEW to,
               Closing(i, from, part, executed, answered, to)
        PROVE  /\ Others(i) /\ (batch'[i] = batch[i] \/ batch'[i] = <<>>)
               /\ UNCHANGED <<siStatus, queue, row, received, unread, rowless>>
               /\ pc[i] \in Closers
               /\ \A call \in late' \ late : call.for = Current(i)
    BY <1>1, <2>1 DEF Closing, GiveUp, history
  <2> QED  BY <1>8, <2>1 DEF CloseCase, CreateClosedEvent, CloseFolder, Closers
<1>9. ASSUME NEW executed \in BOOLEAN, NEW answered \in BOOLEAN,
             UpdateEvent(i, executed, answered)
      PROVE  /\ Others(i) /\ (batch'[i] = batch[i] \/ batch'[i] = <<>>)
             /\ UNCHANGED <<siStatus, queue, row, unread, rowless>>
             /\ pc[i] = "update_event"
             /\ received' = received \/ received' = received \cup {Current(i)}
             /\ \A call \in late' \ late : call.for = Current(i)
  BY <1>1, <1>9 DEF UpdateEvent, GiveUp, history
<1>10. ASSUME NEW executed \in BOOLEAN, NEW answered \in BOOLEAN,
              DeleteNotification(i, executed, answered), answered /\ ~ executed => MayRefuse
       PROVE  /\ Others(i)
              /\ \/ batch'[i] = <<>>
                 \/ /\ batch'[i] = Tail(batch[i])
                    /\ ~ MayRefuse => queue' = Without(queue, Current(i))
              /\ UNCHANGED <<siStatus, received, row, unread, rowless>>
              /\ pc[i] = "delete" /\ batch[i] # <<>>
              /\ queue' = queue \/ queue' = Without(queue, Current(i))
              /\ \A call \in late' \ late : call.for = Current(i)
  BY <1>10, SkipBatch, RetryBatch, CurrentFacts DEF DeleteNotification, GiveUp, history
<1>11. CASE \E answered \in BOOLEAN : ReadEvent(i, answered) \/ ReadEventRefused(i)
  BY <1>5, <1>11 DEF hubee
<1>12. CASE \E executed \in BOOLEAN, answered \in BOOLEAN :
              \/ CloseCase(i, executed, answered)
              \/ CreateClosedEvent(i, executed, answered)
              \/ CloseFolder(i, executed, answered)
  BY <1>8, <1>12 DEF Closers
<1>13. CASE \E executed \in BOOLEAN, answered \in BOOLEAN : UpdateEvent(i, executed, answered)
  BY <1>9, <1>13
<1>14. CASE \E executed \in BOOLEAN, answered \in BOOLEAN :
              /\ answered /\ ~ executed => MayRefuse
              /\ DeleteNotification(i, executed, answered)
  BY <1>10, <1>14
<1> QED  BY <1>2, <1>3, <1>4, <1>6, <1>7, <1>11, <1>12, <1>13, <1>14 DEF Works, Fails

(* The rows after a job's write. *)
LEMMA WriteRow ==
  ASSUME Inv, NEW i \in Jobs, WriteShipmentStatus(i)
  PROVE  LET n == Current(i) IN
         /\ n \in Own /\ n.of \in Cases /\ n.status \in Processable
         /\ row' = row \/ row' = [row EXCEPT ![n.of].status = n.status]
         /\ \A c \in Cases : /\ row'[c].saved = row[c].saved
                             /\ row'[c].ids = row[c].ids
                             /\ c # n.of => row'[c] = row[c]
         /\ row'[n.of].status = IF memo[i] = n.status THEN row[n.of].status ELSE n.status
         /\ row[n.of].saved
<1> DEFINE n == Current(i)
<1>1. n \in Own /\ n.of \in Cases /\ n.status \in Processable /\ row[n.of].saved
  BY CurrentFacts DEF WriteShipmentStatus, Inv, JobInv
<1> DEFINE Rows == [saved : BOOLEAN, status : Processable \cup {"pending"}, ids : BOOLEAN]
           old == row[n.of]
           new == [old EXCEPT !.status = n.status]
<1>2. row \in [Cases -> Rows] /\ old \in Rows
  BY <1>1 DEF Inv, SharedInv
<1>3. new.saved = old.saved /\ new.ids = old.ids /\ new.status = n.status
  BY <1>1, <1>2
<1>4. row' = IF memo[i] = n.status THEN row ELSE [row EXCEPT ![n.of] = new]
  BY DEF WriteShipmentStatus
<1>5. \A c \in Cases : row'[c] = IF c = n.of /\ memo[i] # n.status THEN new ELSE row[c]
  BY <1>1, <1>2, <1>4
<1> HIDE DEF new
<1> QED  BY <1>1, <1>3, <1>4, <1>5 DEF new

(* The rows after a job's anonymisation. *)
LEMMA AnonymizeRow ==
  ASSUME Inv, NEW i \in Jobs, AnonymizeShipment(i)
  PROVE  LET n == Current(i) IN
         /\ n \in Own /\ n.of \in Cases
         /\ row' = [row EXCEPT ![n.of].ids = FALSE]
         /\ \A c \in Cases : /\ row'[c].saved = row[c].saved
                             /\ row'[c].status = row[c].status
                             /\ c # n.of => row'[c] = row[c]
         /\ ~ row'[n.of].ids
<1> DEFINE n == Current(i)
<1>1. n \in Own /\ n.of \in Cases
  BY CurrentFacts DEF AnonymizeShipment
<1> DEFINE Rows == [saved : BOOLEAN, status : Processable \cup {"pending"}, ids : BOOLEAN]
           old == row[n.of]
           new == [old EXCEPT !.ids = FALSE]
<1>2. row \in [Cases -> Rows] /\ old \in Rows
  BY <1>1 DEF Inv, SharedInv
<1>3. new.saved = old.saved /\ new.status = old.status /\ ~ new.ids
  BY <1>1, <1>2
<1>4. row' = [row EXCEPT ![n.of] = new]
  BY DEF AnonymizeShipment
<1>5. \A c \in Cases : row'[c] = IF c = n.of THEN new ELSE row[c]
  BY <1>1, <1>2, <1>4
<1> HIDE DEF new
<1> QED  BY <1>1, <1>3, <1>4, <1>5 DEF new
-----------------------------------------------------------------------------
(* HeardInv is inductive.                                                  *)

(* A case takes the status s and its notification n joins the queue. *)
LEMMA CaseMovesHeard ==
  ASSUME Inv, Inv', HeardInv, NEW c \in Cases, NEW n \in Known, NEW s \in Statuses,
         siStatus[c] = None \/ Rank(siStatus[c]) < Rank(s),
         siStatus' = [siStatus EXCEPT ![c] = s],
         n.of = c, n.status \in {None, s},
         queue' = Append(queue, n),
         UNCHANGED <<received, late, row, batch>>
  PROVE  HeardInv'
<1>1. Range(queue') = Range(queue) \cup {n}
  BY AppendFacts DEF Inv, SharedInv
<1>2. siStatus'[c] = s /\ Rises
  BY DEF Rises, Inv, SharedInv
<1>3. Behind(n)'
  BY <1>2, StatusTypes DEF Behind, Reached
<1>4. \A m \in Range(queue') : m \in Range(queue) \/ Behind(m)'
  BY <1>1, <1>3
<1>5. \A d \in Cases :
        /\ row'[d].saved => siStatus[d] # None
        /\ row'[d].status # "pending" => row'[d].saved /\ Reached(d, row'[d].status)
  BY DEF HeardInv
<1> QED  BY <1>2, <1>4, <1>5, HeardStays

LEMMA WorldHeard ==
  ASSUME Inv, Inv', HeardInv, World
  PROVE  HeardInv'
<1>1. ASSUME NEW call \in late, HubEEIsLate(call)  PROVE HeardInv'
  <2>1. Range(queue') \subseteq Range(queue)
    BY <1>1, WithoutRange DEF HubEEIsLate, Inv, SharedInv
  <2>2. Rises /\ UNCHANGED <<row, batch>> /\ late' \subseteq late
    BY <1>1 DEF HubEEIsLate, job, Rises
  <2>3. \A n \in received' \ received : Behind(n)
    BY <1>1 DEF HubEEIsLate, HeardInv
  <2>4. \A d \in Cases :
          /\ row'[d].saved => siStatus[d] # None
          /\ row'[d].status # "pending" => row'[d].saved /\ Reached(d, row'[d].status)
    BY <2>2 DEF HeardInv
  <2> QED  BY <2>1, <2>2, <2>3, <2>4, HeardStays
<1>2. ASSUME NEW c \in Cases, FolderCompleted(c)  PROVE HeardInv'
  <2>1. NewFolder(c) \in Known /\ NewFolder(c).of = c /\ NewFolder(c).status = None
    BY KnownNotifications DEF NewFolder
  <2>2. "opened" \in Statuses
    BY DEF Statuses
  <2> QED  BY <1>2, <2>1, <2>2, CaseMovesHeard DEF FolderCompleted, job
<1>3. ASSUME NEW c \in Cases, CreateShipment(c)  PROVE HeardInv'
  <2>1. siStatus[c] # None /\ Rises /\ UNCHANGED <<queue, received, late, batch>>
    BY <1>3 DEF CreateShipment, hubee, job, Rises
  <2>2. \A d \in Cases :
          /\ row'[d].saved => siStatus[d] # None
          /\ row'[d].status # "pending" => row'[d].saved /\ Reached(d, row'[d].status)
    BY <1>3, <2>1 DEF CreateShipment, HeardInv, Inv, SharedInv
  <2> QED  BY <2>1, <2>2, HeardStays
<1>4. ASSUME NEW c \in Cases, SIUpdatesCase(c)  PROVE HeardInv'
  <2>1. PICK s \in SIStatuses : /\ Rank(siStatus[c]) < Rank(s)
                                /\ siStatus' = [siStatus EXCEPT ![c] = s]
                                /\ queue' = Append(queue, StatusUpdate(c, s))
    BY <1>4 DEF SIUpdatesCase
  <2>2. s \in Processable \cup {"hubee_notified"}
    BY StatusesAssumption
  <2>3. StatusUpdate(c, s) \in Known
    BY <2>2, KnownNotifications, OwnFacts
  <2>4. s \in Statuses /\ StatusUpdate(c, s).of = c /\ StatusUpdate(c, s).status = s
    BY <2>2 DEF Statuses, StatusUpdate
  <2> QED  BY <1>4, <2>1, <2>3, <2>4, CaseMovesHeard DEF SIUpdatesCase, job
<1>5. ASSUME NEW c \in Cases, SIDepositsAttachment(c)  PROVE HeardInv'
  <2>1. AttachDeposit(c) \in Known /\ AttachDeposit(c).of = c /\ AttachDeposit(c).status = None
    BY KnownNotifications DEF AttachDeposit
  <2>2. "deposited" \in Statuses /\ Rank(siStatus[c]) < Rank("deposited")
    BY <1>5, RankValues DEF Statuses, SIDepositsAttachment
  <2> QED  BY <1>5, <2>1, <2>2, CaseMovesHeard DEF SIDepositsAttachment, job
<1>6. ASSUME NEW i \in Foreign, ForeignArrives(i) \/ ForeignIsConsumed(i)  PROVE HeardInv'
  <2>1. Other(i) \in Known /\ Other(i) \notin Own
    BY KnownNotifications DEF Own, FormulaireQF, Other
  <2>2. \A n \in Range(queue') : n \in Range(queue) \/ n \notin Own
    <3>1. Range(Append(queue, Other(i))) = Range(queue) \cup {Other(i)}
      BY <2>1, AppendFacts DEF Inv, SharedInv
    <3>2. Range(Without(queue, Other(i))) \subseteq Range(queue)
      BY WithoutRange DEF Inv, SharedInv
    <3> QED  BY <1>6, <2>1, <3>1, <3>2 DEF ForeignArrives, ForeignIsConsumed
  <2>3. UNCHANGED <<siStatus, received, late, row, batch>> /\ Rises
    BY <1>6 DEF ForeignArrives, ForeignIsConsumed, job, Rises
  <2>4. \A d \in Cases :
          /\ row'[d].saved => siStatus[d] # None
          /\ row'[d].status # "pending" => row'[d].saved /\ Reached(d, row'[d].status)
    BY <2>3 DEF HeardInv
  <2> QED  BY <2>2, <2>3, <2>4, HeardStays
<1> QED  BY <1>1, <1>2, <1>3, <1>4, <1>5, <1>6 DEF World

(* Where the batch of a job comes from. *)
LEMMA JobBatchRange ==
  ASSUME Inv, NEW i \in Jobs, Enqueue(i) \/ Works(i) \/ Fails(i), NEW j \in Jobs
  PROVE  Range(batch'[j]) \subseteq Range(batch[j]) \cup Range(queue)
<1>1. CASE j # i
  BY <1>1, JobStep DEF Others
<1>2. CASE j = i
  <2>1. CASE batch'[i] = batch[i]
    BY <1>2, <2>1
  <2>2. CASE batch'[i] = <<>>
    BY <1>2, <2>2 DEF Range
  <2>3. CASE batch[i] # <<>> /\ batch'[i] = Tail(batch[i])
    BY <1>2, <2>3, TailFacts DEF Inv, LocalInv
  <2>4. CASE FetchNotifications(i)
    <3> DEFINE count == IF Len(queue) < ItemsCount THEN Len(queue) ELSE ItemsCount
    <3>1. batch'[i] = SubSeq(queue, 1, count)
      BY <2>4 DEF FetchNotifications, Inv, LocalInv
    <3>2. queue \in Seq(Known) /\ count \in 0..Len(queue)
      BY BoundsAssumption, LenProperties DEF Inv, SharedInv
    <3> HIDE DEF count
    <3> QED  BY <1>2, <3>1, <3>2, PrefixSorted
  <2> QED  BY <2>1, <2>2, <2>3, <2>4, JobStep
<1> QED  BY <1>1, <1>2

LEMMA JobHeard ==
  ASSUME Inv, Inv', HeardInv, NEW i \in Jobs, Enqueue(i) \/ Works(i) \/ Fails(i)
  PROVE  HeardInv'
<1>1. Rises
  BY JobStep DEF Rises
<1>2. Range(queue') \subseteq Range(queue)
  BY JobStep, WithoutRange DEF Inv, SharedInv
<1>3. \A j \in Jobs : Range(batch'[j]) \subseteq Range(batch[j]) \cup Range(queue)
  BY JobBatchRange
<1>4. pc[i] \notin {"idle", "fetch", "next"} => Behind(Current(i))
  <2> SUFFICES ASSUME pc[i] \notin {"idle", "fetch", "next"}  PROVE Behind(Current(i))
    OBVIOUS
  <2>1. batch[i] \in Seq(Known) /\ batch[i] # <<>> /\ Current(i) \in Own
    BY CurrentFacts DEF Inv, LocalInv
  <2>2. Current(i) \in Range(batch[i])
    BY <2>1, TailFacts DEF Current
  <2> QED  BY <2>1, <2>2 DEF HeardInv
<1>5. \A n \in received' \ received : Behind(n)
  BY <1>4, JobStep
<1>6. \A call \in late' \ late : Behind(call.for)
  BY <1>4, JobStep DEF Closers
<1>7. ASSUME NEW d \in Cases
      PROVE  /\ row'[d].saved => siStatus[d] # None
             /\ row'[d].status # "pending" => row'[d].saved /\ Reached(d, row'[d].status)
  <2>1. CASE row' = row
    BY <2>1 DEF HeardInv
  <2>2. CASE WriteShipmentStatus(i)
    <3>1. CASE d = Current(i).of /\ row'[d].status = Current(i).status
      <4>1. Behind(Current(i)) /\ Current(i).status # None
        BY <1>4, <2>2, WriteRow, NoneAssumption DEF WriteShipmentStatus
      <4> QED  BY <2>2, <3>1, <4>1, WriteRow DEF Behind
    <3>2. CASE d # Current(i).of \/ row'[d].status # Current(i).status
      <4>1. row'[d].saved = row[d].saved /\ row'[d].status = row[d].status
        BY <2>2, <3>2, WriteRow
      <4> QED  BY <4>1 DEF HeardInv
    <3> QED  BY <3>1, <3>2
  <2>3. CASE AnonymizeShipment(i)
    BY <2>3, AnonymizeRow DEF HeardInv
  <2> QED  BY <2>1, <2>2, <2>3, JobStep
<1> QED  BY <1>1, <1>2, <1>3, <1>5, <1>6, <1>7, HeardStays

LEMMA InitHeard == Init => HeardInv
<1> SUFFICES ASSUME Init PROVE HeardInv
  OBVIOUS
<1>1. Range(<<>>) = {}
  BY DEF Range
<1> QED  BY <1>1 DEF Init, HeardInv, NoRow

LEMMA NextHeard == Inv /\ Inv' /\ HeardInv /\ [Next]_vars => HeardInv'
<1> SUFFICES ASSUME Inv, Inv', HeardInv, [Next]_vars PROVE HeardInv'
  OBVIOUS
<1>1. CASE UNCHANGED vars
  <2>1. Rises /\ UNCHANGED <<queue, received, late, row, batch>>
    BY <1>1 DEF vars, hubee, job, Rises
  <2>2. \A d \in Cases :
          /\ row'[d].saved => siStatus[d] # None
          /\ row'[d].status # "pending" => row'[d].saved /\ Reached(d, row'[d].status)
    BY <2>1 DEF HeardInv
  <2> QED  BY <2>1, <2>2, HeardStays
<1> QED  BY <1>1, WorldHeard, JobHeard DEF Next

(* However many jobs overlap and whatever fails, no notification, no call  *)
(* that HubEE still has and no Shipment tells more than the case has seen: *)
(* a Shipment's status is one its case has reached.                        *)
THEOREM ShipmentsNeverRunAhead == Spec => [](Inv /\ HeardInv)
BY NotificationsInvariance, InitInv, NextInv, InitHeard, NextHeard, PTL DEF Spec
-----------------------------------------------------------------------------
(* What a composition relies on.                                           *)

(* Queue and batches hold what HubEE makes. *)
LEMMA QueueAndBatchKnown ==
  ASSUME Inv
  PROVE  /\ queue \in Seq(Known) /\ Range(queue) \subseteq Known
         /\ \A j \in Jobs : batch[j] \in Seq(Known) /\ Range(batch[j]) \subseteq Known
<1>1. ASSUME NEW q \in Seq(Known)  PROVE Range(q) \subseteq Known
  BY RangeEquality
<1> QED  BY <1>1 DEF Inv, SharedInv, LocalInv

(* A job neither moves a case on nor saves a row. *)
LEMMA JobKeepsSaved ==
  ASSUME Inv, NEW i \in Jobs, Enqueue(i) \/ Works(i) \/ Fails(i)
  PROVE  siStatus' = siStatus /\ \A c \in Cases : row'[c].saved = row[c].saved
BY JobStep, WriteRow, AnonymizeRow

(* An update finds no row while its case is on HubEE and no row has its    *)
(* ids.                                                                    *)
LEMMA RowlessStep ==
  ASSUME Inv, HeardInv, [Next]_vars, NEW n \in rowless' \ rowless
  PROVE  n.of \in Cases /\ siStatus[n.of] # None /\ ~ row[n.of].ids
<1>1. \E i \in Jobs : LoadShipment(i)
  <2>1. ~ UNCHANGED vars /\ ~ World
    BY DEF vars, history, World, HubEEIsLate, FolderCompleted, CreateShipment,
           SIUpdatesCase, SIDepositsAttachment, ForeignArrives, ForeignIsConsumed
  <2>2. PICK i \in Jobs : Enqueue(i) \/ Works(i) \/ Fails(i)
    BY <2>1 DEF Next
  <2>3. CASE Works(i)
    BY <2>3 DEF Works, history, FetchNotifications, ProcessNotification, EndOfBatch,
                ReadEvent, WriteShipmentStatus, CloseCase, CreateClosedEvent, CloseFolder,
                Closing, AnonymizeShipment, UpdateEvent, DeleteNotification
  <2>4. ~ Enqueue(i) /\ ~ Fails(i)
    BY DEF Enqueue, Fails, history, FetchRaises, ReadEvent, ReadEventRefused, CloseCase,
           CreateClosedEvent, CloseFolder, Closing, UpdateEvent, DeleteNotification, Dies,
           Interrupted
  <2> QED  BY <2>2, <2>3, <2>4
<1>2. PICK i \in Jobs : LoadShipment(i)
  BY <1>1
<1>3. n = Current(i) /\ ~ row[n.of].ids
  BY <1>2 DEF LoadShipment
<1>4. pc[i] = "load" /\ Inv
  BY <1>2 DEF LoadShipment
<1>5. n \in Own /\ n.of \in Cases /\ batch[i] # <<>>
  BY <1>3, <1>4, CurrentFacts
<1>6. n \in Range(batch[i])
  BY <1>3, <1>4, <1>5, QueueAndBatchKnown, TailFacts DEF Current
<1> QED  BY <1>3, <1>5, <1>6 DEF HeardInv, Behind

-----------------------------------------------------------------------------
(* One job at a time.  From the load to the end of the closing calls the   *)
(* row is the one the job found, with its ids, and from the write on it    *)
(* has the status of the notification.                                     *)
OneJob == \A i, j \in Jobs : i = j

SoloJob(j) ==
  LET n == Current(j) IN
  /\ pc[j] = "write" => row[n.of].ids /\ memo[j] = row[n.of].status
  /\ \/ pc[j] \in {"close_case", "create_event"} /\ memo[j] # None
     \/ pc[j] \in {"close_folder", "anonymize"}
     => row[n.of].ids /\ row[n.of].status = n.status

SoloInv == \A j \in Jobs : SoloJob(j)

(* The steps after which SoloJob has something to say. *)
LEMMA SoloStep ==
  ASSUME Inv, NEW i \in Jobs, SoloJob(i), Enqueue(i) \/ Works(i) \/ Fails(i)
  PROVE  SoloJob(i)'
<1> DEFINE Quiet == {"idle", "fetch", "next", "event", "load", "update_event", "delete"}
<1>1. SUFFICES ASSUME pc'[i] \notin Quiet  PROVE SoloJob(i)'
  BY DEF SoloJob
<1>2. ASSUME NEW to \in {"idle", "fetch"}, NEW n, Restart(i, to, n)  PROVE FALSE
  BY <1>1, <1>2, RestartBatch
<1>3. ASSUME Retry(i) \/ Skip(i)  PROVE FALSE
  BY <1>1, <1>3, RetryBatch, SkipBatch
<1>4. ASSUME NEW to \in Quiet, Goto(i, to)  PROVE FALSE
  BY <1>1, <1>4 DEF Goto, Inv, LocalInv
<1>5. CASE Enqueue(i) \/ EndOfBatch(i) \/ Dies(i) \/ Interrupted(i) \/ FetchRaises(i)
  BY <1>2, <1>3, <1>5 DEF Enqueue, EndOfBatch, Dies, Interrupted, FetchRaises
<1>6. CASE FetchNotifications(i) \/ ProcessNotification(i) \/ ReadEventRefused(i)
  BY <1>3, <1>4, <1>6 DEF FetchNotifications, ProcessNotification, ReadEventRefused
<1>7. ASSUME NEW answered \in BOOLEAN, ReadEvent(i, answered)  PROVE FALSE
  BY <1>3, <1>4, <1>7 DEF ReadEvent, Continue
<1>8. CASE LoadShipment(i)
  <2>1. /\ Current(i)' = Current(i) /\ row' = row
        /\ memo'[i] = IF row[Current(i).of].ids THEN row[Current(i).of].status ELSE None
        /\ pc'[i] = IF row[Current(i).of].ids THEN "write"
                    ELSE IF Final(Current(i)) THEN "close_case" ELSE "update_event"
    BY <1>8 DEF LoadShipment, Goto, Current, Inv, LocalInv
  <2> QED  BY <2>1 DEF SoloJob
<1>9. CASE WriteShipmentStatus(i)
  <2> DEFINE n == Current(i)
  <2>1. pc[i] = "write" /\ row[n.of].ids /\ memo[i] = row[n.of].status
    BY <1>9 DEF WriteShipmentStatus, SoloJob
  <2>2. Current(i)' = n /\ pc'[i] \in {"close_case", "update_event"}
    BY <1>9 DEF WriteShipmentStatus, job, Current, Goto, Inv, LocalInv
  <2>3. row'[n.of].ids /\ row'[n.of].status = n.status
    BY <1>9, <2>1, WriteRow
  <2> QED  BY <2>2, <2>3 DEF SoloJob
<1>10. CASE AnonymizeShipment(i)
  BY <1>4, <1>10 DEF AnonymizeShipment
<1>11. ASSUME NEW executed \in BOOLEAN, NEW answered \in BOOLEAN,
              UpdateEvent(i, executed, answered) \/ DeleteNotification(i, executed, answered)
       PROVE  FALSE
  BY <1>3, <1>4, <1>11 DEF UpdateEvent, DeleteNotification, Continue
<1>12. ASSUME NEW executed \in BOOLEAN, NEW answered \in BOOLEAN,
              \/ CloseCase(i, executed, answered)
              \/ CreateClosedEvent(i, executed, answered)
              \/ CloseFolder(i, executed, answered)
       PROVE  SoloJob(i)'
  <2>1. ASSUME NEW from, NEW part, NEW to, Closing(i, from, part, executed, answered, to)
        PROVE  /\ pc[i] = from /\ row' = row /\ pc'[i] = to
               /\ Current(i)' = Current(i) /\ memo'[i] = memo[i]
    BY <1>3, <2>1, GotoBatch DEF Closing, Continue, job, Current
  <2>2. CASE CloseCase(i, executed, answered)
    <3>1. /\ pc[i] = "close_case" /\ row' = row /\ pc'[i] = "create_event"
          /\ Current(i)' = Current(i) /\ memo'[i] = memo[i]
      BY <2>1, <2>2 DEF CloseCase
    <3> QED  BY <3>1 DEF SoloJob
  <2>3. CASE CreateClosedEvent(i, executed, answered)
    <3>1. /\ pc[i] = "create_event" /\ row' = row
          /\ pc'[i] = IF memo[i] = None THEN "update_event" ELSE "close_folder"
          /\ Current(i)' = Current(i) /\ memo'[i] = memo[i]
      BY <2>1, <2>3 DEF CreateClosedEvent
    <3> QED  BY <3>1 DEF SoloJob
  <2>4. CASE CloseFolder(i, executed, answered)
    <3>1. /\ pc[i] = "close_folder" /\ row' = row /\ pc'[i] = "anonymize"
          /\ Current(i)' = Current(i) /\ memo'[i] = memo[i]
      BY <2>1, <2>4 DEF CloseFolder
    <3> QED  BY <3>1 DEF SoloJob
  <2> QED  BY <1>12, <2>2, <2>3, <2>4
<1> QED  BY <1>5, <1>6, <1>7, <1>8, <1>9, <1>10, <1>11, <1>12 DEF Works, Fails

LEMMA InitSolo == Init => SoloInv
BY DEF Init, SoloInv, SoloJob

LEMMA NextSolo ==
  ASSUME OneJob
  PROVE  Inv /\ SoloInv /\ [Next]_vars => SoloInv'
<1> SUFFICES ASSUME Inv, SoloInv, [Next]_vars PROVE SoloInv'
  OBVIOUS
<1>1. CASE World \/ UNCHANGED vars
  <2>1. UNCHANGED <<pc, job>>
    BY <1>1 DEF World, HubEEIsLate, FolderCompleted, CreateShipment, SIUpdatesCase,
       SIDepositsAttachment, ForeignArrives, ForeignIsConsumed, vars
  <2>2. row' = row \/ \E c \in Cases : CreateShipment(c)
    BY <1>1 DEF World, HubEEIsLate, FolderCompleted, SIUpdatesCase, SIDepositsAttachment,
       ForeignArrives, ForeignIsConsumed, vars
  <2>3. \A c \in Cases : row[c].ids => row'[c] = row[c]
    BY <2>2 DEF CreateShipment, Inv, SharedInv
  <2>4. ASSUME NEW j \in Jobs  PROVE SoloJob(j)'
    <3>1. Current(j)' = Current(j) /\ pc'[j] = pc[j] /\ memo'[j] = memo[j]
      BY <2>1 DEF Current, job
    <3>2. pc[j] \notin {"idle", "fetch", "next"} => Current(j).of \in Cases
      BY CurrentFacts
    <3> QED  BY <2>3, <3>1, <3>2 DEF SoloInv, SoloJob
  <2> QED  BY <2>4 DEF SoloInv
<1>2. ASSUME NEW i \in Jobs, Enqueue(i) \/ Works(i) \/ Fails(i)  PROVE SoloInv'
  BY <1>2, SoloStep DEF OneJob, SoloInv
<1> QED  BY <1>1, <1>2 DEF Next

(* What a step of a job finds in the row that it writes. *)
LEMMA RowStep ==
  ASSUME Inv, SoloInv, [Next]_vars
  PROVE  \/ row' = row
         \/ \E c \in Cases : CreateShipment(c)
         \/ \E i \in Jobs :
              /\ WriteShipmentStatus(i)
              /\ row[Current(i).of].ids /\ memo[i] = row[Current(i).of].status
         \/ \E i \in Jobs :
              /\ AnonymizeShipment(i)
              /\ row[Current(i).of].ids /\ row[Current(i).of].status = Current(i).status
<1>1. CASE World \/ UNCHANGED vars
  BY <1>1 DEF World, HubEEIsLate, FolderCompleted, SIUpdatesCase, SIDepositsAttachment,
     ForeignArrives, ForeignIsConsumed, vars
<1>2. ASSUME NEW i \in Jobs, Enqueue(i) \/ Works(i) \/ Fails(i), row' # row
      PROVE  \/ /\ WriteShipmentStatus(i)
                /\ row[Current(i).of].ids /\ memo[i] = row[Current(i).of].status
             \/ /\ AnonymizeShipment(i)
                /\ row[Current(i).of].ids /\ row[Current(i).of].status = Current(i).status
  BY <1>2, JobStep DEF WriteShipmentStatus, AnonymizeShipment, SoloInv, SoloJob
<1> QED  BY <1>1, <1>2 DEF Next

(* One job at a time never touches a Shipment that lost its ids, whatever  *)
(* HubEE refuses, leaves without an answer or executes late.               *)
THEOREM AnonymisedRowsAreFrozen ==
  ASSUME OneJob
  PROVE  Spec => AnonymisedIsFrozen
<1> DEFINE Frozen == \A c \in Cases : row[c].saved /\ ~ row[c].ids => row'[c] = row[c]
<1>1. Inv /\ SoloInv /\ [Next]_vars => [Frozen]_vars
  <2> SUFFICES ASSUME Inv, SoloInv, [Next]_vars, NEW c \in Cases, row[c].saved, ~ row[c].ids
               PROVE  row'[c] = row[c]
    OBVIOUS
  <2>1. ASSUME NEW d \in Cases, CreateShipment(d)  PROVE row'[c] = row[c]
    BY <2>1 DEF CreateShipment, Inv, SharedInv
  <2>2. ASSUME NEW i \in Jobs, WriteShipmentStatus(i), row[Current(i).of].ids
        PROVE  row'[c] = row[c]
    BY <2>2, WriteRow
  <2>3. ASSUME NEW i \in Jobs, AnonymizeShipment(i), row[Current(i).of].ids
        PROVE  row'[c] = row[c]
    BY <2>3, AnonymizeRow
  <2> QED  BY <2>1, <2>2, <2>3, RowStep
<1> QED  BY <1>1, NotificationsInvariance, InitSolo, NextSolo, PTL DEF Spec, AnonymisedIsFrozen
-----------------------------------------------------------------------------
(* One job at a time and a HubEE that does what it answers.  The updates   *)
(* of a case are queued and processed in order, and a batch holds all the  *)
(* updates that are older than one of its own, so none that a Shipment     *)
(* still has to get is older than the one it has.                          *)

(* The Shipment has not gone beyond the update n. *)
NotPast(n) ==
  n.status # None =>
    \/ row[n.of].status \in {"pending", n.status}
    \/ Rank(row[n.of].status) < Rank(n.status)

JobOrder(j) ==
  /\ Sorted(batch[j])
  /\ \A m \in Range(batch[j]) :
       /\ m \in Own => NotPast(m)
       /\ \A n \in Range(queue) :
            SameCase(m, n) /\ Rank(n.status) < Rank(m.status) => n \in Range(batch[j])

OrderInv ==
  /\ Sorted(queue)
  /\ \A n \in Range(queue) : n \in Own => NotPast(n)
  /\ \A j \in Jobs : JobOrder(j)

(* The updates of the notifications HubEE makes. *)
LEMMA KnownUpdates ==
  ASSUME NEW n \in Known, n.status # None
  PROVE  n \in Own /\ n.status \in Statuses /\ Rank(n.status) \in Nat
<1>1. n \in Own
  BY DEF Known, Own, FormulaireQF
<1> QED  BY <1>1, OwnFacts, RankType DEF Statuses

(* Steps that append nothing, fetch nothing and write no status. *)
LEMMA OrderStays ==
  ASSUME Inv, OrderInv, Sorted(queue'), Range(queue') \subseteq Range(queue),
         \A c \in Cases : row'[c].status \in {row[c].status, "pending"},
         \A j \in Jobs :
           \/ batch'[j] = batch[j]
           \/ /\ Sorted(batch'[j]) /\ Range(batch'[j]) \subseteq Range(batch[j])
              /\ \A n \in Range(queue') :
                   n.status # None /\ n \in Range(batch[j]) => n \in Range(batch'[j])
           \/ batch'[j] = <<>>
  PROVE  OrderInv'
<1>1. ASSUME NEW n \in Own, NotPast(n)  PROVE NotPast(n)'
  BY <1>1, OwnFacts DEF NotPast
<1>2. \A n \in Range(queue') : n \in Own => NotPast(n)'
  BY <1>1 DEF OrderInv
<1>3. ASSUME NEW j \in Jobs  PROVE JobOrder(j)'
  <2>1. CASE batch'[j] = <<>>
    BY <2>1 DEF JobOrder, Sorted, Range
  <2>2. CASE batch'[j] # <<>>
    <3>1. Sorted(batch'[j]) /\ Range(batch'[j]) \subseteq Range(batch[j])
      BY <2>2 DEF OrderInv, JobOrder
    <3>2. \A n \in Range(queue') :
            n.status # None /\ n \in Range(batch[j]) => n \in Range(batch'[j])
      BY <2>2
    <3>3. \A m \in Range(batch'[j]) : m \in Own => NotPast(m)'
      BY <1>1, <3>1 DEF OrderInv, JobOrder
    <3>4. ASSUME NEW m \in Range(batch'[j]), NEW n \in Range(queue'),
                 SameCase(m, n), Rank(n.status) < Rank(m.status)
          PROVE  n \in Range(batch'[j])
      BY <3>1, <3>2, <3>4 DEF OrderInv, JobOrder, SameCase
    <3> QED  BY <3>1, <3>3, <3>4 DEF JobOrder
  <2> QED  BY <2>1, <2>2
<1> QED  BY <1>2, <1>3 DEF OrderInv

(* A notification joins the queue: the update of a case is its latest. *)
LEMMA AppendOrder ==
  ASSUME Inv, HeardInv, OrderInv, NEW n \in Known, queue' = Append(queue, n),
         UNCHANGED <<row, batch>>,
         n.status # None =>
           /\ siStatus[n.of] \in Statuses
           /\ Rank(siStatus[n.of]) < Rank(n.status)
  PROVE  OrderInv'
<1>1. Range(queue') = Range(queue) \cup {n}
  BY AppendFacts, QueueAndBatchKnown
<1>2. ASSUME NEW m \in Known, SameCase(m, n), m \in Own => Behind(m)
      PROVE  Rank(m.status) < Rank(n.status) /\ ~ (Rank(n.status) < Rank(m.status))
  <2>1. m \in Own /\ n \in Own /\ m.of = n.of
    BY <1>2, KnownUpdates DEF SameCase
  <2>2. Rank(m.status) \in Nat /\ Rank(n.status) \in Nat /\ Rank(siStatus[n.of]) \in Nat
    BY <1>2, KnownUpdates, RankType DEF SameCase
  <2>3. m.status = siStatus[n.of] \/ Rank(m.status) < Rank(siStatus[n.of])
    BY <1>2, <2>1 DEF Behind, Reached, SameCase
  <2>4. Rank(siStatus[n.of]) < Rank(n.status)
    BY <1>2 DEF SameCase
  <2> QED  BY <2>2, <2>3, <2>4
<1>3. \A m \in Range(queue) : SameCase(m, n) => Rank(m.status) < Rank(n.status)
  BY <1>2, QueueAndBatchKnown DEF HeardInv
<1>4. Sorted(queue')
  BY <1>3, AppendSorted, QueueAndBatchKnown DEF OrderInv
<1>5. n \in Own => NotPast(n)
  <2> SUFFICES ASSUME n \in Own, n.status # None, row[n.of].status # "pending"
               PROVE  Rank(row[n.of].status) < Rank(n.status)
    BY DEF NotPast
  <2>1. n.of \in Cases
    BY OwnFacts
  <2>2. row[n.of].status \in Statuses /\ Reached(n.of, row[n.of].status)
    BY <2>1, StatusTypes DEF HeardInv
  <2>3. Rank(row[n.of].status) \in Nat /\ Rank(n.status) \in Nat /\ Rank(siStatus[n.of]) \in Nat
    BY <2>2, KnownUpdates, RankType
  <2> QED  BY <2>2, <2>3 DEF Reached
<1>6. \A m \in Range(queue') : m \in Own => NotPast(m)'
  BY <1>1, <1>5 DEF OrderInv, NotPast
<1>7. ASSUME NEW j \in Jobs  PROVE JobOrder(j)'
  <2>1. ASSUME NEW m \in Range(batch[j]), SameCase(m, n), Rank(n.status) < Rank(m.status)
        PROVE  FALSE
    BY <1>2, <2>1, QueueAndBatchKnown DEF HeardInv
  <2> QED  BY <1>1, <2>1 DEF OrderInv, JobOrder, NotPast
<1> QED  BY <1>4, <1>6, <1>7 DEF OrderInv

(* A notification leaves the queue. *)
LEMMA WithoutOrder ==
  ASSUME Inv, OrderInv, NEW n \in Known
  PROVE  LET q == Without(queue, n) IN
         /\ Sorted(q) /\ Range(q) \subseteq Range(queue)
         /\ n.status # None => n \notin Range(q)
BY WithoutSorted, WithoutRange, QueueAndBatchKnown, KnownUpdates DEF OrderInv
(* The write: what the Shipment still has to get is not older. *)
LEMMA WriteOrder ==
  ASSUME Inv, HeardInv, SoloInv, OrderInv, OneJob, NEW i \in Jobs, WriteShipmentStatus(i)
  PROVE  OrderInv'
<1> DEFINE n == Current(i)
<1>1. /\ n \in Own /\ n.of \in Cases /\ n.status \in Processable
      /\ \A c \in Cases : c # n.of => row'[c] = row[c]
  BY WriteRow
<1>2. row'[n.of].status = n.status
  BY WriteRow DEF WriteShipmentStatus, SoloInv, SoloJob
<1>3. UNCHANGED <<siStatus, queue, batch>>
  BY DEF WriteShipmentStatus, hubee, job
<1>4. batch[i] \in Seq(Known) /\ batch[i] # <<>> /\ n = Head(batch[i])
  BY CurrentFacts, QueueAndBatchKnown DEF WriteShipmentStatus, Current
<1>5. n \in Range(batch[i]) /\ Behind(n) /\ n \in Known /\ n.status # None
  BY <1>1, <1>4, TailFacts, OwnFacts, NoneAssumption DEF HeardInv
<1> HIDE DEF n
<1>6. ASSUME NEW m \in Own, NotPast(m), m.of # n.of \/ m.status = None
      PROVE  NotPast(m)'
  BY <1>1, <1>6, OwnFacts DEF NotPast
<1>7. ASSUME NEW m \in Range(batch[i]), m \in Own  PROVE NotPast(m)'
  <2>1. NotPast(m)
    BY <1>7 DEF OrderInv, JobOrder
  <2>2. CASE m = n
    BY <1>2, <2>2 DEF NotPast
  <2>3. CASE m # n /\ SameCase(n, m)
    <3>1. m \in Range(Tail(batch[i]))
      BY <1>4, <2>3, TailFacts
    <3>2. Rank(n.status) < Rank(m.status)
      BY <1>4, <2>3, <3>1, TailSorted DEF OrderInv, JobOrder
    <3> QED  BY <1>2, <2>3, <3>2 DEF NotPast, SameCase
  <2> QED  BY <1>5, <1>6, <1>7, <2>1, <2>2, <2>3 DEF SameCase
<1>8. ASSUME NEW m \in Range(queue), m \in Own  PROVE NotPast(m)'
  <2>1. NotPast(m) /\ Behind(m) /\ m \in Known
    BY <1>8, OwnFacts DEF OrderInv, HeardInv
  <2>2. CASE m \in Range(batch[i])
    BY <1>7, <1>8, <2>2
  <2>3. CASE m \notin Range(batch[i]) /\ SameCase(n, m)
    <3>1. ~ (Rank(m.status) < Rank(n.status))
      BY <1>5, <2>3 DEF OrderInv, JobOrder
    <3>2. /\ m.status \in Statuses /\ Rank(m.status) \in Nat
          /\ n.status \in Statuses /\ Rank(n.status) \in Nat
      BY <1>5, <2>1, <2>3, KnownUpdates DEF SameCase
    <3>3. Rank(m.status) = Rank(n.status) => m.status = n.status
      <4> SUFFICES ASSUME Rank(m.status) = Rank(n.status), m.status # n.status PROVE FALSE
        OBVIOUS
      <4>1. n.status # "deposited" /\ m.status # "deposited"
        BY <1>1, <1>8, <2>3, OwnFacts, NoneAssumption DEF Processable, FinalStatuses, SameCase
      <4>2. n.status # "hubee_notified"
        BY <1>1 DEF Processable, FinalStatuses
      <4>3. m.status \in FinalStatuses /\ n.status \in FinalStatuses
        BY <3>2, <4>1, <4>2, RankType
      <4>4. siStatus[n.of] \in Statuses /\ Reached(n.of, m.status) /\ Reached(n.of, n.status)
        BY <1>1, <1>5, <2>1, <2>3, StatusTypes DEF Behind, SameCase
      <4>5. Rank(siStatus[n.of]) \in Nat /\ Rank(siStatus[n.of]) <= Rank(n.status)
        BY <4>3, <4>4, RankType
      <4> QED  BY <3>2, <4>4, <4>5 DEF Reached
    <3> QED  BY <1>2, <2>3, <3>1, <3>2, <3>3 DEF NotPast, SameCase
  <2> QED  BY <1>5, <1>6, <1>8, <2>1, <2>2, <2>3 DEF SameCase
<1>9. ASSUME NEW j \in Jobs  PROVE JobOrder(j)'
  BY <1>3, <1>7 DEF OneJob, OrderInv, JobOrder
<1> QED  BY <1>3, <1>8, <1>9 DEF OrderInv

(* The fetch: a job takes the oldest notifications. *)
LEMMA FetchOrder ==
  ASSUME Inv, OrderInv, NEW i \in Jobs, FetchNotifications(i)
  PROVE  OrderInv'
<1> DEFINE count == IF Len(queue) < ItemsCount THEN Len(queue) ELSE ItemsCount
           p == SubSeq(queue, 1, count)
<1>1. /\ batch'[i] = p /\ \A j \in Jobs \ {i} : batch'[j] = batch[j]
      /\ UNCHANGED <<queue, row>>
  BY DEF FetchNotifications, Inv, LocalInv, hubee
<1>2. queue \in Seq(Known) /\ count \in 0..Len(queue)
  BY BoundsAssumption, LenProperties DEF Inv, SharedInv
<1> HIDE DEF count
<1>3. /\ Range(p) \subseteq Range(queue) /\ Sorted(p)
      /\ \A m \in Range(p), n \in Range(queue) :
           SameCase(m, n) /\ n \notin Range(p) => Rank(m.status) < Rank(n.status)
  BY <1>2, PrefixSorted DEF OrderInv
<1> HIDE DEF p
<1>4. ASSUME NEW m \in Range(p), NEW n \in Range(queue), SameCase(m, n),
             Rank(n.status) < Rank(m.status)
      PROVE  n \in Range(p)
  <2>1. Rank(n.status) \in Nat /\ Rank(m.status) \in Nat
    BY <1>3, <1>4, KnownUpdates, QueueAndBatchKnown DEF SameCase
  <2> QED  BY <1>3, <1>4, <2>1
<1>5. JobOrder(i)'
  BY <1>1, <1>3, <1>4 DEF OrderInv, JobOrder, NotPast
<1>6. ASSUME NEW j \in Jobs \ {i}  PROVE JobOrder(j)'
  BY <1>1, <1>6 DEF OrderInv, JobOrder, NotPast
<1> QED  BY <1>1, <1>5, <1>6 DEF OrderInv, NotPast

LEMMA JobStepOrder ==
  ASSUME Inv, HeardInv, SoloInv, OrderInv, OneJob, ~ MayRefuse,
         NEW i \in Jobs, Enqueue(i) \/ Works(i) \/ Fails(i)
  PROVE  OrderInv'
<1>1. CASE FetchNotifications(i)
  BY <1>1, FetchOrder
<1>2. CASE WriteShipmentStatus(i)
  BY <1>2, WriteOrder
<1>3. CASE ~ FetchNotifications(i) /\ ~ WriteShipmentStatus(i)
  <2>1. \A c \in Cases : row'[c].status = row[c].status
    BY <1>3, JobStep, AnonymizeRow
  <2>2. pc[i] = "delete" => Current(i) \in Known
    BY CurrentFacts, OwnFacts
  <2>3. Sorted(queue') /\ Range(queue') \subseteq Range(queue)
    BY <2>2, JobStep, WithoutOrder DEF OrderInv
  <2>4. ASSUME batch[i] # <<>>, batch'[i] = Tail(batch[i])
        PROVE  Sorted(batch'[i]) /\ Range(batch'[i]) \subseteq Range(batch[i])
    BY <2>4, TailFacts, TailSorted, QueueAndBatchKnown DEF OrderInv, JobOrder
  <2>5. ASSUME batch[i] # <<>>, batch'[i] = Tail(batch[i]),
               FormulaireQF(Current(i)) => queue' = Without(queue, Current(i)),
               NEW n \in Range(queue'), n.status # None, n \in Range(batch[i])
        PROVE  n \in Range(batch'[i])
    <3>1. Current(i) \in Known /\ Range(batch[i]) = {Current(i)} \cup Range(batch'[i])
      BY <2>5, TailFacts, QueueAndBatchKnown DEF Current
    <3>2. n \in Own
      BY <2>3, <2>5, KnownUpdates, QueueAndBatchKnown
    <3>3. n # Current(i)
      BY <2>5, <3>1, <3>2, WithoutOrder DEF Own
    <3> QED  BY <2>5, <3>1, <3>3
  <2>6. \/ batch'[i] = batch[i]
        \/ /\ Sorted(batch'[i]) /\ Range(batch'[i]) \subseteq Range(batch[i])
           /\ \A n \in Range(queue') :
                n.status # None /\ n \in Range(batch[i]) => n \in Range(batch'[i])
        \/ batch'[i] = <<>>
    BY <1>3, <2>4, <2>5, JobStep
  <2>7. \A j \in Jobs : j = i
    BY DEF OneJob
  <2> QED  BY <2>1, <2>3, <2>6, <2>7, OrderStays
<1> QED  BY <1>1, <1>2, <1>3

LEMMA WorldOrder ==
  ASSUME Inv, HeardInv, OrderInv, World
  PROVE  OrderInv'
<1>1. ASSUME NEW call \in late, HubEEIsLate(call)  PROVE OrderInv'
  <2>1. call.for \in Known
    BY OwnFacts DEF Inv, SharedInv
  <2>2. Sorted(queue') /\ Range(queue') \subseteq Range(queue)
    BY <1>1, <2>1, WithoutOrder DEF HubEEIsLate, OrderInv
  <2>3. UNCHANGED <<row, batch>>
    BY <1>1 DEF HubEEIsLate, job
  <2> QED  BY <2>2, <2>3, OrderStays
<1>2. ASSUME NEW c \in Cases, FolderCompleted(c) \/ SIDepositsAttachment(c)  PROVE OrderInv'
  <2>1. PICK n \in Known : n.status = None /\ queue' = Append(queue, n)
    BY <1>2, KnownNotifications DEF FolderCompleted, SIDepositsAttachment, NewFolder, AttachDeposit
  <2>2. UNCHANGED <<row, batch>>
    BY <1>2 DEF FolderCompleted, SIDepositsAttachment, job
  <2> QED  BY <2>1, <2>2, AppendOrder
<1>3. ASSUME NEW c \in Cases, CreateShipment(c)  PROVE OrderInv'
  <2>1. \A d \in Cases : row'[d].status \in {row[d].status, "pending"}
    BY <1>3 DEF CreateShipment, Inv, SharedInv
  <2>2. UNCHANGED <<queue, batch>>
    BY <1>3 DEF CreateShipment, hubee, job
  <2> QED  BY <2>1, <2>2, OrderStays DEF OrderInv
<1>4. ASSUME NEW c \in Cases, SIUpdatesCase(c)  PROVE OrderInv'
  <2>1. PICK s \in SIStatuses : /\ Rank(siStatus[c]) < Rank(s)
                                /\ queue' = Append(queue, StatusUpdate(c, s))
    BY <1>4 DEF SIUpdatesCase
  <2>2. StatusUpdate(c, s) \in Known
    BY StatusesAssumption, KnownNotifications, OwnFacts
  <2>3. siStatus[c] \in Statuses
    BY <1>4, StatusTypes DEF SIUpdatesCase
  <2>4. StatusUpdate(c, s).of = c /\ StatusUpdate(c, s).status = s
    BY DEF StatusUpdate
  <2> QED  BY <1>4, <2>1, <2>2, <2>3, <2>4, AppendOrder DEF SIUpdatesCase, job
<1>5. ASSUME NEW i \in Foreign, ForeignArrives(i)  PROVE OrderInv'
  <2>1. Other(i) \in Known /\ Other(i).status = None
    BY KnownNotifications DEF Other
  <2> QED  BY <1>5, <2>1, AppendOrder DEF ForeignArrives, job
<1>6. ASSUME NEW i \in Foreign, ForeignIsConsumed(i)  PROVE OrderInv'
  <2>1. Sorted(queue') /\ Range(queue') \subseteq Range(queue)
    BY <1>6, KnownNotifications, WithoutOrder DEF ForeignIsConsumed
  <2> QED  BY <1>6, <2>1, OrderStays DEF ForeignIsConsumed, job
<1> QED  BY <1>1, <1>2, <1>3, <1>4, <1>5, <1>6 DEF World

LEMMA InitOrder == Init => OrderInv
BY DEF Init, OrderInv, JobOrder, Sorted, Range

LEMMA NextOrder ==
  ASSUME OneJob, ~ MayRefuse
  PROVE  Inv /\ HeardInv /\ SoloInv /\ OrderInv /\ [Next]_vars => OrderInv'
<1> SUFFICES ASSUME Inv, HeardInv, SoloInv, OrderInv, [Next]_vars PROVE OrderInv'
  OBVIOUS
<1>1. CASE UNCHANGED vars
  BY <1>1 DEF vars, hubee, job, OrderInv, JobOrder, NotPast
<1> QED  BY <1>1, WorldOrder, JobStepOrder DEF Next
FollowUpInv == Inv /\ HeardInv /\ SoloInv /\ OrderInv

LEMMA InitFollowUp == Init => FollowUpInv
BY InitInv, InitHeard, InitSolo, InitOrder DEF FollowUpInv

LEMMA NextFollowUp ==
  ASSUME OneJob, ~ MayRefuse
  PROVE  FollowUpInv /\ [Next]_vars => FollowUpInv'
BY NextInv, NextHeard, NextSolo, NextOrder DEF FollowUpInv

(* One job at a time and a HubEE that does what it answers: notifications  *)
(* are queued and read in the order in which each case got its statuses,   *)
(* and no update that is left is older than the status of its Shipment.    *)
THEOREM UpdatesStayInOrder ==
  ASSUME OneJob, ~ MayRefuse
  PROVE  Spec => []FollowUpInv
BY InitFollowUp, NextFollowUp, PTL DEF Spec

(* What a write does: the Shipment goes up, to a status of its case. *)
LEMMA WriteRises ==
  ASSUME FollowUpInv, NEW i \in Jobs, WriteShipmentStatus(i)
  PROVE  LET n == Current(i) IN
         /\ n \in Own /\ n.of \in Cases /\ n.status \in Processable
         /\ row[n.of].ids
         /\ \/ row[n.of].status \in {"pending", n.status}
            \/ Rank(row[n.of].status) < Rank(n.status)
         /\ Reached(n.of, n.status)
         /\ row'[n.of].status = n.status
         /\ IF row[n.of].status = n.status THEN row' = row
            ELSE row' = [row EXCEPT ![n.of].status = n.status]
         /\ \A c \in Cases : c # n.of => row'[c] = row[c]
<1> DEFINE n == Current(i)
<1>1. /\ n \in Own /\ n.of \in Cases /\ n.status \in Processable /\ n.status # None
      /\ \A c \in Cases : c # n.of => row'[c] = row[c]
  BY WriteRow, NoneAssumption DEF FollowUpInv
<1>2. /\ row[n.of].ids /\ row'[n.of].status = n.status
      /\ IF row[n.of].status = n.status THEN row' = row
         ELSE row' = [row EXCEPT ![n.of].status = n.status]
  BY WriteRow DEF FollowUpInv, SoloInv, SoloJob, WriteShipmentStatus
<1>3. n \in Range(batch[i])
  BY CurrentFacts, QueueAndBatchKnown, TailFacts
  DEF FollowUpInv, WriteShipmentStatus, Current
<1>4. Behind(n) /\ NotPast(n)
  BY <1>1, <1>3 DEF FollowUpInv, HeardInv, OrderInv, JobOrder
<1> HIDE DEF n
<1> QED  BY <1>1, <1>2, <1>4 DEF Behind, NotPast, n

(* A final status is never replaced by a replayed or older update.         *)
THEOREM FinalStatusesAreStable ==
  ASSUME OneJob, ~ MayRefuse
  PROVE  Spec => FinalStatusIsStable
<1> DEFINE Stable ==
      \A c \in Cases : row[c].status \in FinalStatuses => row'[c].status = row[c].status
<1>1. FollowUpInv /\ [Next]_vars => [Stable]_vars
  <2> SUFFICES ASSUME FollowUpInv, [Next]_vars, NEW c \in Cases, row[c].status \in FinalStatuses
               PROVE  row'[c].status = row[c].status
    OBVIOUS
  <2>1. Inv /\ SoloInv
    BY DEF FollowUpInv
  <2>2. ASSUME NEW d \in Cases, CreateShipment(d)  PROVE row'[c].status = row[c].status
    <3>1. row[c].saved
      BY DEF FollowUpInv, HeardInv, FinalStatuses
    <3> QED  BY <2>1, <2>2, <3>1 DEF CreateShipment, Inv, SharedInv
  <2>3. ASSUME NEW i \in Jobs, WriteShipmentStatus(i), c = Current(i).of
        PROVE  row'[c].status = row[c].status
    <3> DEFINE n == Current(i)
    <3>1. /\ n.status \in Statuses /\ row'[c].status = n.status
          /\ \/ row[c].status \in {"pending", n.status}
             \/ Rank(row[c].status) < Rank(n.status)
      BY <2>3, WriteRises DEF Statuses
    <3> HIDE DEF n
    <3>2. Rank(n.status) <= Rank(row[c].status)
      BY <3>1, RankType
    <3>3. Rank(n.status) \in Nat /\ Rank(row[c].status) \in Nat /\ row[c].status # "pending"
      BY <3>1, RankType DEF Statuses, Processable, FinalStatuses
    <3> QED  BY <3>1, <3>2, <3>3
  <2>4. ASSUME NEW i \in Jobs, WriteShipmentStatus(i), c # Current(i).of
        PROVE  row'[c].status = row[c].status
    BY <2>4, WriteRises
  <2>5. ASSUME NEW i \in Jobs, AnonymizeShipment(i)  PROVE row'[c].status = row[c].status
    BY <2>1, <2>5, AnonymizeRow
  <2> QED  BY <2>1, <2>2, <2>3, <2>4, <2>5, RowStep
<1> QED  BY <1>1, UpdatesStayInOrder, PTL DEF Spec, FinalStatusIsStable

-----------------------------------------------------------------------------
(* The latest update of a case: it is in the queue or on the Shipment, and *)
(* it has been applied before anything acknowledges or deletes it.         *)
Latest(n) == n.status \in Processable /\ siStatus[n.of] = n.status

Applied(n) == n \in unread \cup rowless \/ row[n.of].status = n.status

Acknowledging == {"update_event", "delete"} \cup Closers

AppliedInv ==
  \A n \in Own :
    Latest(n) =>
      /\ n \in Range(queue) \/ Applied(n)
      /\ n \in received => Applied(n)
      /\ \A call \in late :
           call.for = n /\ call.op \in {"update_event", "delete"} => Applied(n)
      /\ \A j \in Jobs : pc[j] \in Acknowledging /\ Current(j) = n => Applied(n)

(* An applied update stays applied: no older one is written after it. *)
LEMMA AppliedStays ==
  ASSUME FollowUpInv, [Next]_vars, NEW n \in Own, Latest(n), Applied(n)
  PROVE  Applied(n)'
<1>1. Inv /\ SoloInv /\ n.of \in Cases
  BY OwnFacts DEF FollowUpInv
<1>2. unread \subseteq unread' /\ rowless \subseteq rowless'
  <2>1. CASE World \/ UNCHANGED vars
    BY <2>1 DEF World, HubEEIsLate, FolderCompleted, CreateShipment, SIUpdatesCase,
       SIDepositsAttachment, ForeignArrives, ForeignIsConsumed, vars, history
  <2> QED  BY <1>1, <2>1, JobStep DEF Next
<1>3. CASE n \in unread \cup rowless
  BY <1>2, <1>3 DEF Applied
<1>4. CASE row[n.of].status = n.status
  <2>1. n.status \in Statuses /\ n.status # "pending" /\ row[n.of].saved
    BY <1>1, <1>4, StatusTypes DEF Latest, FollowUpInv, HeardInv
  <2>2. ASSUME NEW d \in Cases, CreateShipment(d)  PROVE row'[n.of].status = n.status
    BY <1>1, <1>4, <2>1, <2>2 DEF CreateShipment, Inv, SharedInv
  <2>3. ASSUME NEW i \in Jobs, WriteShipmentStatus(i)  PROVE row'[n.of].status = n.status
    <3> DEFINE m == Current(i)
    <3>1. CASE m.of # n.of
      BY <1>1, <1>4, <2>3, <3>1, WriteRises
    <3>2. CASE m.of = n.of
      <4>1. /\ m.status \in Statuses
            /\ row'[n.of].status = m.status
            /\ m.status = n.status \/ Rank(n.status) < Rank(m.status)
            /\ m.status = n.status \/ Rank(m.status) < Rank(n.status)
        BY <1>4, <2>1, <2>3, <3>2, WriteRises DEF Statuses, Latest, Reached
      <4> HIDE DEF m
      <4>2. Rank(m.status) \in Nat /\ Rank(n.status) \in Nat
        BY <2>1, <4>1, RankType
      <4> QED  BY <4>1, <4>2
    <3> QED  BY <3>1, <3>2
  <2>4. ASSUME NEW i \in Jobs, AnonymizeShipment(i)  PROVE row'[n.of].status = n.status
    BY <1>1, <1>4, <2>4, AnonymizeRow
  <2> QED  BY <1>1, <1>4, <2>2, <2>3, <2>4, RowStep DEF Applied
<1> QED  BY <1>3, <1>4 DEF Applied

(* How a job gets to the calls that acknowledge the latest update. *)
LEMMA AcknowledgingStep ==
  ASSUME FollowUpInv, AppliedInv, [Next]_vars,
         NEW i \in Jobs, Enqueue(i) \/ Works(i) \/ Fails(i), NEW n \in Own, Latest(n),
         pc'[i] \in Acknowledging, Current(i)' = n
  PROVE  Applied(n)'
<1>1. Inv /\ pc'[i] \notin {"idle", "fetch", "next", "event", "load", "write"}
  BY DEF FollowUpInv, Acknowledging, Closers
<1>2. n.type = "status_update" /\ n.status \in Processable
  BY OwnFacts, NoneAssumption DEF Latest
<1>3. ASSUME Applied(n)  PROVE Applied(n)'
  BY <1>3, AppliedStays
<1>4. ASSUME pc[i] \in Acknowledging, Current(i) = n  PROVE Applied(n)'
  BY <1>3, <1>4 DEF AppliedInv
<1>5. ASSUME NEW to \in {"idle", "fetch"}, NEW k, Restart(i, to, k)  PROVE FALSE
  BY <1>1, <1>5, RestartBatch
<1>6. ASSUME Retry(i) \/ Skip(i)  PROVE FALSE
  BY <1>1, <1>6, RetryBatch, SkipBatch
<1>7. ASSUME NEW to, Goto(i, to), UNCHANGED job  PROVE pc'[i] = to /\ Current(i) = n
  BY <1>1, <1>7, GotoBatch DEF job, Current
<1>8. CASE Enqueue(i) \/ EndOfBatch(i) \/ Dies(i) \/ Interrupted(i) \/ FetchRaises(i)
  BY <1>5, <1>6, <1>8 DEF Enqueue, EndOfBatch, Dies, Interrupted, FetchRaises
<1>9. CASE FetchNotifications(i)
  BY <1>1, <1>9 DEF FetchNotifications, Goto, Inv, LocalInv
<1>10. CASE ProcessNotification(i)
  BY <1>1, <1>2, <1>6, <1>7, <1>10 DEF ProcessNotification
<1>11. ASSUME NEW answered \in BOOLEAN, ReadEvent(i, answered)  PROVE Applied(n)'
  <2>1. /\ Current(i) = n
        /\ pc'[i] = IF n.type # "status_update" \/ n \in received THEN "delete"
                    ELSE IF n.status \in Processable THEN "load"
                    ELSE "update_event"
    BY <1>6, <1>7, <1>11 DEF ReadEvent, Continue
  <2>2. n \in received
    BY <1>1, <1>2, <2>1
  <2> QED  BY <1>3, <2>2 DEF AppliedInv
<1>12. CASE ReadEventRefused(i)
  BY <1>7, <1>12 DEF ReadEventRefused, Applied
<1>13. CASE LoadShipment(i)
  <2>1. /\ Current(i) = n
        /\ pc'[i] = IF row[n.of].ids THEN "write"
                    ELSE IF Final(n) THEN "close_case" ELSE "update_event"
        /\ rowless' = IF row[n.of].ids THEN rowless ELSE rowless \cup {n}
    BY <1>1, <1>13 DEF LoadShipment, Goto, Current, Inv, LocalInv
  <2> QED  BY <1>1, <2>1 DEF Applied
<1>14. CASE WriteShipmentStatus(i)
  <2>1. Current(i) = n
    BY <1>7, <1>14 DEF WriteShipmentStatus
  <2> QED  BY <1>14, <2>1, WriteRises DEF Applied
<1>15. CASE AnonymizeShipment(i)
  BY <1>4, <1>7, <1>15 DEF AnonymizeShipment, Acknowledging, Closers
<1>16. ASSUME NEW executed \in BOOLEAN, NEW answered \in BOOLEAN,
              UpdateEvent(i, executed, answered) \/ DeleteNotification(i, executed, answered)
       PROVE  Applied(n)'
  BY <1>4, <1>6, <1>7, <1>16 DEF UpdateEvent, DeleteNotification, Continue, Acknowledging
<1>17. ASSUME NEW executed \in BOOLEAN, NEW answered \in BOOLEAN,
              \/ CloseCase(i, executed, answered)
              \/ CreateClosedEvent(i, executed, answered)
              \/ CloseFolder(i, executed, answered)
       PROVE  Applied(n)'
  <2>1. ASSUME NEW from \in Closers, NEW part, NEW to,
               Closing(i, from, part, executed, answered, to)
        PROVE  Applied(n)'
    BY <1>4, <1>6, <1>7, <2>1 DEF Closing, Continue, Acknowledging
  <2> QED  BY <1>17, <2>1 DEF CloseCase, CreateClosedEvent, CloseFolder, Closers
<1> QED  BY <1>8, <1>9, <1>10, <1>11, <1>12, <1>13, <1>14, <1>15, <1>16, <1>17
         DEF Works, Fails

LEMMA NextApplied ==
  ASSUME OneJob, ~ MayRefuse
  PROVE  FollowUpInv /\ AppliedInv /\ [Next]_vars => AppliedInv'
<1> SUFFICES ASSUME FollowUpInv, AppliedInv, [Next]_vars, NEW n \in Own, Latest(n)'
             PROVE  /\ n \in Range(queue') \/ Applied(n)'
                    /\ n \in received' => Applied(n)'
                    /\ \A call \in late' :
                         call.for = n /\ call.op \in {"update_event", "delete"} => Applied(n)'
                    /\ \A j \in Jobs :
                         pc'[j] \in Acknowledging /\ Current(j)' = n => Applied(n)'
  BY DEF AppliedInv
<1>1. /\ Inv /\ HeardInv /\ n.of \in Cases /\ n \in Known /\ n.type # "foreign"
      /\ n.type = "status_update" /\ n.status \in Processable /\ n.status \in Statuses
  BY OwnFacts, NoneAssumption DEF FollowUpInv, Latest, Statuses
<1>2. ASSUME NEW j \in Jobs, pc[j] \notin {"idle", "fetch", "next"}  PROVE Behind(Current(j))
  BY <1>1, <1>2, CurrentFacts, QueueAndBatchKnown, TailFacts DEF HeardInv, Current
<1>3. CASE ~ Latest(n)
  <2>1. siStatus'[n.of] = n.status /\ siStatus[n.of] # n.status
    BY <1>1, <1>3 DEF Latest
  <2>2. ASSUME NEW c \in Cases, NEW s, siStatus' = [siStatus EXCEPT ![c] = s]
        PROVE  c = n.of /\ s = n.status
    BY <1>1, <2>1, <2>2 DEF Inv, SharedInv
  <2>3. \E c \in Cases : SIUpdatesCase(c)
    <3>1. ASSUME NEW c \in Cases, FolderCompleted(c) \/ SIDepositsAttachment(c)  PROVE FALSE
      <4>1. PICK s \in {"opened", "deposited"} : siStatus' = [siStatus EXCEPT ![c] = s]
        BY <3>1 DEF FolderCompleted, SIDepositsAttachment
      <4> QED  BY <1>1, <2>2, <4>1 DEF Processable, FinalStatuses
    <3>2. siStatus' # siStatus
      BY <2>1
    <3>3. CASE World
      BY <3>1, <3>2, <3>3 DEF World, HubEEIsLate, CreateShipment, hubee, ForeignArrives,
         ForeignIsConsumed
    <3> QED  BY <1>1, <3>2, <3>3, JobStep DEF Next, vars, hubee
  <2>4. PICK c \in Cases : SIUpdatesCase(c)
    BY <2>3
  <2>5. PICK s \in SIStatuses : /\ Rank(siStatus[c]) < Rank(s)
                                /\ siStatus' = [siStatus EXCEPT ![c] = s]
                                /\ queue' = Append(queue, StatusUpdate(c, s))
    BY <2>4 DEF SIUpdatesCase
  <2>6. c = n.of /\ s = n.status
    BY <2>2, <2>5
  <2>7. ~ Behind(n)
    <3>1. siStatus[n.of] \in Statuses /\ n.status # None
      BY <1>1, <2>4, <2>6, StatusTypes DEF SIUpdatesCase
    <3>2. Rank(siStatus[n.of]) \in Nat /\ Rank(n.status) \in Nat
      BY <1>1, <3>1, RankType
    <3> QED  BY <2>1, <2>5, <2>6, <3>1, <3>2 DEF Behind, Reached
  <2>8. UNCHANGED <<received, late, pc, batch>>
    BY <2>4 DEF SIUpdatesCase, job
  <2>9. n \notin received' /\ \A call \in late' : call.for # n
    BY <2>7, <2>8 DEF HeardInv, FollowUpInv
  <2>10. \A j \in Jobs : ~ (pc'[j] \in Acknowledging /\ Current(j)' = n)
    BY <1>2, <2>7, <2>8 DEF Current, Acknowledging, Closers
  <2>11. n \in Range(queue')
    <3>1. n = StatusUpdate(n.of, n.status)
      BY <1>1, OwnFacts DEF StatusUpdate, Notification
    <3> QED  BY <1>1, <2>5, <2>6, <3>1, AppendFacts, QueueAndBatchKnown
  <2> QED  BY <2>9, <2>10, <2>11
<1>4. CASE Latest(n)
  <2>1. Applied(n) => Applied(n)'
    BY <1>4, AppliedStays
  <2>2. ASSUME NEW j \in Jobs, pc[j] \in Acknowledging, Current(j) = n  PROVE Applied(n)
    BY <1>4, <2>2 DEF AppliedInv
  <2>3. CASE World \/ UNCHANGED vars
    <3>1. UNCHANGED <<pc, batch>>
      BY <2>3 DEF World, HubEEIsLate, FolderCompleted, CreateShipment, SIUpdatesCase,
         SIDepositsAttachment, ForeignArrives, ForeignIsConsumed, vars, job
    <3>2. CASE \E call \in late : HubEEIsLate(call)
      <4>1. PICK call \in late : HubEEIsLate(call)
        BY <3>2
      <4>2. n \in Range(queue) => n \in Range(queue') \/ (call.op = "delete" /\ call.for = n)
        BY <1>1, <4>1, WithoutFacts, QueueAndBatchKnown DEF HubEEIsLate
      <4>3. n \in received' => n \in received \/ (call.op = "update_event" /\ call.for = n)
        BY <4>1 DEF HubEEIsLate
      <4>4. late' \subseteq late
        BY <4>1 DEF HubEEIsLate
      <4> QED  BY <1>4, <2>1, <2>2, <3>1, <4>2, <4>3, <4>4 DEF AppliedInv, Current
    <3>3. CASE ~ \E call \in late : HubEEIsLate(call)
      <4>1. UNCHANGED <<received, late>>
        BY <2>3, <3>3 DEF World, FolderCompleted, CreateShipment, SIUpdatesCase,
           SIDepositsAttachment, ForeignArrives, ForeignIsConsumed, vars, hubee
      <4>2. n \in Range(queue) => n \in Range(queue')
        <5>1. ASSUME NEW m \in Known, queue' = Append(queue, m), n \in Range(queue)
              PROVE  n \in Range(queue')
          BY <1>1, <5>1, AppendFacts, QueueAndBatchKnown
        <5>2. ASSUME NEW c \in Cases, SIUpdatesCase(c), n \in Range(queue)
              PROVE  n \in Range(queue')
          <6>1. PICK s \in SIStatuses : queue' = Append(queue, StatusUpdate(c, s))
            BY <5>2 DEF SIUpdatesCase
          <6>2. StatusUpdate(c, s) \in Known
            BY StatusesAssumption, KnownNotifications, OwnFacts
          <6> QED  BY <5>1, <5>2, <6>1, <6>2
        <5>3. ASSUME NEW i \in Foreign, ForeignIsConsumed(i), n \in Range(queue)
              PROVE  n \in Range(queue')
          <6>1. n # Other(i)
            BY <1>1 DEF Other
          <6> QED  BY <1>1, <5>3, <6>1, WithoutFacts, QueueAndBatchKnown DEF ForeignIsConsumed
        <5>4. CASE World
          BY <3>3, <5>1, <5>2, <5>3, <5>4, KnownNotifications
          DEF World, FolderCompleted, SIDepositsAttachment, ForeignArrives, CreateShipment, hubee
        <5> QED  BY <2>3, <5>4 DEF vars, hubee
      <4> QED  BY <1>4, <2>1, <2>2, <3>1, <4>1, <4>2 DEF AppliedInv, Current
    <3> QED  BY <3>2, <3>3
  <2>4. ASSUME NEW i \in Jobs, Enqueue(i) \/ Works(i) \/ Fails(i)
        PROVE  /\ n \in Range(queue') \/ Applied(n)'
               /\ n \in received' => Applied(n)'
               /\ \A call \in late' :
                    call.for = n /\ call.op \in {"update_event", "delete"} => Applied(n)'
               /\ \A j \in Jobs : pc'[j] \in Acknowledging /\ Current(j)' = n => Applied(n)'
    <3>1. n \in Range(queue) =>
            n \in Range(queue') \/ (pc[i] = "delete" /\ Current(i) = n)
      BY <1>1, <2>4, JobStep, WithoutFacts, QueueAndBatchKnown
    <3>2. n \in received' => n \in received \/ (pc[i] = "update_event" /\ Current(i) = n)
      BY <1>1, <2>4, JobStep
    <3>3. ASSUME NEW call \in late' \ late, call.for = n,
                 call.op \in {"update_event", "delete"}
          PROVE  pc[i] \in Acknowledging /\ Current(i) = n
      BY <1>1, <2>4, <3>3, JobStep DEF Acknowledging
    <3>4. \A j \in Jobs : pc'[j] \in Acknowledging /\ Current(j)' = n => Applied(n)'
      BY <1>4, <2>4, AcknowledgingStep DEF OneJob
    <3> QED  BY <1>4, <2>1, <2>2, <3>1, <3>2, <3>3, <3>4 DEF AppliedInv, Acknowledging
  <2> QED  BY <2>3, <2>4 DEF Next
<1> QED  BY <1>3, <1>4

(* One job at a time and a HubEE that does what it answers: the last word  *)
(* of the collectivity on a case is on its Shipment before its             *)
(* notification leaves the queue, through every retry and replay.          *)
THEOREM LastUpdatesAreApplied ==
  ASSUME OneJob, ~ MayRefuse
  PROVE  Spec => []LastUpdateIsApplied
<1>1. Init => AppliedInv
  BY NoneAssumption DEF Init, AppliedInv, Latest, Own, Known, FormulaireQF, Processable
<1>2. Inv /\ AppliedInv => LastUpdateIsApplied
  <2> SUFFICES ASSUME Inv, AppliedInv, NEW c \in Cases, siStatus[c] \in Processable,
                      StatusUpdate(c, siStatus[c]) \notin Range(queue) \cup unread \cup rowless
               PROVE  row[c].status = siStatus[c]
    BY DEF LastUpdateIsApplied
  <2> DEFINE n == StatusUpdate(c, siStatus[c])
  <2>1. n \in Own /\ n.of = c /\ n.status = siStatus[c]
    BY KnownNotifications DEF StatusUpdate
  <2>2. n \in Range(queue) \/ Applied(n)
    BY <2>1 DEF AppliedInv, Latest
  <2> QED  BY <2>1, <2>2 DEF Applied
<1> QED  BY <1>1, <1>2, InitFollowUp, NextFollowUp, NextApplied, PTL DEF Spec, FollowUpInv

-----------------------------------------------------------------------------
(* The refinement: a Shipment's life is the one of ShipmentLifecycle.      *)

Finished == {c \in Cases : asked[c] = {"case", "event", "folder"}}

(* The closing calls of a case are asked once it has its final status. *)
LEMMA AskedStep ==
  ASSUME FollowUpInv, NEW i \in Jobs, Enqueue(i) \/ Works(i) \/ Fails(i)
  PROVE  \/ asked' = asked
         \/ /\ row' = row /\ siStatus' = siStatus
            /\ \E c \in Cases : /\ siStatus[c] \in FinalStatuses
                                /\ Finished' \ {c} = Finished \ {c}
                                /\ Finished \subseteq Finished'
<1> SUFFICES ASSUME asked' # asked
             PROVE  /\ row' = row /\ siStatus' = siStatus
                    /\ \E c \in Cases : /\ siStatus[c] \in FinalStatuses
                                        /\ Finished' \ {c} = Finished \ {c}
                                        /\ Finished \subseteq Finished'
  OBVIOUS
<1> DEFINE n == Current(i)
<1>1. Inv /\ HeardInv
  BY DEF FollowUpInv
<1>2. ASSUME NEW from \in Closers, NEW part \in {"case", "event", "folder"}, NEW to,
             NEW executed \in BOOLEAN, NEW answered \in BOOLEAN,
             Closing(i, from, part, executed, answered, to)
      PROVE  /\ row' = row /\ siStatus' = siStatus
             /\ \E c \in Cases : /\ siStatus[c] \in FinalStatuses
                                 /\ Finished' \ {c} = Finished \ {c}
                                 /\ Finished \subseteq Finished'
  <2>1. n \in Own /\ n.of \in Cases /\ n.status \in FinalStatuses /\ Behind(n)
    <3>1. pc[i] \in Closers /\ batch[i] # <<>>
      BY <1>1, <1>2, CurrentFacts DEF Closing, Closers
    <3> QED  BY <1>1, <3>1, CurrentFacts, QueueAndBatchKnown, TailFacts
             DEF HeardInv, Current, Inv, JobInv, Final, Closers
  <2>2. siStatus[n.of] \in FinalStatuses
    <3> DEFINE s == siStatus[n.of]
               t == n.status
    <3>1. s \in Statuses /\ t \in FinalStatuses /\ (t = s \/ Rank(t) < Rank(s))
      BY <1>1, <2>1, StatusTypes, NoneAssumption DEF Behind, Reached, Processable, FinalStatuses
    <3> HIDE DEF s, t
    <3>2. Rank(s) <= Rank(t) /\ Rank(s) \in Nat /\ Rank(t) \in Nat
      BY <3>1, RankType DEF Statuses, Processable
    <3>3. s \in FinalStatuses
      BY <3>1, <3>2
    <3> QED  BY <3>3 DEF s
  <2>3. /\ asked' = [asked EXCEPT ![n.of] = @ \cup {part}]
        /\ UNCHANGED <<row, siStatus>>
    BY <1>2 DEF Closing
  <2>4. asked \in [Cases -> SUBSET {"case", "event", "folder"}]
    BY <1>1 DEF Inv, SharedInv
  <2>5. Finished' \ {n.of} = Finished \ {n.of} /\ Finished \subseteq Finished'
    BY <2>1, <2>3, <2>4 DEF Finished
  <2> QED  BY <2>1, <2>2, <2>3, <2>5
<1>3. \E executed \in BOOLEAN, answered \in BOOLEAN :
        \/ CloseCase(i, executed, answered)
        \/ CreateClosedEvent(i, executed, answered)
        \/ CloseFolder(i, executed, answered)
  BY DEF Enqueue, Works, Fails, FetchNotifications, ProcessNotification, EndOfBatch, ReadEvent,
     LoadShipment, WriteShipmentStatus, AnonymizeShipment, UpdateEvent, DeleteNotification,
     FetchRaises, ReadEventRefused, Dies, Interrupted, history
<1> QED  BY <1>2, <1>3 DEF CloseCase, CreateClosedEvent, CloseFolder, Closers

LEMMA LifecycleInit == Init => Lifecycle!Init
BY DEF Init, NoRow, Lifecycle!Init

LEMMA LifecycleStep ==
  ASSUME FollowUpInv, FollowUpInv', [Next]_vars
  PROVE  [Lifecycle!Next]_(Lifecycle!vars)
<1>1. Inv /\ SoloInv
  BY DEF FollowUpInv
<1>2. ASSUME NEW c \in Cases, CreateShipment(c)  PROVE Lifecycle!Next
  <2>1. Lifecycle!Save(c)
    BY <1>2 DEF CreateShipment, Lifecycle!Save, hubee, history
  <2> QED  BY <2>1 DEF Lifecycle!Next
<1>3. ASSUME NEW c \in Cases, NEW s \in Statuses,
             siStatus[c] = None \/ Rank(siStatus[c]) < Rank(s),
             siStatus' = [siStatus EXCEPT ![c] = s], UNCHANGED <<row, asked>>
      PROVE  Lifecycle!Next
  <2>1. Lifecycle!MoveCase(c)
    BY <1>3 DEF Lifecycle!MoveCase, Statuses, Processable
  <2> QED  BY <2>1 DEF Lifecycle!Next
<1>4. ASSUME NEW c \in Cases, FolderCompleted(c) \/ SIUpdatesCase(c) \/ SIDepositsAttachment(c)
      PROVE  Lifecycle!Next
  <2>1. PICK s \in Statuses : /\ siStatus[c] = None \/ Rank(siStatus[c]) < Rank(s)
                              /\ siStatus' = [siStatus EXCEPT ![c] = s]
    BY <1>4, RankValues, StatusesAssumption
    DEF FolderCompleted, SIUpdatesCase, SIDepositsAttachment, Statuses
  <2>2. UNCHANGED <<row, asked>>
    BY <1>4 DEF FolderCompleted, SIUpdatesCase, SIDepositsAttachment, history
  <2> QED  BY <1>3, <2>1, <2>2
<1>5. ASSUME UNCHANGED <<siStatus, row, asked>>  PROVE UNCHANGED Lifecycle!vars
  BY <1>5 DEF Lifecycle!vars
<1>6. CASE World
  <2>1. CASE \E c \in Cases : \/ FolderCompleted(c) \/ CreateShipment(c)
                              \/ SIUpdatesCase(c) \/ SIDepositsAttachment(c)
    BY <1>2, <1>4, <2>1
  <2>2. CASE UNCHANGED <<siStatus, row, asked>>
    BY <1>5, <2>2
  <2> QED  BY <1>6, <2>1, <2>2 DEF World, HubEEIsLate, ForeignArrives, ForeignIsConsumed, history
<1>7. ASSUME NEW i \in Jobs, Enqueue(i) \/ Works(i) \/ Fails(i)
      PROVE  [Lifecycle!Next]_(Lifecycle!vars)
  <2> DEFINE n == Current(i)
  <2>1. CASE asked' # asked
    <3>1. /\ row' = row /\ siStatus' = siStatus
          /\ \E c \in Cases : /\ siStatus[c] \in FinalStatuses
                              /\ Finished' \ {c} = Finished \ {c}
                              /\ Finished \subseteq Finished'
      BY <1>7, <2>1, AskedStep
    <3>2. PICK c \in Cases : /\ siStatus[c] \in FinalStatuses
                             /\ Finished' = Finished \/ Finished' = Finished \cup {c}
      BY <3>1
    <3>3. CASE Finished' = Finished
      BY <3>1, <3>3 DEF Lifecycle!vars, Finished
    <3>4. CASE Finished' = Finished \cup {c}
      <4>1. Lifecycle!Finish(c)
        BY <3>1, <3>2, <3>4 DEF Lifecycle!Finish, Finished
      <4> QED  BY <4>1 DEF Lifecycle!Next
    <3> QED  BY <3>2, <3>3, <3>4
  <2>2. CASE asked' = asked /\ WriteShipmentStatus(i)
    <3>1. siStatus' = siStatus
      BY <2>2 DEF WriteShipmentStatus, hubee
    <3>2. CASE row[n.of].status = n.status
      <4>1. row' = row
        BY <2>2, <3>2, WriteRises
      <4> QED  BY <1>5, <2>2, <3>1, <4>1
    <3>3. CASE row[n.of].status # n.status
      <4>1. Lifecycle!Follow(n.of)
        BY <2>2, <3>1, <3>3, WriteRises
        DEF Lifecycle!Follow, Reached, Processable
      <4> QED  BY <2>2, <4>1, WriteRises DEF Lifecycle!Next
    <3> QED  BY <3>2, <3>3
  <2>3. CASE asked' = asked /\ AnonymizeShipment(i)
    <3>1. siStatus' = siStatus /\ pc[i] = "anonymize"
      BY <2>3 DEF AnonymizeShipment, hubee
    <3>2. row[n.of].ids /\ row[n.of].status = n.status /\ n.of \in Cases
      BY <1>1, <3>1, CurrentFacts DEF SoloInv, SoloJob
    <3>3. asked[n.of] = {"case", "event", "folder"} /\ n.status \in FinalStatuses
      BY <1>1, <3>1, <3>2 DEF Inv, JobInv, Closers, SharedInv, Final
    <3>4. n.status = siStatus[n.of]
      <4> DEFINE s == siStatus[n.of]
                 t == n.status
      <4>1. s \in Statuses /\ t \in FinalStatuses /\ (t = s \/ Rank(t) < Rank(s))
        BY <1>1, <3>2, <3>3, StatusTypes
        DEF FollowUpInv, HeardInv, Reached, Processable, FinalStatuses
      <4> HIDE DEF s, t
      <4>2. Rank(s) <= Rank(t) /\ Rank(s) \in Nat /\ Rank(t) \in Nat
        BY <4>1, RankType DEF Statuses, Processable
      <4>3. t = s
        BY <4>1, <4>2
      <4> QED  BY <4>3 DEF s, t
    <3>5. Lifecycle!Anonymise(n.of)
      BY <1>1, <2>3, <3>1, <3>2, <3>3, <3>4, AnonymizeRow DEF Lifecycle!Anonymise
    <3> QED  BY <3>2, <3>5 DEF Lifecycle!Next
  <2>4. CASE asked' = asked /\ row' = row
    BY <1>1, <1>5, <1>7, <2>4, JobStep
  <2> QED  BY <1>1, <1>7, <2>1, <2>2, <2>3, <2>4, JobStep
<1>8. CASE UNCHANGED vars
  BY <1>5, <1>8 DEF vars, hubee, history
<1> QED  BY <1>6, <1>7, <1>8 DEF Next

(* One job at a time and a HubEE that does what it answers, the queues,    *)
(* retries and replays come down to the life of a Shipment: saved pending, *)
(* up with its case, anonymised last.                                      *)
THEOREM NotificationsImplementLifecycle ==
  ASSUME OneJob, ~ MayRefuse
  PROVE  Spec => ImplementsLifecycle
BY LifecycleInit, LifecycleStep, UpdatesStayInOrder, PTL
DEF Spec, ImplementsLifecycle, Lifecycle!Spec
=============================================================================
