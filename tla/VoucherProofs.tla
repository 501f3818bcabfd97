---------------------------- MODULE VoucherProofs ----------------------------
(***************************************************************************)
(* Theorems about Voucher, for any number of requests, users and contents  *)
(* of the activity, any time and any grace.                                *)
(*                                                                         *)
(* The argument: a record is missing although its request did not fail     *)
(* only once Redis has dropped the hash (Remembered), which it does no     *)
(* earlier than the grace after the end of an activity that a voucher was  *)
(* issued under (Kept).  A request that still runs so late, or comes       *)
(* later, has matched an activity with a later end (Timely).               *)
(***************************************************************************)
EXTENDS Voucher, FiniteSetTheorems, TLAPS

PCs == {"idle", "get", "len", "set", "expire", "done"}

Types ==
    /\ now \in Nat
    /\ activity \in Contents
    /\ records \in [Users -> Requests \union {None}]
    /\ keepUntil \in Nat \union {Forever}
    /\ pc \in [Requests -> PCs]
    /\ user \in [Requests -> Users \union {NoUser}]
    /\ matched \in [Requests -> Contents]
    /\ at \in [Requests -> Nat]
    /\ reply \in [Requests -> Replies]
    /\ earlier \in [Requests -> SUBSET Requests]
    /\ failed \in SUBSET Requests
    /\ between \subseteq {"stored", "dropped", "failed"}
    /\ query \in [open : BOOLEAN, counted : Nat]

(* Who is answered is done; a record is of a request of its user; the hash *)
(* is without an end for the causes in TypeOK only.                        *)
Shape ==
    /\ \A r \in Requests : reply[r] # "none" => pc[r] = "done"
    /\ \A r \in Issued : user[r] \in Users
    /\ \A r \in Requests : earlier[r] \subseteq Issued
    /\ \A u \in Users : records[u] # None => user[records[u]] = u /\ pc[records[u]] # "idle"
    /\ Recorded # {} /\ keepUntil = Forever =>
          \E r \in Requests : pc[r] = "expire" \/ r \in failed

(* A request in progress is younger than the grace. *)
Timely ==
    \A r \in InFlight :
        /\ user[r] \in Users
        /\ at[r] <= now /\ now <= at[r] + Grace
        /\ at[r] <= matched[r].ends

(* A voucher has been issued under an activity that is long over. *)
LongOver == \E q \in Issued : matched[q].ends + Grace < now

Kept == keepUntil # Forever => \E q \in Issued : matched[q].ends + Grace <= keepUntil

Remembered ==
    \A q \in Requests \ failed :
        q \in Issued \/ pc[q] = "expire" => records[user[q]] # None \/ LongOver

(* A request that has seen no record will not get a second voucher ...     *)
HasLooked(r) == r \notin failed /\ (pc[r] \in {"len", "set", "expire"} \/ r \in Issued)
Looked ==
    \A r \in Requests : HasLooked(r) =>
        \A q \in earlier[r] \ failed : user[q] = user[r] => Prolonged(r)

(* ... and one that has counted the records not one above the quota.       *)
HasCounted(r) == r \notin failed /\ (pc[r] \in {"set", "expire"} \/ r \in Issued)
Before(r) == {user[q] : q \in earlier[r]}
Counted ==
    \A r \in Requests : HasCounted(r) =>
        \/ Cardinality(Before(r)) < matched[r].quota
        \/ earlier[r] \cap failed # {}
        \/ Prolonged(r)

(* What may have come between the two reads of a query. *)
Queried ==
    query.open =>
        /\ between \cap {"stored", "failed"} = {} => query.counted >= Cardinality(Recorded)
        /\ "dropped" \notin between => query.counted <= Cardinality(Recorded)
        /\ "failed" \in between => query.counted = 0

IInv == Types /\ Shape /\ Timely /\ Kept /\ Remembered /\ Looked /\ Counted /\ Queried

-----------------------------------------------------------------------------
(* A record names its request, so there are no more records than requests. *)

LEMMA RecordsAreFinite == ASSUME IInv PROVE IsFiniteSet(Recorded)
<1> DEFINE f == [u \in Recorded |-> records[u]]
<1>1. f \in [Recorded -> Requests]
  BY DEF IInv, Types, Recorded
<1>2. ASSUME NEW u \in Recorded, NEW v \in Recorded, f[u] = f[v] PROVE u = v
  BY <1>2 DEF IInv, Shape, Recorded
<1>3. f \in Injection(Recorded, Requests)
  BY <1>1, <1>2 DEF Injection, IsInjective
<1> QED
  BY <1>3, FS_Injection, VoucherAssumption

-----------------------------------------------------------------------------
LEMMA InitIInv == Init => IInv
<1> SUFFICES ASSUME Init PROVE IInv
  OBVIOUS
<1> USE VoucherAssumption DEF Init
<1>1. Types
  BY DEF Types, PCs, Replies, NoQuery, Forever
<1>2. Issued = {} /\ InFlight = {} /\ Recorded = {}
  BY DEF Issued, InFlight, Recorded
<1>3. Shape /\ Timely /\ Kept
  BY <1>2 DEF Shape, Timely, Kept
<1>4. Remembered /\ Looked /\ Counted
  BY <1>2 DEF Remembered, Looked, HasLooked, Counted, HasCounted
<1>5. Queried
  BY DEF Queried, NoQuery
<1> QED
  BY <1>1, <1>3, <1>4, <1>5 DEF IInv

-----------------------------------------------------------------------------
(* What no step undoes. *)

Grows ==
    /\ \A r \in Requests :
          pc[r] # "idle" =>
             /\ pc'[r] # "idle"
             /\ user'[r] = user[r] /\ matched'[r] = matched[r] /\ earlier'[r] = earlier[r]
    /\ \A r \in Requests : reply[r] = "success" => reply'[r] = "success"
    /\ failed \subseteq failed'
    /\ now' \in {now, now + 1}

LEMMA Grow == ASSUME IInv, [Next]_vars PROVE Grows
<1> USE DEF IInv, Types, Shape, Grows
<1>1. ASSUME NEW r \in Requests, NEW u \in Users \union {NoUser}, Match(r, u) PROVE Grows
  BY <1>1 DEF Match, Answers, GoesTo
<1>2. ASSUME NEW r \in Requests, GetHashField(r) PROVE Grows
  BY <1>2 DEF GetHashField, Answers, GoesTo, Fails
<1>3. ASSUME NEW r \in Requests, HashLen(r) PROVE Grows
  BY <1>3 DEF HashLen, Answers, GoesTo, Fails
<1>4. ASSUME NEW r \in Requests, HSet(r) PROVE Grows
  BY <1>4 DEF HSet, Answers, GoesTo, Fails
<1>5. ASSUME NEW r \in Requests, Expire(r) PROVE Grows
  BY <1>5 DEF Expire, Answers, Fails, GoesTo
<1>6. ASSUME NEW r \in Requests, Crash(r) PROVE Grows
  BY <1>6 DEF Crash, GoesTo, Fails
<1>7. ASSUME UNCHANGED <<pc, user, matched, reply, earlier, failed>>, now' \in {now, now + 1} PROVE Grows
  BY <1>7
<1>8. ASSUME \/ QueryLen \/ QueryHash \/ Tick \/ Drop \/ UNCHANGED vars
             \/ \E content \in Contents : Publish(content)
      PROVE  /\ UNCHANGED <<pc, user, matched, reply, earlier, failed>>
             /\ now' \in {now, now + 1}
  BY <1>8 DEF QueryLen, QueryHash, Tick, Drop, Publish, vars, redis
<1> QED
  BY <1>1, <1>2, <1>3, <1>4, <1>5, <1>6, <1>7, <1>8 DEF Next

LEMMA StillProlonged ==
    ASSUME IInv, Grows
    PROVE  /\ \A q \in Issued : q \in Issued' /\ matched'[q] = matched[q] /\ user'[q] = user[q]
           /\ \A r \in Requests : pc[r] # "idle" /\ Prolonged(r) => Prolonged(r)'
           /\ LongOver => LongOver'
<1>1. \A q \in Issued : q \in Issued' /\ matched'[q] = matched[q] /\ user'[q] = user[q]
  BY DEF IInv, Shape, Issued, Grows
<1>2. \A r \in Requests : pc[r] # "idle" /\ Prolonged(r) => Prolonged(r)'
  BY <1>1 DEF Prolonged, Grows
<1>3. ASSUME LongOver PROVE LongOver'
  <2>1. PICK q \in Issued : matched[q].ends + Grace < now
    BY <1>3 DEF LongOver
  <2>2. matched[q] \in Contents /\ now \in Nat /\ now' \in {now, now + 1}
    BY DEF IInv, Types, Issued, Grows
  <2>3. matched[q].ends \in Nat /\ Grace \in Nat
    BY <2>2, VoucherAssumption
  <2> QED
    BY <1>1, <2>1, <2>2, <2>3 DEF LongOver
<1> QED
  BY <1>1, <1>2, <1>3

-----------------------------------------------------------------------------
(* What a step may add: each conjunct of the invariant has to be shown of  *)
(* that only.                                                              *)

LEMMA ContentFields ==
    \A c \in Contents : c.starts \in Nat /\ c.ends \in Nat /\ c.quota \in Nat
BY VoucherAssumption

LEMMA NextTypes == ASSUME IInv, [Next]_vars PROVE Types'
<1> USE DEF IInv, Types, PCs, Replies
<1>1. Cardinality(Recorded) \in Nat
  BY RecordsAreFinite, FS_CardinalityType
<1>2. ASSUME NEW r \in Requests, NEW u \in Users \union {NoUser}, Match(r, u) PROVE Types'
  <2>1. Issued \subseteq Requests
    BY DEF Issued
  <2> QED
    BY <1>2, <2>1 DEF Match, Answers, GoesTo, redis
<1>3. ASSUME NEW r \in Requests, GetHashField(r) PROVE Types'
  BY <1>3 DEF GetHashField, Answers, GoesTo, Fails, redis
<1>4. ASSUME NEW r \in Requests, HashLen(r) PROVE Types'
  BY <1>4 DEF HashLen, Answers, GoesTo, Fails, redis
<1>5. ASSUME NEW r \in Requests, HSet(r) PROVE Types'
  <2>1. records' \in [Users -> Requests \union {None}]
    BY <1>5 DEF HSet
  <2>2. between' \subseteq {"stored", "dropped", "failed"}
    BY <1>5 DEF HSet, Between
  <2>3. pc' \in [Requests -> PCs] /\ reply' \in [Requests -> Replies] /\ at' \in [Requests -> Nat]
    BY <1>5 DEF HSet, Answers, GoesTo
  <2>4. failed' \in SUBSET Requests
    BY <1>5 DEF HSet, Fails
  <2> QED
    BY <1>5, <2>1, <2>2, <2>3, <2>4 DEF HSet
<1>6. ASSUME NEW r \in Requests, Expire(r) PROVE Types'
  <2>1. pc[r] = "expire" /\ r \in InFlight
    BY <1>6 DEF Expire, InFlight
  <2>2. matched[r].ends \in Nat /\ at[r] \in Nat /\ at[r] <= matched[r].ends /\ Grace \in Nat
    BY <2>1, ContentFields, VoucherAssumption DEF Timely
  <2>3. now + Lifetime(r) \in Nat
    BY <2>2 DEF Lifetime
  <2>4. keepUntil' \in Nat \union {Forever}
    BY <1>6, <2>3 DEF Expire
  <2> QED
    BY <1>6, <2>4 DEF Expire, Answers, GoesTo, Fails
<1>7. ASSUME NEW r \in Requests, Crash(r) PROVE Types'
  BY <1>7 DEF Crash, GoesTo, Fails, redis
<1>8. CASE QueryLen
  <2>1. query' \in [open : BOOLEAN, counted : Nat]
    <3>1. PICK n \in Nat : query' = [open |-> TRUE, counted |-> n]
      BY <1>1, <1>8 DEF QueryLen
    <3> QED
      BY <3>1
  <2>2. between' \subseteq {"stored", "dropped", "failed"}
    BY <1>8 DEF QueryLen
  <2> QED
    BY <1>8, <2>1, <2>2 DEF QueryLen, redis
<1>9. CASE QueryHash
  BY <1>9 DEF QueryHash, NoQuery, redis
<1>10. CASE \E content \in Contents : Publish(content)
  BY <1>10 DEF Publish, redis
<1>11. CASE Tick
  BY <1>11 DEF Tick, redis
<1>12. CASE Drop
  BY <1>12 DEF Drop, Between, Forever
<1>13. CASE UNCHANGED vars
  BY <1>13 DEF vars, redis
<1> QED
  BY <1>2, <1>3, <1>4, <1>5, <1>6, <1>7, <1>8, <1>9, <1>10, <1>11, <1>12, <1>13 DEF Next

LEMMA NextTimely == ASSUME IInv, [Next]_vars PROVE Timely'
<1> USE DEF IInv, Types, Timely, InFlight
<1>1. ASSUME NEW r \in Requests, NEW u \in Users \union {NoUser}, Match(r, u) PROVE Timely'
  <2>1. CASE activity.enabled /\ activity.starts <= now /\ now <= activity.ends /\ u # NoUser
    <3>1. pc' = [pc EXCEPT ![r] = "get"] /\ user' = [user EXCEPT ![r] = u] /\ now' = now
          /\ matched' = [matched EXCEPT ![r] = activity] /\ at' = [at EXCEPT ![r] = now]
      BY <1>1, <2>1 DEF Match, GoesTo
    <3> QED
      BY <2>1, <3>1, VoucherAssumption
  <2>2. CASE ~(activity.enabled /\ activity.starts <= now /\ now <= activity.ends /\ u # NoUser)
    <3>1. pc' = [pc EXCEPT ![r] = "done"] /\ at' = [at EXCEPT ![r] = 0]
          /\ UNCHANGED <<user, matched, now>>
      BY <1>1, <2>2 DEF Match, GoesTo, Answers
    <3> QED
      BY <3>1
  <2> QED
    BY <2>1, <2>2
<1>2. ASSUME NEW r \in Requests, pc[r] \in {"get", "len", "set", "expire"},
             \/ at' = at
             \/ at' = [at EXCEPT ![r] = 0] /\ pc' = [pc EXCEPT ![r] = "done"],
             NEW step, pc' = [pc EXCEPT ![r] = step], UNCHANGED <<user, matched, now>>
      PROVE  Timely'
  BY <1>2
<1>3. ASSUME NEW r \in Requests, GetHashField(r) PROVE Timely'
  <2>1. CASE Answers(r, "already")
    BY <1>2, <1>3, <2>1 DEF GetHashField, Answers, GoesTo
  <2>2. CASE GoesTo(r, "len") /\ at' = at
    BY <1>2, <1>3, <2>2 DEF GetHashField, GoesTo
  <2> QED
    BY <1>3, <2>1, <2>2 DEF GetHashField
<1>4. ASSUME NEW r \in Requests, HashLen(r) PROVE Timely'
  <2>1. CASE Answers(r, "exhausted")
    BY <1>2, <1>4, <2>1 DEF HashLen, Answers, GoesTo
  <2>2. CASE GoesTo(r, "set") /\ at' = at
    BY <1>2, <1>4, <2>2 DEF HashLen, GoesTo
  <2> QED
    BY <1>4, <2>1, <2>2 DEF HashLen
<1>5. ASSUME NEW r \in Requests, HSet(r) PROVE Timely'
  <2>1. CASE Answers(r, "success")
    BY <1>2, <1>5, <2>1 DEF HSet, Answers, GoesTo
  <2>2. CASE GoesTo(r, "expire") /\ at' = at
    BY <1>2, <1>5, <2>2 DEF HSet, GoesTo
  <2> QED
    BY <1>5, <2>1, <2>2 DEF HSet
<1>6. ASSUME NEW r \in Requests, Expire(r) PROVE Timely'
  BY <1>2, <1>6 DEF Expire, Answers, GoesTo
<1>7. ASSUME NEW r \in Requests, Crash(r) PROVE Timely'
  BY <1>2, <1>7 DEF Crash, GoesTo
<1>8. CASE Tick
  BY <1>8, VoucherAssumption DEF Tick
<1>9. CASE UNCHANGED <<now, pc, user, matched, at>>
  BY <1>9
<1>10. ASSUME \/ QueryLen \/ QueryHash \/ Drop \/ UNCHANGED vars
              \/ \E content \in Contents : Publish(content)
       PROVE  UNCHANGED <<now, pc, user, matched, at>>
  BY <1>10 DEF QueryLen, QueryHash, Drop, Publish, vars
<1> QED
  BY <1>1, <1>3, <1>4, <1>5, <1>6, <1>7, <1>8, <1>9, <1>10 DEF Next

(* Only HSet stores a record, and only Drop loses one. *)
RecordsMoved ==
    \/ UNCHANGED records
    \/ \E r \in Requests : HSet(r) /\ records' = [records EXCEPT ![user[r]] = r]
    \/ Drop

LEMMA RecordsMove == ASSUME [Next]_vars PROVE RecordsMoved
BY DEF RecordsMoved, Next, Match, GetHashField, HashLen, HSet, Expire, Crash, QueryLen, QueryHash,
       Publish, Tick, Drop, vars, redis

(* What becomes of keepUntil: only Expire and Drop write it. *)
LEMMA NextKept == ASSUME IInv, [Next]_vars PROVE Kept'
<1>1. CASE UNCHANGED keepUntil
  <2>1. \A q \in Issued : q \in Issued' /\ matched'[q] = matched[q]
    BY Grow, StillProlonged
  <2> QED
    BY <1>1, <2>1 DEF Kept, IInv
<1>2. ASSUME NEW r \in Requests, Expire(r), keepUntil' = now + Lifetime(r) PROVE Kept'
  <2>1. pc[r] = "expire" /\ r \in InFlight /\ matched' = matched
    BY <1>2 DEF Expire, InFlight
  <2>2. matched[r].ends \in Nat /\ at[r] \in Nat /\ at[r] <= now /\ now \in Nat /\ Grace \in Nat
    BY <2>1, ContentFields, VoucherAssumption DEF IInv, Types, Timely
  <2>3. matched[r].ends + Grace <= keepUntil'
    BY <1>2, <2>2 DEF Lifetime
  <2>4. r \in Issued'
    BY <1>2 DEF Expire, Answers, Issued, IInv, Types
  <2> QED
    BY <2>1, <2>3, <2>4 DEF Kept
<1>3. CASE keepUntil' = Forever
  BY <1>3 DEF Kept
<1> QED
  <2>1. \/ UNCHANGED keepUntil \/ keepUntil' = Forever
        \/ \E r \in Requests : Expire(r) /\ keepUntil' = now + Lifetime(r)
    BY DEF Next, Match, GetHashField, HashLen, HSet, Expire, Crash, QueryLen, QueryHash, Publish,
           Tick, Drop, vars, redis
  <2> QED
    BY <1>1, <1>2, <1>3, <2>1

(* A hash is dropped only when an activity is long over. *)
LEMMA DropIsLate == ASSUME IInv, Drop PROVE LongOver
<1>1. PICK q \in Issued : matched[q].ends + Grace <= keepUntil
  BY DEF Drop, IInv, Kept
<1>2. matched[q].ends \in Nat /\ Grace \in Nat /\ keepUntil \in Nat /\ now \in Nat /\ now > keepUntil
  BY ContentFields, VoucherAssumption DEF IInv, Types, Issued, Drop
<1> QED
  BY <1>1, <1>2 DEF LongOver

LEMMA NextRemembered == ASSUME IInv, [Next]_vars PROVE Remembered'
<1> USE DEF IInv, Types
<1>1. Grows /\ (LongOver => LongOver')
  BY Grow, StillProlonged
<1> SUFFICES ASSUME NEW q \in Requests, q \notin failed',
                    q \in Issued' \/ pc'[q] = "expire"
             PROVE  records'[user'[q]] # None \/ LongOver'
  BY DEF Remembered
<1>2. CASE q \in Issued \/ pc[q] = "expire"
  <2>1. pc[q] # "idle" /\ user'[q] = user[q] /\ user[q] \in Users
    BY <1>1, <1>2 DEF Shape, Issued, Grows, Timely, InFlight
  <2>2. records[user[q]] # None \/ LongOver
    BY <1>1, <1>2 DEF Remembered, Grows
  <2>3. records[user[q]] # None => records'[user[q]] # None \/ LongOver'
    BY <1>1, <2>1, RecordsMove, DropIsLate, VoucherAssumption DEF RecordsMoved
  <2> QED
    BY <1>1, <2>1, <2>2, <2>3
<1>3. CASE ~(q \in Issued \/ pc[q] = "expire")
  <2>1. HSet(q)
    BY <1>3 DEF Next, Match, GetHashField, HashLen, HSet, Expire, Crash, QueryLen, QueryHash,
                Publish, Tick, Drop, vars, redis, Answers, GoesTo, Issued
  <2>2. user[q] \in Users /\ user'[q] = user[q]
    BY <2>1 DEF HSet, Timely, InFlight
  <2>3. records' = [records EXCEPT ![user[q]] = q]
    BY <2>1 DEF HSet, Fails
  <2> QED
    BY <2>2, <2>3, VoucherAssumption
<1> QED
  BY <1>2, <1>3

LEMMA NextLooked == ASSUME IInv, [Next]_vars PROVE Looked'
<1> USE DEF IInv, Types
<1>1. /\ Grows
      /\ \A r \in Requests : pc[r] # "idle" /\ Prolonged(r) => Prolonged(r)'
  BY Grow, StillProlonged
<1> SUFFICES ASSUME NEW r \in Requests, HasLooked(r)',
                    NEW q \in earlier'[r] \ failed', user'[q] = user'[r]
             PROVE  Prolonged(r)'
  BY DEF Looked
<1>2. CASE HasLooked(r)
  <2>1. pc[r] # "idle" /\ earlier'[r] = earlier[r] /\ user'[r] = user[r]
    BY <1>1, <1>2 DEF HasLooked, Grows, Shape, Issued
  <2>2. q \in Issued /\ q \notin failed /\ user'[q] = user[q]
    BY <1>1, <2>1 DEF Grows, Shape, Issued
  <2>3. Prolonged(r)
    BY <1>2, <2>1, <2>2 DEF Looked
  <2> QED
    BY <1>1, <2>1, <2>3
<1>3. CASE ~HasLooked(r)
  <2>1. GetHashField(r) /\ records[user[r]] = None
    BY <1>1, <1>3 DEF HasLooked, Grows, Next, Match, GetHashField, HashLen, HSet, Expire, Crash,
       QueryLen, QueryHash, Publish, Tick, Drop, vars, redis, Answers, GoesTo, Fails, Issued
  <2>2. pc[r] = "get" /\ r \in InFlight /\ q \in earlier[r] /\ q \notin failed /\ user[q] = user[r]
    BY <1>1, <2>1 DEF GetHashField, InFlight, Grows
  <2>3. q \in Issued
    BY <2>2 DEF Shape
  <2>4. LongOver
    BY <2>1, <2>2, <2>3 DEF Remembered, Issued
  <2>5. PICK p \in Issued : matched[p].ends + Grace < now
    BY <2>4 DEF LongOver
  <2>6. now <= at[r] + Grace /\ at[r] <= matched[r].ends /\ at[r] \in Nat
    BY <2>2 DEF Timely
  <2>7. matched[p] \in Contents /\ matched[r] \in Contents
    BY DEF Issued
  <2>8. matched[p].ends < matched[r].ends
    BY <2>5, <2>6, <2>7, ContentFields, VoucherAssumption
  <2> QED
    BY <1>1, <2>2, <2>8 DEF Prolonged
<1> QED
  BY <1>2, <1>3

LEMMA NextCounted == ASSUME IInv, [Next]_vars PROVE Counted'
<1> USE DEF IInv, Types
<1>1. /\ Grows
      /\ \A r \in Requests : pc[r] # "idle" /\ Prolonged(r) => Prolonged(r)'
  BY Grow, StillProlonged
<1> SUFFICES ASSUME NEW r \in Requests, HasCounted(r)'
             PROVE  \/ Cardinality(Before(r))' < matched'[r].quota
                    \/ earlier'[r] \cap failed' # {}
                    \/ Prolonged(r)'
  BY DEF Counted
<1>2. pc[r] # "idle"
  <2> SUFFICES ASSUME pc[r] = "idle" PROVE FALSE
    OBVIOUS
  <2>1. reply[r] # "success"
    BY DEF Shape
  <2>2. pc'[r] \in {"idle", "get", "done"} /\ reply'[r] # "success"
    BY <2>1 DEF Next, Match, GetHashField, HashLen, HSet, Expire, Crash,
       QueryLen, QueryHash, Publish, Tick, Drop, vars, redis, Answers, GoesTo
  <2> QED
    BY <2>2 DEF HasCounted, Issued
<1>3. earlier'[r] = earlier[r] /\ matched'[r] = matched[r] /\ r \notin failed
  BY <1>1, <1>2 DEF Grows, HasCounted
<1>4. Before(r)' = Before(r)
  <2>1. \A q \in earlier[r] : user'[q] = user[q]
    BY <1>1 DEF Grows, Shape, Issued
  <2> QED
    BY <1>3, <2>1 DEF Before
<1>5. SUFFICES \/ Cardinality(Before(r)) < matched[r].quota
               \/ earlier[r] \cap failed # {}
               \/ Prolonged(r)
  BY <1>1, <1>2, <1>3, <1>4 DEF Grows
<1>6. CASE HasCounted(r)
  BY <1>6 DEF Counted
<1>7. CASE ~HasCounted(r)
  <2>1. HashLen(r) /\ ~Exhausted(r, Cardinality(Recorded))
    BY <1>3, <1>7 DEF HasCounted, Next, Match, GetHashField, HashLen, HSet, Expire, Crash,
       QueryLen, QueryHash, Publish, Tick, Drop, vars, redis, Answers, GoesTo, Fails, Issued
  <2>2. SUFFICES ASSUME earlier[r] \cap failed = {}, ~Prolonged(r)
                 PROVE  Cardinality(Before(r)) < matched[r].quota
    OBVIOUS
  <2>3. r \in InFlight
    BY <2>1 DEF HashLen, InFlight
  <2>4. ~LongOver
    <3> SUFFICES ASSUME NEW p \in Issued, matched[p].ends + Grace < now PROVE FALSE
      BY DEF LongOver
    <3>1. now <= at[r] + Grace /\ at[r] <= matched[r].ends /\ at[r] \in Nat
      BY <2>3 DEF Timely
    <3>2. matched[p] \in Contents /\ matched[r] \in Contents
      BY DEF Issued
    <3>3. matched[p].ends < matched[r].ends
      BY <3>1, <3>2, ContentFields, VoucherAssumption
    <3> QED
      BY <2>2, <3>3 DEF Prolonged
  <2>5. Before(r) \subseteq Recorded
    <3> SUFFICES ASSUME NEW q \in earlier[r] PROVE user[q] \in Recorded
      BY DEF Before
    <3>1. q \in Issued /\ q \in Requests \ failed
      BY <2>2 DEF Shape, Issued
    <3>2. user[q] \in Users /\ records[user[q]] # None
      BY <2>4, <3>1 DEF Shape, Remembered
    <3> QED
      BY <3>2 DEF Recorded
  <2>6. /\ Cardinality(Before(r)) <= Cardinality(Recorded)
        /\ Cardinality(Before(r)) \in Nat /\ Cardinality(Recorded) \in Nat
    BY <2>5, RecordsAreFinite, FS_Subset, FS_CardinalityType
  <2>7. matched[r].quota \in Nat /\ Cardinality(Recorded) < matched[r].quota
    BY <2>1, <2>6, ContentFields DEF Exhausted
  <2> QED
    BY <2>6, <2>7
<1> QED
  BY <1>6, <1>7

LEMMA NextShape == ASSUME IInv, [Next]_vars PROVE Shape'
<1> USE DEF IInv, Types
<1>1. Types' /\ Grows
  BY NextTypes, Grow
<1>2. \A r \in Requests : reply'[r] # "none" => pc'[r] = "done"
  BY DEF Shape, Next, Match, GetHashField, HashLen, HSet, Expire, Crash,
     QueryLen, QueryHash, Publish, Tick, Drop, vars, redis, Answers, GoesTo
<1>3. \A r \in Issued' : user'[r] \in Users
  <2> SUFFICES ASSUME NEW r \in Issued' PROVE user'[r] \in Users
    OBVIOUS
  <2>1. r \in Issued \/ pc[r] \in {"set", "expire"}
    BY DEF Issued, Next, Match, GetHashField, HashLen, HSet, Expire, Crash,
       QueryLen, QueryHash, Publish, Tick, Drop, vars, redis, Answers, GoesTo
  <2>2. user[r] \in Users /\ user'[r] = user[r]
    BY <1>1, <2>1 DEF Shape, Timely, InFlight, Issued, Grows
  <2> QED
    BY <2>2
<1>4. \A r \in Requests : earlier'[r] \subseteq Issued'
  <2>1. Issued \subseteq Issued'
    BY Grow, StillProlonged
  <2>2. \A r \in Requests : earlier'[r] = earlier[r] \/ earlier'[r] = Issued
    BY DEF Next, Match, GetHashField, HashLen, HSet, Expire, Crash,
       QueryLen, QueryHash, Publish, Tick, Drop, vars, redis
  <2> QED
    BY <2>1, <2>2 DEF Shape
<1>5. ASSUME NEW u \in Users, records'[u] # None
      PROVE  user'[records'[u]] = u /\ pc'[records'[u]] # "idle"
  <2>1. CASE records[u] # None /\ records'[u] = records[u]
    BY <1>1, <2>1 DEF Shape, Grows
  <2>2. ASSUME NEW r \in Requests, HSet(r), u = user[r], records'[u] = r
        PROVE  user'[records'[u]] = u /\ pc'[records'[u]] # "idle"
    BY <1>1, <2>2 DEF HSet, Grows
  <2> QED
    BY <1>5, <2>1, <2>2, RecordsMove DEF RecordsMoved, Drop
<1>6. ASSUME Recorded' # {}, keepUntil' = Forever
      PROVE  \E r \in Requests : pc'[r] = "expire" \/ r \in failed'
  <2>1. CASE \E r \in Requests : HSet(r)
    BY <2>1 DEF HSet, GoesTo, Fails
  <2>2. CASE \E r \in Requests : Expire(r)
    <3>1. PICK r \in Requests : Expire(r)
      BY <2>2
    <3>2. now + Lifetime(r) # Forever
      <4>1. matched[r].ends \in Nat /\ at[r] \in Nat /\ at[r] <= now /\ Grace \in Nat
        BY <3>1, ContentFields, VoucherAssumption DEF Expire, Timely, InFlight
      <4> QED
        BY <4>1 DEF Lifetime, Forever
    <3>3. Recorded' = Recorded
      BY <3>1 DEF Expire, Recorded
    <3> QED
      BY <1>6, <3>1, <3>2, <3>3 DEF Expire, Fails
  <2>3. CASE ~(\E r \in Requests : HSet(r) \/ Expire(r)) /\ ~Drop
    <3>1. UNCHANGED <<records, keepUntil>>
      BY <2>3 DEF Next, Match, GetHashField, HashLen, Crash, QueryLen, QueryHash, Publish,
         Tick, vars, redis
    <3>2. PICK r \in Requests : pc[r] = "expire" \/ r \in failed
      BY <1>6, <3>1 DEF Shape, Recorded
    <3>3. pc'[r] = "expire" \/ r \in failed'
      BY <2>3, <3>2 DEF Next, Match, GetHashField, HashLen, Crash, QueryLen, QueryHash, Publish,
         Tick, vars, redis, GoesTo, Answers, Fails
    <3> QED
      BY <3>3
  <2>4. CASE Drop
    BY <1>6, <2>4 DEF Drop, Recorded
  <2> QED
    BY <2>1, <2>2, <2>3, <2>4
<1> QED
  BY <1>2, <1>3, <1>4, <1>5, <1>6 DEF Shape

LEMMA NextQueried == ASSUME IInv, [Next]_vars PROVE Queried'
<1> USE DEF IInv, Types
<1>1. IsFiniteSet(Recorded) /\ Cardinality(Recorded) \in Nat
  BY RecordsAreFinite, FS_CardinalityType
<1>2. CASE QueryLen
  <2>1. Recorded' = Recorded
    BY <1>2 DEF QueryLen, Recorded, redis
  <2> QED
    BY <1>1, <1>2, <2>1 DEF QueryLen, Queried
<1>3. CASE QueryHash
  BY <1>3 DEF QueryHash, Queried, NoQuery
<1>4. ASSUME NEW r \in Requests, HSet(r), records' = [records EXCEPT ![user[r]] = r], Between("stored")
      PROVE  Queried'
  <2>1. Recorded' = Recorded \union {user[r]}
    BY <1>4, VoucherAssumption DEF HSet, Recorded, Timely, InFlight
  <2>2. Cardinality(Recorded) <= Cardinality(Recorded') /\ Cardinality(Recorded') \in Nat
    <3>1. Cardinality(Recorded \union {user[r]}) \in {Cardinality(Recorded), Cardinality(Recorded) + 1}
      BY <1>1, FS_AddElement
    <3> QED
      BY <1>1, <2>1, <3>1
  <2>3. query' = query
    BY <1>4 DEF HSet
  <2> QED
    BY <1>1, <1>4, <2>2, <2>3 DEF Queried, Between
<1>5. CASE Drop
  <2>1. Recorded' = {} /\ Cardinality(Recorded') = 0
    BY <1>5, FS_EmptySet DEF Drop, Recorded
  <2> QED
    BY <1>1, <1>5, <2>1 DEF Drop, Queried, Between
<1>6. CASE UNCHANGED <<records, query, between>>
  <2>1. Recorded' = Recorded
    BY <1>6 DEF Recorded
  <2> QED
    BY <1>6, <2>1 DEF Queried
<1>7. \/ QueryLen \/ QueryHash \/ Drop \/ UNCHANGED <<records, query, between>>
      \/ \E r \in Requests : HSet(r) /\ records' = [records EXCEPT ![user[r]] = r] /\ Between("stored")
  BY DEF Next, Match, GetHashField, HashLen, HSet, Expire, Crash, Publish, Tick, vars, redis
<1> QED
  BY <1>2, <1>3, <1>4, <1>5, <1>6, <1>7

-----------------------------------------------------------------------------
(* The invariant is one of the specification. *)
THEOREM Invariance == Spec => []IInv
<1>1. IInv /\ [Next]_vars => IInv'
  BY NextTypes, NextShape, NextTimely, NextKept, NextRemembered, NextLooked, NextCounted, NextQueried
  DEF IInv
<1> QED
  BY InitIInv, <1>1, PTL DEF Spec

(* The state has its shape: a record is of a request of its user, and the  *)
(* hash is without an end for a cause only (SetHashField).                 *)
THEOREM TypeCorrect == Spec => []TypeOK
<1>1. IInv => TypeOK
  BY DEF IInv, Types, Shape, TypeOK, PCs, Recorded, Issued
<1> QED
  BY Invariance, <1>1, PTL

(* Nobody gets two vouchers one after the other but for a failed Redis     *)
(* call or a prolonged activity (steps 8 to 11 of the middleware).         *)
THEOREM OneVoucherEachHolds == Spec => []OneVoucherEach
<1>1. IInv => OneVoucherEach
  BY DEF IInv, Shape, Looked, HasLooked, OneVoucherEach, Issued
<1> QED
  BY Invariance, <1>1, PTL

(* The quota is exceeded only by requests that overlap, but for the same   *)
(* two causes (step 9 of the middleware).                                  *)
THEOREM QuotaIsKept == Spec => []QuotaHolds
<1>1. IInv => QuotaHolds
  BY DEF IInv, Shape, Counted, HasCounted, Before, QuotaHolds, Issued
<1> QED
  BY Invariance, <1>1, PTL

(* The two numbers of an answered query differ only for a cause            *)
(* (getActivityQueryResponse).                                             *)
THEOREM QueryIsExplained == Spec => []QueryExplained
<1>1. ASSUME IInv PROVE QueryExplained
  <2>1. Cardinality(Recorded) \in Nat /\ query.counted \in Nat
    BY <1>1, RecordsAreFinite, FS_CardinalityType DEF IInv, Types
  <2> QED
    BY <1>1, <2>1 DEF IInv, Queried, QueryExplained, TotalRedeemedUsers
<1> QED
  BY Invariance, <1>1, PTL
=============================================================================
