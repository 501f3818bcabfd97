------------------------------- MODULE Voucher -------------------------------
(***************************************************************************)
(* Redeeming a voucher: VoucherActivityMiddleware of                       *)
(* internal/api/middleware/voucher_activity.go over the Redis calls of     *)
(* internal/client/redis.go, and the query of an activity in               *)
(* internal/api/handler/voucher_activity_handler.go.                       *)
(*                                                                         *)
(* Nothing but Redis is shared between requests, which may come to several *)
(* processes, so every Redis command is a step.  Any command may fail, and *)
(* a process may die with the requests that it serves.  The activity is    *)
(* one keyword, whose content Nacos may replace; a request goes on with    *)
(* the content that it has matched.  A voucher's code is the number of the *)
(* request that made it: its time stamp makes it unique.                   *)
(***************************************************************************)
EXTENDS Integers, FiniteSets

CONSTANTS
    Requests,   \* bound: the requests for a voucher, a set of numbers
    Users,      \* UUIDs
    NoUser,     \* a request without a UUID
    Contents,   \* what Nacos publishes: [enabled, starts, ends, quota]
    Grace,      \* the 15 days that the records outlive the activity
    MaxTime,    \* bound: days
    None        \* no record

Forever == -1

ASSUME VoucherAssumption ==
    /\ Requests \subseteq Nat /\ IsFiniteSet(Requests)
    /\ NoUser \notin Users /\ None \notin Requests
    /\ {Grace, MaxTime} \subseteq Nat
    /\ Contents \subseteq [enabled : BOOLEAN, starts : Nat, ends : Nat, quota : Nat]
    /\ Contents # {}

VARIABLES
    now,        \* the clock
    activity,   \* the published content
    records,    \* Redis: the hash voucher:activity:<keyword>:users, by user
    keepUntil,  \* Redis: the day on which the hash is dropped, or Forever
    pc,         \* pc[r]: the Redis command that the request comes to next
    user,       \* user[r]: identity.UserInfo.UUID
    matched,    \* matched[r]: matchedActivity
    at,         \* at[r]: currentTime
    reply,      \* reply[r]: what the user is told
    query,      \* a query of the activity between its two reads: [open, counted]
    earlier,    \* history: earlier[r]: vouchers issued before the request came
    failed,     \* history: requests whose Redis calls failed or were cut short
    between     \* history: what came between the query's two reads, or failed

redis == <<records, keepUntil>>
vars == <<now, activity, redis, pc, user, matched, at, reply, query, earlier, failed, between>>

Replies == {"none", "passed_on", "expired", "already", "exhausted", "success"}

NoQuery == [open |-> FALSE, counted |-> 0]

Issued == {r \in Requests : reply[r] = "success"}
Recorded == {u \in Users : records[u] # None}

Init ==
    /\ now = 0
    /\ activity \in Contents
    /\ records = [u \in Users |-> None]
    /\ keepUntil = Forever
    /\ pc = [r \in Requests |-> "idle"]
    /\ user = [r \in Requests |-> NoUser]
    /\ matched = [r \in Requests |-> activity]
    /\ at = [r \in Requests |-> 0]
    /\ reply = [r \in Requests |-> "none"]
    /\ query = NoQuery
    /\ earlier = [r \in Requests |-> {}]
    /\ failed = {}
    /\ between = {}

(* After a failed count nothing further is of interest. *)
Between(event) ==
    between' = IF query.open /\ between # {"failed"} THEN between \union {event} ELSE between

-----------------------------------------------------------------------------
(* A request.                                                              *)

GoesTo(r, step) == pc' = [pc EXCEPT ![r] = step]

(* The locals of a request that is over are dropped, but for those that    *)
(* the properties name.                                                    *)
Answers(r, text) ==
    /\ GoesTo(r, "done")
    /\ reply' = [reply EXCEPT ![r] = text]
    /\ at' = [at EXCEPT ![r] = 0]

(* A failed call is only logged. *)
Fails(r) == failed' = failed \union {r}

(* Steps 1 to 7: the message is the keyword; what is no redemption is      *)
(* passed on to the model.  Requests are numbered as they come.            *)
Match(r, u) ==
    /\ pc[r] = "idle"
    /\ \A q \in Requests : q < r => pc[q] # "idle"
    /\ IF activity.enabled /\ activity.starts <= now /\ now <= activity.ends /\ u # NoUser
       THEN /\ GoesTo(r, "get")
            /\ user' = [user EXCEPT ![r] = u]
            /\ matched' = [matched EXCEPT ![r] = activity]
            /\ at' = [at EXCEPT ![r] = now]
            /\ earlier' = [earlier EXCEPT ![r] = Issued]
            /\ UNCHANGED reply
       ELSE /\ Answers(r, IF activity.enabled /\ now > activity.ends
                          THEN "expired" ELSE "passed_on")
            /\ UNCHANGED <<user, matched, earlier>>
    /\ UNCHANGED <<now, activity, redis, query, failed, between>>

(* Mutant: a stored record does not stop the request. *)
GetHashFieldIgnored(r) ==
    /\ pc[r] = "get"
    /\ GoesTo(r, "len") /\ UNCHANGED <<reply, at, failed>>
    /\ UNCHANGED <<now, activity, redis, user, matched, query, earlier, between>>

(* Step 8.  A call that fails looks like a user without a record. *)
GetHashField(r) ==
    /\ pc[r] = "get"
    /\ \/ /\ records[user[r]] = None
          /\ GoesTo(r, "len") /\ UNCHANGED <<reply, at, failed>>
       \/ /\ records[user[r]] # None
          /\ Answers(r, "already") /\ UNCHANGED failed
       \/ /\ GoesTo(r, "len") /\ Fails(r) /\ UNCHANGED <<reply, at>>
    /\ UNCHANGED <<now, activity, redis, user, matched, query, earlier, between>>

(* Mutant: the quota is a count that may be reached once more. *)
ExhaustedBeyond(r, count) == count > matched[r].quota

(* Step 9, and the making of the code.  A call that fails counts nobody. *)
Exhausted(r, count) == count >= matched[r].quota

HashLen(r) ==
    /\ pc[r] = "len"
    /\ \/ \E count \in {Cardinality(Recorded)} :
             /\ UNCHANGED failed
             /\ IF Exhausted(r, count)
                THEN Answers(r, "exhausted")
                ELSE GoesTo(r, "set") /\ UNCHANGED <<reply, at>>
       \/ /\ Fails(r)
          /\ IF Exhausted(r, 0)
             THEN Answers(r, "exhausted")
             ELSE GoesTo(r, "set") /\ UNCHANGED <<reply, at>>
    /\ UNCHANGED <<now, activity, redis, user, matched, query, earlier, between>>

(* Mutant: the record is stored and never given an end. *)
HSetOnly(r) ==
    /\ pc[r] = "set"
    /\ records' = [records EXCEPT ![user[r]] = r]
    /\ Between("stored")
    /\ Answers(r, "success")
    /\ UNCHANGED <<now, activity, keepUntil, user, matched, query, earlier, failed>>

(* Step 11, the first command of SetHashField.  If it fails the user gets  *)
(* the code all the same.                                                  *)
HSet(r) ==
    /\ pc[r] = "set"
    /\ \/ /\ records' = [records EXCEPT ![user[r]] = r]
          /\ Between("stored")
          /\ GoesTo(r, "expire") /\ UNCHANGED <<reply, at, failed>>
       \/ /\ Answers(r, "success") /\ Fails(r)
          /\ UNCHANGED <<records, between>>
    /\ UNCHANGED <<now, activity, keepUntil, user, matched, query, earlier>>

(* The time to live was computed from the time of the match. *)
Lifetime(r) == matched[r].ends - at[r] + Grace

(* The second command of SetHashField, which does nothing to a hash that   *)
(* is gone, and the answer.                                                *)
Expire(r) ==
    /\ pc[r] = "expire"
    /\ \/ /\ keepUntil' = IF Recorded = {} THEN keepUntil ELSE now + Lifetime(r)
          /\ UNCHANGED failed
       \/ Fails(r) /\ UNCHANGED keepUntil
    /\ Answers(r, "success")
    /\ UNCHANGED <<now, activity, records, user, matched, query, earlier, between>>

-----------------------------------------------------------------------------
(* getActivityQueryResponse: two reads of the hash.  A failed count is a   *)
(* count of zero; a hash that is empty, like one that cannot be read, is   *)
(* an error.  Bound: a query comes while no call of a request has failed.  *)

(* Mutant: the vouchers that were given out are counted, not the records. *)
QueryIssued ==
    /\ ~query.open /\ failed = {}
    /\ query' = [open |-> TRUE, counted |-> Cardinality(Issued)] /\ between' = {}
    /\ UNCHANGED <<now, activity, redis, pc, user, matched, at, reply, earlier, failed>>

QueryLen ==
    /\ ~query.open /\ failed = {}
    /\ \/ query' = [open |-> TRUE, counted |-> Cardinality(Recorded)] /\ between' = {}
       \/ query' = [open |-> TRUE, counted |-> 0] /\ between' = {"failed"}
    /\ UNCHANGED <<now, activity, redis, pc, user, matched, at, reply, earlier, failed>>

QueryHash ==
    /\ query.open
    /\ query' = NoQuery
    /\ between' = {}
    /\ UNCHANGED <<now, activity, redis, pc, user, matched, at, reply, earlier, failed>>

(* The users in the answer that QueryHash gives, with their records. *)
TotalRedeemedUsers == Recorded

-----------------------------------------------------------------------------
(* Nacos, time, and the death of a process.                                *)

InFlight == {r \in Requests : pc[r] \in {"get", "len", "set", "expire"}}

Publish(content) ==
    /\ content # activity
    /\ activity' = content
    /\ UNCHANGED <<now, redis, pc, user, matched, at, reply, query, earlier, failed, between>>

(* No request takes as long as the grace: Redis calls time out in seconds. *)
Tick ==
    /\ now < MaxTime
    /\ \A r \in InFlight : now < at[r] + Grace
    /\ now' = now + 1
    /\ UNCHANGED <<activity, redis, pc, user, matched, at, reply, query, earlier, failed, between>>

Drop ==
    /\ keepUntil # Forever /\ now > keepUntil
    /\ records' = [u \in Users |-> None]
    /\ keepUntil' = Forever
    /\ Between("dropped")
    /\ UNCHANGED <<now, activity, pc, user, matched, at, reply, query, earlier, failed>>

(* Each request of the process ends without an answer. *)
Crash(r) ==
    /\ r \in InFlight
    /\ GoesTo(r, "done")
    /\ Fails(r)
    /\ at' = [at EXCEPT ![r] = 0]
    /\ UNCHANGED <<now, activity, redis, user, matched, reply, query, earlier, between>>

Next ==
    \/ \E r \in Requests :
         \/ \E u \in Users \union {NoUser} : Match(r, u)
         \/ GetHashField(r) \/ HashLen(r) \/ HSet(r) \/ Expire(r) \/ Crash(r)
    \/ QueryLen \/ QueryHash
    \/ \E content \in Contents : Publish(content)
    \/ Tick \/ Drop

Spec == Init /\ [][Next]_vars

-----------------------------------------------------------------------------
(* Properties.                                                             *)

(* The shape of the state: a record is of a request of its user; and the   *)
(* records have an end, but for the time between the two commands that     *)
(* store one, or if the second of them failed.                             *)
TypeOK ==
    /\ activity \in Contents
    /\ records \in [Users -> Requests \union {None}]
    /\ \A u \in Recorded : user[records[u]] = u
    /\ keepUntil \in Nat \union {Forever}
    /\ Recorded # {} /\ keepUntil = Forever =>
          \E r \in Requests : pc[r] = "expire" \/ r \in failed
    /\ pc \in [Requests -> {"idle", "get", "len", "set", "expire", "done"}]
    /\ reply \in [Requests -> Replies]
    /\ {failed, Issued} \subseteq SUBSET Requests
    /\ between \subseteq {"stored", "dropped", "failed"}

(* A voucher has been issued under an earlier end than that of r.          *)
Prolonged(r) == \E q \in Issued : matched[q].ends < matched[r].ends

(* "One per person", etc/chat-api.yaml:194: nobody who has a voucher gets  *)
(* another, unless a Redis call of either request failed, or the activity  *)
(* was prolonged and the records have not lasted.  Requests that overlap   *)
(* are outside of it: the code lets both through.                          *)
OneVoucherEach ==
    \A q, r \in Issued :
        q \in earlier[r] /\ user[q] = user[r] =>
            q \in failed \/ r \in failed \/ Prolonged(r)

(* "Total redemption quota", config.go:250: the users who had vouchers     *)
(* before a request came, and another one for each that overlapped, are    *)
(* all that the quota lets through.                                        *)
QuotaHolds ==
    \A r \in Issued :
        \/ Cardinality({user[q] : q \in earlier[r]}) < matched[r].quota
        \/ ({r} \union earlier[r]) \cap failed # {}
        \/ Prolonged(r)

(* The two numbers of users in an answered query differ only for a cause:  *)
(* more records than were counted if the count failed or a record came in  *)
(* between, fewer if the hash was dropped.                                 *)
QueryExplained ==
    query.open /\ TotalRedeemedUsers # {} =>
        /\ query.counted < Cardinality(TotalRedeemedUsers) => between \cap {"stored", "failed"} # {}
        /\ query.counted > Cardinality(TotalRedeemedUsers) => "dropped" \in between
=============================================================================
