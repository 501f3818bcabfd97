------------------------ MODULE ServiceLifecycleProofs ------------------------
(***************************************************************************)
(* Which configurations a request can mix, for any number of requests and  *)
(* changes and any contents.                                               *)
(***************************************************************************)
EXTENDS ServiceLifecycle, TLAPS

Steps == {"idle", "match", "sign", "chat", "copy", "executor", "stream", "done"}

(* TypeOK, with what is published and pc. *)
Types ==
    /\ TypeOK
    /\ server \in [Configs -> Versions]
    /\ \A d \in Configs : server[d] \in Contents[d]
    /\ pc \in [Requests -> Steps]

(* The voucher service signs with the key of the activities in force,      *)
(* unless an update is under way or they have none.                        *)
KeyInForce ==
    /\ key # None => held[Activities] # None
    /\ signer => held[Activities] # None
    /\ ~signer /\ key # None => key = held[Activities] \/ held[Activities] \in Keyless

NotYetServing == phase = "starting" => \A r \in Requests : pc[r] = "idle"

(* What a request has read is in force until an update comes amidst it. *)
ChatReads(r) ==
    /\ pc[r] \in {"idle", "match", "sign", "chat"} => saw[r]["describes"] = None
    /\ r \notin overlapped[Tools] =>
        /\ pc[r] \in {"copy", "executor", "stream"} => saw[r]["detects"] = executor
        /\ saw[r]["describes"] # None => saw[r]["describes"] = saw[r]["detects"]

RedemptionReads(r) ==
    /\ pc[r] \in {"idle", "match"} => saw[r]["activity"] = None
    /\ pc[r] \in {"idle", "match", "sign"} => saw[r]["key"] = None
    /\ r \notin overlapped[Activities] =>
        /\ pc[r] \in {"match", "sign"} => saw[r]["enabled"] = held[Activities] /\ ~signer
        /\ pc[r] = "sign" => saw[r]["activity"] = held[Activities]
        /\ saw[r]["activity"] # None => saw[r]["activity"] = saw[r]["enabled"]
        /\ saw[r]["key"] # None => \/ saw[r]["key"] = saw[r]["activity"]
                                   \/ saw[r]["activity"] \in Keyless

Inv ==
    /\ Types
    /\ KeyInForce
    /\ NotYetServing
    /\ \A r \in Requests : ChatReads(r) /\ RedemptionReads(r)

LEMMA NoneIsNoContent ==
    /\ Tools \in Configs /\ Activities \in Configs /\ Tools # Activities
    /\ \A d \in Configs : None \notin Contents[d]
    /\ None \notin Keyless
    /\ None \in Versions
    /\ \A d \in Configs : Contents[d] \subseteq Versions
BY LifecycleAssumption DEF Versions, Tools, Activities

LEMMA InitInv == Init => Inv
<1> SUFFICES ASSUME Init PROVE Inv
  OBVIOUS
<1>1. Types
  BY NoneIsNoContent DEF Init, Types, TypeOK, Versions, Steps, Nothing, Reads
<1>2. \A r \in Requests : ChatReads(r) /\ RedemptionReads(r)
  BY DEF Init, ChatReads, RedemptionReads, Nothing, Reads
<1> QED BY <1>1, <1>2 DEF Init, Inv, KeyInForce, NotYetServing

-----------------------------------------------------------------------------
(* Steps that leave what requests read as it is.                           *)

LEMMA QuietStep ==
    ASSUME Inv, Types', UNCHANGED <<service, requests>>,
           phase' = "starting" => phase = "starting"
    PROVE  Inv'
<1>1. KeyInForce'
  BY DEF Inv, KeyInForce, service
<1>2. NotYetServing'
  BY DEF Inv, NotYetServing, requests
<1>3. \A r \in Requests : ChatReads(r)' /\ RedemptionReads(r)'
  BY DEF Inv, ChatReads, RedemptionReads, service, requests
<1> QED BY <1>1, <1>2, <1>3 DEF Inv

(* Before the service serves, all requests are idle, and whatever is       *)
(* assigned to the service cannot contradict them.                         *)
LEMMA StartStep ==
    ASSUME Inv, Types', KeyInForce', UNCHANGED requests, phase = "starting"
    PROVE  Inv'
<1>1. \A r \in Requests : pc[r] = "idle"
  BY DEF Inv, NotYetServing
<1>2. NotYetServing'
  BY <1>1 DEF NotYetServing, requests
<1>3. \A r \in Requests : ChatReads(r)' /\ RedemptionReads(r)'
  BY <1>1 DEF Inv, ChatReads, RedemptionReads, requests
<1> QED BY <1>2, <1>3 DEF Inv

LEMMA InitializeStep ==
    ASSUME Inv, Initialize
    PROVE  Inv'
<1> USE NoneIsNoContent
<1>0. Types /\ KeyInForce /\ UNCHANGED <<nacos, requests>>
  BY DEF Inv, Initialize
<1>1. CASE InitializeStateless \/ InitializeStorage \/ InitializeLoggerService
           \/ InitializeRedisClient \/ NewNacosConfigManager
  <2>1. UNCHANGED <<callbacks, service>> /\ open' \subseteq Components
        /\ phase = "starting"
    BY <1>0, <1>1 DEF Types, TypeOK, InitializeStateless, InitializeStorage, InitializeLoggerService,
       InitializeRedisClient, NewNacosConfigManager, At, Opens, Succeeds, Fails, Components
  <2>2. Types'
    BY <1>0, <2>1 DEF Types, TypeOK, callbacks, service, nacos, requests
  <2> QED BY <1>0, <2>1, <2>2, QuietStep
<1>2. ASSUME NEW d \in Configs, LoadConfig(d) PROVE Inv'
  <2>1. CASE phase' = "crashed"
    <3>1. UNCHANGED <<callbacks, service, open>>
      BY <1>2, <2>1 DEF LoadConfig, At
    <3>2. Types'
      BY <1>0, <3>1 DEF Types, TypeOK, callbacks, service, nacos, requests
    <3> QED BY <1>0, <2>1, <3>1, <3>2, QuietStep
  <2>2. CASE phase' # "crashed"
    <3>1. /\ phase = "starting" /\ d \in Missing
          /\ Parses(server[d])
          /\ held' = [held EXCEPT ![d] = server[d]]
          /\ seen' = [seen EXCEPT ![d] = server[d]]
          /\ UNCHANGED <<open, listening, calls, overtaken, executor, key, signer>>
      BY <1>2, <2>2 DEF LoadConfig, At
    <3>2. held' \in [Configs -> Versions] /\ seen' \in [Configs -> Versions]
      BY <1>0, <3>1 DEF Types, TypeOK
    <3>3. \A e \in Configs : held'[e] \in (Contents[e] \ Broken) \union {None}
      BY <1>0, <3>1 DEF Types, TypeOK, Parses
    <3>4. Types'
      BY <1>0, <3>1, <3>2, <3>3 DEF Types, TypeOK, nacos, requests
    <3>5. KeyInForce'
      BY <1>0, <3>1 DEF Types, TypeOK, KeyInForce, Missing
    <3> QED BY <1>0, <3>1, <3>4, <3>5, StartStep
  <2> QED BY <2>1, <2>2
<1>3. ASSUME InitializeVoucherService, held[Activities] \notin Keyless PROVE Inv'
  <2>1. phase = "starting" /\ key' = held[Activities]
        /\ UNCHANGED <<open, callbacks, held, executor, signer>>
    BY <1>3 DEF InitializeVoucherService, At
  <2>2. Types'
    BY <1>0, <1>3, <2>1 DEF Types, TypeOK, callbacks, nacos, requests
  <2>3. KeyInForce'
    BY <1>0, <2>1 DEF KeyInForce
  <2> QED BY <1>0, <2>1, <2>2, <2>3, StartStep
<1>4. ASSUME InitializeVoucherService, held[Activities] \in Keyless PROVE Inv'
  <2>1. phase' = "cleanup" /\ UNCHANGED <<open, callbacks, service>>
    BY <1>4 DEF InitializeVoucherService, Fails
  <2>2. Types'
    BY <1>0, <2>1 DEF Types, TypeOK, callbacks, service, nacos, requests
  <2> QED BY <1>0, <2>1, <2>2, QuietStep
<1>5. CASE InitializeToolExecutor
  <2>1. phase = "starting" /\ executor' = held[Tools]
        /\ UNCHANGED <<open, callbacks, held, key, signer>>
    BY <1>5 DEF InitializeToolExecutor, At
  <2>2. Types'
    BY <1>0, <2>1 DEF Types, TypeOK, callbacks, nacos, requests
  <2>3. KeyInForce'
    BY <1>0, <2>1 DEF KeyInForce
  <2> QED BY <1>0, <2>1, <2>2, <2>3, StartStep
<1>6. ASSUME NEW d \in Configs, ListenConfig(d) PROVE Inv'
  <2>1. /\ phase = "starting"
        /\ listening \subseteq listening' /\ listening' \subseteq Configs
        /\ UNCHANGED <<open, seen, calls, overtaken, service>>
    BY <1>0, <1>6 DEF ListenConfig, At, Fails, callbacks, Types, TypeOK
  <2>2. Types'
    BY <1>0, <2>1 DEF Types, TypeOK, service, nacos, requests
  <2> QED BY <1>0, <2>1, <2>2, QuietStep
<1> QED BY <1>1, <1>2, <1>3, <1>4, <1>5, <1>6 DEF Initialize

LEMMA ProcessStep ==
    ASSUME Inv, CleanupOnError \/ ServerCrash \/ Signal \/ ShutdownStep \/ ShutdownTimeout \/ Exit
    PROVE  Inv'
<1>1. /\ UNCHANGED <<nacos, callbacks, service, requests>>
      /\ open' \subseteq open /\ phase' # "starting"
  BY DEF CleanupOnError, ServerCrash, Signal, ShutdownStep, ShutdownTimeout, Exit
<1>2. Types'
  BY <1>1 DEF Inv, Types, TypeOK, nacos, callbacks, service, requests
<1> QED BY <1>1, <1>2, QuietStep

LEMMA PublishStep ==
    ASSUME Inv, NEW d \in Configs, Publish(d)
    PROVE  Inv'
<1>1. PICK content \in Contents[d] : server' = [server EXCEPT ![d] = content]
  BY DEF Publish
<1>2. UNCHANGED <<process, callbacks, service, requests>>
  BY DEF Publish
<1>3. Types'
  BY <1>1, <1>2, NoneIsNoContent DEF Inv, Types, TypeOK, process, callbacks, service, requests
<1> QED BY <1>2, <1>3, QuietStep DEF process

-----------------------------------------------------------------------------
(* Updates.                                                                *)

LEMMA OnChangeStep ==
    ASSUME Inv, NEW d \in Configs, OnChange(d)
    PROVE  Inv'
<1>1. /\ seen' = [seen EXCEPT ![d] = server[d]]
      /\ d \in listening
      /\ UNCHANGED <<nacos, process, listening, overtaken, service, requests>>
  BY DEF OnChange
<1>2. Types
  BY DEF Inv
<1>3. seen' \in [Configs -> Versions]
  BY <1>1, <1>2 DEF Types, TypeOK
<1>4. \/ UNCHANGED calls
      \/ /\ server[d] \notin Broken
         /\ calls' = calls \union {[of |-> d, with |-> server[d], at |-> changes]}
  BY DEF OnChange, Parses, CallsBack
<1>5. \A c \in calls' : c.of \in listening /\ c.with \in Contents[c.of] \ Broken
  BY <1>1, <1>2, <1>4 DEF Types, TypeOK
<1>6. Types'
  BY <1>1, <1>2, <1>3, <1>5 DEF Types, TypeOK, nacos, process, service, requests
<1> QED BY <1>1, <1>6, QuietStep DEF process

(* A callback assigns a content that was published and parsed. *)
LEMMA PendingContent ==
    ASSUME Types, NEW d \in Configs, NEW c \in Pending(d)
    PROVE  c \in calls /\ c.of = d /\ d \in listening
           /\ c.with \in Contents[d] \ Broken /\ c.with \in Versions /\ c.with # None
BY NoneIsNoContent DEF Pending, Types, TypeOK

LEMMA UpdateFuncKeepsTypes ==
    ASSUME Types, NEW d \in Configs, NEW c \in Pending(d), UpdateFunc(c),
           held' \in [Configs -> Versions],
           \A e \in Configs : held'[e] \in (Contents[e] \ Broken) \union {None},
           executor' \in Versions, key' \in Versions, key' \notin Keyless,
           signer' \in BOOLEAN,
           overlapped' \in [{Tools, Activities} -> SUBSET Requests]
    PROVE  Types'
<1>1. c.of \in listening
  BY PendingContent
<1>2. calls' \subseteq calls /\ overtaken' \subseteq listening
      /\ UNCHANGED <<nacos, process, seen, listening, pc, saw>>
  BY <1>1 DEF UpdateFunc, Types, TypeOK
<1> QED BY <1>2 DEF Types, TypeOK, nacos, process

LEMMA UpdateConfigStep ==
    ASSUME Inv, NEW d \in Configs, UpdateConfig(d)
    PROVE  Inv'
<1>0. PICK c \in Pending(d) : UpdateFunc(c) /\ held' = [held EXCEPT ![d] = c.with]
  BY DEF UpdateConfig
<1>1. /\ d \notin {Tools, Activities} /\ ~signer
      /\ UNCHANGED <<executor, key, signer, overlapped, pc, saw, phase>>
  BY <1>0 DEF UpdateConfig, UpdateFunc, process
<1>2. held'[Activities] = held[Activities]
  BY <1>0, <1>1, NoneIsNoContent DEF Inv, Types, TypeOK
<1>3. Types'
  <2>1. c.with \in Contents[d] \ Broken /\ c.with \in Versions
    BY PendingContent DEF Inv
  <2>2. /\ held' \in [Configs -> Versions]
        /\ \A e \in Configs : held'[e] \in (Contents[e] \ Broken) \union {None}
    BY <1>0, <2>1 DEF Inv, Types, TypeOK
  <2> QED BY <1>0, <1>1, <2>2, UpdateFuncKeepsTypes DEF Inv, Types, TypeOK
<1>4. KeyInForce' /\ NotYetServing'
  BY <1>1, <1>2 DEF Inv, KeyInForce, NotYetServing
<1>5. \A r \in Requests : ChatReads(r)' /\ RedemptionReads(r)'
  BY <1>1, <1>2 DEF Inv, ChatReads, RedemptionReads
<1> QED BY <1>3, <1>4, <1>5 DEF Inv

(* An update adds to overlapped whoever may have read what it replaces. *)
LEMMA OverlapsAdds ==
    ASSUME Types, NEW d \in {Tools, Activities}, Overlaps(d)
    PROVE  /\ overlapped' \in [{Tools, Activities} -> SUBSET Requests]
           /\ overlapped'[d] = overlapped[d] \union Amidst(d)
           /\ \A e \in {Tools, Activities} : e # d => overlapped'[e] = overlapped[e]
BY DEF Overlaps, Types, TypeOK, Amidst

LEMMA UpdateToolExecutorStep ==
    ASSUME Inv, UpdateToolExecutor
    PROVE  Inv'
<1> USE NoneIsNoContent
<1>0. PICK c \in Pending(Tools) : UpdateFunc(c) /\ executor' = c.with
  BY DEF UpdateToolExecutor
<1>1. /\ ~signer /\ Overlaps(Tools)
      /\ UNCHANGED <<held, key, signer, pc, saw, phase>>
  BY <1>0 DEF UpdateToolExecutor, UpdateFunc, process
<1>2. /\ overlapped' \in [{Tools, Activities} -> SUBSET Requests]
      /\ overlapped'[Tools] = overlapped[Tools] \union Amidst(Tools)
      /\ overlapped'[Activities] = overlapped[Activities]
  BY <1>1, OverlapsAdds DEF Inv
<1>3. Types'
  <2>1. executor' \in Versions
    BY <1>0, PendingContent DEF Inv
  <2> QED BY <1>0, <1>1, <1>2, <2>1, UpdateFuncKeepsTypes DEF Inv, Types, TypeOK
<1>4. KeyInForce' /\ NotYetServing'
  BY <1>1 DEF Inv, KeyInForce, NotYetServing
<1>5. ASSUME NEW r \in Requests PROVE ChatReads(r)'
  BY <1>1, <1>2 DEF Inv, ChatReads, Amidst
<1>6. ASSUME NEW r \in Requests PROVE RedemptionReads(r)'
  BY <1>1, <1>2 DEF Inv, RedemptionReads
<1> QED BY <1>3, <1>4, <1>5, <1>6 DEF Inv

LEMMA UpdateVoucherActivityConfigStep ==
    ASSUME Inv, UpdateVoucherActivityConfig
    PROVE  Inv'
<1> USE NoneIsNoContent
<1>0. PICK c \in Pending(Activities) :
          UpdateFunc(c) /\ held' = [held EXCEPT ![Activities] = c.with]
  BY DEF UpdateVoucherActivityConfig
<1>1. /\ signer' = TRUE /\ Overlaps(Activities)
      /\ UNCHANGED <<executor, key, pc, saw, phase>>
  BY <1>0 DEF UpdateVoucherActivityConfig, UpdateFunc, process
<1>c. c.with \in Contents[Activities] \ Broken /\ c.with \in Versions /\ c.with # None
  BY PendingContent DEF Inv
<1>2. /\ overlapped' \in [{Tools, Activities} -> SUBSET Requests]
      /\ overlapped'[Activities] = overlapped[Activities] \union Amidst(Activities)
      /\ overlapped'[Tools] = overlapped[Tools]
  BY <1>1, OverlapsAdds DEF Inv
<1>3. Types'
  <2>1. /\ held' \in [Configs -> Versions]
        /\ \A e \in Configs : held'[e] \in (Contents[e] \ Broken) \union {None}
    BY <1>0, <1>c DEF Inv, Types, TypeOK
  <2> QED BY <1>0, <1>1, <1>2, <2>1, UpdateFuncKeepsTypes DEF Inv, Types, TypeOK
<1>4. KeyInForce'
  BY <1>0, <1>1, <1>c DEF Inv, KeyInForce, Types, TypeOK
<1>5. NotYetServing'
  BY <1>1 DEF Inv, NotYetServing
<1>6. ASSUME NEW r \in Requests PROVE ChatReads(r)'
  BY <1>1, <1>2 DEF Inv, ChatReads
<1>7. ASSUME NEW r \in Requests PROVE RedemptionReads(r)'
  BY <1>1, <1>2 DEF Inv, RedemptionReads, Amidst, Tools, Activities
<1> QED BY <1>3, <1>4, <1>5, <1>6, <1>7 DEF Inv

LEMMA ReplaceVoucherServiceStep ==
    ASSUME Inv, ReplaceVoucherService
    PROVE  Inv'
<1> USE NoneIsNoContent
<1>1. /\ signer /\ signer' = FALSE
      /\ key' = IF held[Activities] \in Keyless THEN key ELSE held[Activities]
      /\ Overlaps(Activities)
      /\ UNCHANGED <<nacos, process, callbacks, held, executor, pc, saw>>
  BY DEF ReplaceVoucherService
<1>2. /\ overlapped' \in [{Tools, Activities} -> SUBSET Requests]
      /\ overlapped'[Activities] = overlapped[Activities] \union Amidst(Activities)
      /\ overlapped'[Tools] = overlapped[Tools]
  BY <1>1, OverlapsAdds DEF Inv
<1>3. Types'
  BY <1>1, <1>2 DEF Inv, Types, TypeOK, nacos, process, callbacks
<1>4. KeyInForce'
  BY <1>1 DEF Inv, KeyInForce
<1>5. NotYetServing'
  BY <1>1 DEF Inv, NotYetServing, process
<1>6. ASSUME NEW r \in Requests PROVE ChatReads(r)'
  BY <1>1, <1>2 DEF Inv, ChatReads
<1>7. ASSUME NEW r \in Requests PROVE RedemptionReads(r)'
  BY <1>1, <1>2 DEF Inv, RedemptionReads
<1> QED BY <1>3, <1>4, <1>5, <1>6, <1>7 DEF Inv

-----------------------------------------------------------------------------
(* Requests.                                                               *)

LEMMA ReadFieldTypes ==
    ASSUME Types, NEW r \in Requests, NEW from, NEW what \in Reads, NEW content \in Versions,
           NEW to \in Steps, ReadField(r, from, what, content, to),
           overlapped' \in [{Tools, Activities} -> SUBSET Requests]
    PROVE  /\ Types'
           /\ \A q \in Requests \ {r} : pc'[q] = pc[q] /\ saw'[q] = saw[q]
           /\ pc[r] = from /\ pc'[r] = to
           /\ to = "chat" => saw'[r] = Nothing
           /\ to # "chat" => \A x \in Reads : saw'[r][x] = IF x = what THEN content ELSE saw[r][x]
           /\ Serving /\ UNCHANGED <<nacos, process, callbacks, service>>
<1>1. /\ saw' = [saw EXCEPT ![r] = IF to = "chat" THEN Nothing ELSE [@ EXCEPT ![what] = content]]
      /\ pc' = [pc EXCEPT ![r] = to] /\ pc[r] = from
      /\ Serving /\ UNCHANGED <<nacos, process, callbacks, service>>
  BY DEF ReadField
<1>2. Nothing \in [Reads -> Versions]
  BY NoneIsNoContent DEF Nothing
<1>3. [saw[r] EXCEPT ![what] = content] \in [Reads -> Versions]
  BY DEF Types, TypeOK
<1> QED
  BY <1>1, <1>2, <1>3 DEF Types, TypeOK, nacos, process, callbacks, service

(* What the other requests have read is unaffected. *)
LEMMA RequestStep ==
    ASSUME Inv, NEW r \in Requests, Request(r)
    PROVE  Inv'
<1> USE NoneIsNoContent
<1> DEFINE Rest == /\ Types' /\ Serving /\ UNCHANGED <<process, service>>
                   /\ \A q \in Requests \ {r} : pc'[q] = pc[q] /\ saw'[q] = saw[q]
           Read(from, what, content, to) ==
               /\ pc[r] = from /\ pc'[r] = to
               /\ to = "chat" => saw'[r] = Nothing
               /\ to # "chat" => \A x \in Reads : saw'[r][x] = IF x = what THEN content ELSE saw[r][x]
<1>0. Types /\ held[Activities] \in Versions /\ held[Tools] \in Versions
      /\ executor \in Versions /\ key \in Versions
      /\ overlapped \in [{Tools, Activities} -> SUBSET Requests]
  BY DEF Inv, Types, TypeOK
<1>1. ASSUME Rest, overlapped' = overlapped \/ (\A q \in Requests \ {r}, d \in {Tools, Activities} :
                q \in overlapped'[d] <=> q \in overlapped[d]),
             ChatReads(r)', RedemptionReads(r)'
      PROVE  Inv'
  <2>1. KeyInForce' /\ NotYetServing'
    BY <1>1 DEF Inv, KeyInForce, NotYetServing, Serving, service, process
  <2>2. ASSUME NEW q \in Requests \ {r} PROVE ChatReads(q)' /\ RedemptionReads(q)'
    <3>1. ChatReads(q) /\ RedemptionReads(q)
      BY DEF Inv
    <3> QED BY <1>1, <2>2, <3>1 DEF ChatReads, RedemptionReads, service
  <2> QED BY <1>1, <2>1, <2>2 DEF Inv
<1> DEFINE Old == ChatReads(r) /\ RedemptionReads(r)
<1>2. Old
  BY DEF Inv
<1>3. CASE CheckEnabled(r)
  <2> DEFINE to == IF held[Activities] \in Disabled THEN "chat" ELSE "match"
             new == IF signer THEN [overlapped EXCEPT ![Activities] = @ \union {r}] ELSE overlapped
  <2>1. ReadField(r, "idle", "enabled", held[Activities], to) /\ overlapped' = new
    BY <1>3 DEF CheckEnabled
  <2>2. /\ overlapped' \in [{Tools, Activities} -> SUBSET Requests]
        /\ \A q \in Requests \ {r}, d \in {Tools, Activities} :
               q \in overlapped'[d] <=> q \in overlapped[d]
        /\ r \notin overlapped'[Tools] => r \notin overlapped[Tools]
        /\ r \notin overlapped'[Activities] => r \notin overlapped[Activities] /\ ~signer
    BY <1>0, <2>1
  <2>3. to \in Steps /\ to \in {"chat", "match"} /\ "enabled" \in Reads
    BY DEF Steps, Reads
  <2> HIDE DEF to, new
  <2>4. Rest /\ Read("idle", "enabled", held[Activities], to)
    BY <1>0, <2>1, <2>2, <2>3, ReadFieldTypes
  <2>5. ChatReads(r)'
    BY <1>2, <2>2, <2>3, <2>4 DEF ChatReads, Nothing, Reads
  <2>6. RedemptionReads(r)'
    BY <1>2, <2>2, <2>3, <2>4 DEF RedemptionReads, Nothing, Reads, service
  <2> QED BY <1>1, <2>2, <2>4, <2>5, <2>6
<1>4. CASE MatchActivity(r)
  <2>1. PICK to \in {"sign", "done", "chat"} : ReadField(r, "match", "activity", held[Activities], to)
    BY <1>4 DEF MatchActivity
  <2>2. overlapped' = overlapped
    BY <1>4 DEF MatchActivity
  <2>3. to \in Steps /\ "activity" \in Reads
    BY DEF Steps, Reads
  <2>4. Rest /\ Read("match", "activity", held[Activities], to)
    BY <1>0, <2>1, <2>2, <2>3, ReadFieldTypes
  <2>5. ChatReads(r)'
    BY <1>2, <2>2, <2>4 DEF ChatReads, Nothing, Reads
  <2>6. RedemptionReads(r)'
    BY <1>2, <2>2, <2>4 DEF RedemptionReads, Nothing, Reads, service
  <2> QED BY <1>1, <2>2, <2>4, <2>5, <2>6
<1>5. CASE GenerateVoucher(r)
  <2>1. ReadField(r, "sign", "key", key, "done") /\ overlapped' = overlapped
    BY <1>5 DEF GenerateVoucher
  <2>3. "done" \in Steps /\ "key" \in Reads
    BY DEF Steps, Reads
  <2>4. Rest /\ Read("sign", "key", key, "done")
    BY <1>0, <2>1, <2>3, ReadFieldTypes
  <2>5. ChatReads(r)'
    BY <1>2, <2>1, <2>4 DEF ChatReads, Reads
  <2>6. RedemptionReads(r)'
    BY <1>2, <2>1, <2>4 DEF Inv, KeyInForce, RedemptionReads, Reads, service
  <2> QED BY <1>1, <2>1, <2>4, <2>5, <2>6
<1>6. CASE NewChatCompletionLogic(r)
  <2>1. ReadField(r, "chat", "detects", executor, "copy") /\ overlapped' = overlapped
    BY <1>6 DEF NewChatCompletionLogic
  <2>3. "copy" \in Steps /\ "detects" \in Reads
    BY DEF Steps, Reads
  <2>4. Rest /\ Read("chat", "detects", executor, "copy")
    BY <1>0, <2>1, <2>3, ReadFieldTypes
  <2>5. ChatReads(r)'
    BY <1>2, <2>1, <2>4 DEF ChatReads, Reads, service
  <2>6. RedemptionReads(r)'
    BY <1>2, <2>1, <2>4 DEF RedemptionReads, Reads, service
  <2> QED BY <1>1, <2>1, <2>4, <2>5, <2>6
<1>7. CASE CopyConfig(r)
  <2>1. ReadField(r, "copy", "switch", held[Tools], "executor") /\ overlapped' = overlapped
    BY <1>7 DEF CopyConfig
  <2>3. "executor" \in Steps /\ "switch" \in Reads
    BY DEF Steps, Reads
  <2>4. Rest /\ Read("copy", "switch", held[Tools], "executor")
    BY <1>0, <2>1, <2>3, ReadFieldTypes
  <2>5. ChatReads(r)'
    BY <1>2, <2>1, <2>4 DEF ChatReads, Reads, service
  <2>6. RedemptionReads(r)'
    BY <1>2, <2>1, <2>4 DEF RedemptionReads, Reads, service
  <2> QED BY <1>1, <2>1, <2>4, <2>5, <2>6
<1>8. CASE CopyToolExecutor(r)
  <2>1. ReadField(r, "executor", "describes", executor, "stream") /\ overlapped' = overlapped
    BY <1>8 DEF CopyToolExecutor
  <2>3. "stream" \in Steps /\ "describes" \in Reads
    BY DEF Steps, Reads
  <2>4. Rest /\ Read("executor", "describes", executor, "stream")
    BY <1>0, <2>1, <2>3, ReadFieldTypes
  <2>5. ChatReads(r)'
    BY <1>2, <2>1, <2>4 DEF ChatReads, Reads, service
  <2>6. RedemptionReads(r)'
    BY <1>2, <2>1, <2>4 DEF RedemptionReads, Reads, service
  <2> QED BY <1>1, <2>1, <2>4, <2>5, <2>6
<1>9. CASE HandleStreamChunk(r)
  <2>1. ReadField(r, "stream", "obeys", held[Tools], "done") /\ overlapped' = overlapped
    BY <1>9 DEF HandleStreamChunk
  <2>3. "done" \in Steps /\ "obeys" \in Reads
    BY DEF Steps, Reads
  <2>4. Rest /\ Read("stream", "obeys", held[Tools], "done")
    BY <1>0, <2>1, <2>3, ReadFieldTypes
  <2>5. ChatReads(r)'
    BY <1>2, <2>1, <2>4 DEF ChatReads, Reads, service
  <2>6. RedemptionReads(r)'
    BY <1>2, <2>1, <2>4 DEF RedemptionReads, Reads, service
  <2> QED BY <1>1, <2>1, <2>4, <2>5, <2>6
<1> QED BY <1>3, <1>4, <1>5, <1>6, <1>7, <1>8, <1>9 DEF Request

-----------------------------------------------------------------------------
LEMMA NextInv ==
    ASSUME Inv, [Next]_vars
    PROVE  Inv'
<1>1. CASE UNCHANGED vars
  <2>1. Types'
    BY <1>1 DEF Inv, Types, TypeOK, vars, nacos, process, callbacks, service, requests
  <2> QED BY <1>1, <2>1, QuietStep DEF vars, process
<1>2. CASE Next
  <2>1. CASE Update
    BY <2>1, OnChangeStep, UpdateConfigStep, UpdateToolExecutorStep,
       UpdateVoucherActivityConfigStep, ReplaceVoucherServiceStep DEF Update
  <2> QED BY <1>2, <2>1, InitializeStep, ProcessStep, PublishStep, RequestStep DEF Next
<1> QED BY <1>1, <1>2

(* Whatever Nacos publishes, the voucher service never gets an empty key,  *)
(* and svc.Config holds only what was published and parsed.                *)
THEOREM TypeCorrect == Spec => []TypeOK
<1>1. Inv => TypeOK
  BY DEF Inv, Types
<1> QED BY <1>1, InitInv, NextInv, PTL DEF Spec

(* A request works with two configurations only when an update overlapped  *)
(* it, or with activities that have no key: for any number of requests and *)
(* of updates.                                                             *)
THEOREM MixesAreExplained == Spec => []MixExplained
<1>1. Inv => MixExplained
  BY DEF Inv, MixExplained, ChatReads, RedemptionReads
<1> QED BY <1>1, InitInv, NextInv, PTL DEF Spec

-----------------------------------------------------------------------------
(* What is started and stopped.                                            *)

InPlace(n) ==
    /\ n > 3 => StorageType = "none" \/ "storage" \in open
    /\ n > 4 => "logger" \in open
    /\ n > 5 => "redis" \in open
    /\ n > 6 => "nacos" \in open /\ \A d \in Configs : held[d] # None
    /\ n > 7 => key # None
    /\ n > 8 => executor # None

Progress ==
    /\ phase = "starting" => step \in 1..10 /\ InPlace(step)
    /\ phase = "serving" => InPlace(10) /\ listening = Configs
    /\ phase = "cleanup" =>
        /\ step \in 1..4
        /\ \A i \in 1..4 : i < step => CleanupSteps[i] \notin open
    /\ phase = "stopping" =>
        /\ step \in 1..4
        /\ \A i \in 1..4 : i < step => ShutdownSteps[i] \notin open
        /\ step = 1 => StorageType = "none" \/ "storage" \in open
    /\ phase = "stopped" => (open = {} \/ timedOut) /\ "logger" \notin open
    /\ phase = "exited" => open = {} \/ timedOut
    /\ phase = "panicked" => open = {}

Inv2 == Inv /\ Progress

LEMMA InitProgress == Init => Progress
BY DEF Init, Progress, InPlace

LEMMA InitializerAt ==
    ASSUME Progress, NEW x, At(x)
    PROVE  /\ phase = "starting" /\ step \in 1..10 /\ InPlace(step)
           /\ x = "storage" => step = 3
           /\ x = "logger" => step = 4
           /\ x = "redis" => step = 5
           /\ x = "nacos" => step = 6
           /\ x = "voucher" => step = 7
           /\ x = "tool executor" => step = 8
           /\ x \in {"token counter", "metrics", "router strategy"} => step \in {1, 2, 9}
           /\ x = "watching" => step = 10
<1>1. phase = "starting" /\ step \in 1..10 /\ InPlace(step) /\ Initializers[step] = x
  BY DEF Progress, At
<1>2. \/ step = 1 /\ x = "token counter"
      \/ step = 2 /\ x = "metrics"
      \/ step = 3 /\ x = "storage"
      \/ step = 4 /\ x = "logger"
      \/ step = 5 /\ x = "redis"
      \/ step = 6 /\ x = "nacos"
      \/ step = 7 /\ x = "voucher"
      \/ step = 8 /\ x = "tool executor"
      \/ step = 9 /\ x = "router strategy"
      \/ step = 10 /\ x = "watching"
  <2>1. /\ Initializers[1] = "token counter"
        /\ Initializers[2] = "metrics"
        /\ Initializers[3] = "storage"
        /\ Initializers[4] = "logger"
        /\ Initializers[5] = "redis"
        /\ Initializers[6] = "nacos"
        /\ Initializers[7] = "voucher"
        /\ Initializers[8] = "tool executor"
        /\ Initializers[9] = "router strategy"
        /\ Initializers[10] = "watching"
    BY DEF Initializers
  <2>2. step \in {1, 2, 3, 4, 5, 6, 7, 8, 9, 10}
    BY <1>1
  <2> QED BY <1>1, <2>1, <2>2
<1> QED BY <1>1, <1>2

LEMMA FailsKeepsProgress ==
    ASSUME Fails PROVE Progress'
BY DEF Fails, Progress

LEMMA InitializeProgress ==
    ASSUME Inv, Progress, Initialize
    PROVE  Progress'
<1> USE NoneIsNoContent
<1>1. ASSUME ~Fails, InitializeStateless PROVE Progress'
  <2>1. step \in {1, 2, 9} /\ phase = "starting" /\ InPlace(step)
    BY <1>1, InitializerAt DEF InitializeStateless
  <2>2. Succeeds /\ UNCHANGED <<open, callbacks, service>>
    BY <1>1 DEF InitializeStateless
  <2> QED BY <2>1, <2>2 DEF Progress, InPlace, Succeeds, service
<1>2. ASSUME ~Fails, InitializeStorage PROVE Progress'
  <2>1. step = 3 /\ phase = "starting" /\ InPlace(step)
    BY <1>2, InitializerAt DEF InitializeStorage
  <2>2. Opens(IF StorageType = "none" THEN {} ELSE {"storage"})
    BY <1>2 DEF InitializeStorage
  <2> QED BY <2>1, <2>2 DEF Progress, InPlace, Opens, Succeeds, service
<1>3. ASSUME InitializeLoggerService PROVE Progress'
  <2>1. step = 4 /\ phase = "starting" /\ InPlace(step)
    BY <1>3, InitializerAt DEF InitializeLoggerService
  <2> QED BY <1>3, <2>1 DEF InitializeLoggerService, Progress, InPlace, Opens, Succeeds, service
<1>4. ASSUME InitializeRedisClient PROVE Progress'
  <2>1. step = 5 /\ phase = "starting" /\ InPlace(step)
    BY <1>4, InitializerAt DEF InitializeRedisClient
  <2> QED BY <1>4, <2>1 DEF InitializeRedisClient, Progress, InPlace, Opens, Succeeds, service
<1>5. ASSUME ~Fails, NewNacosConfigManager PROVE Progress'
  <2>1. step = 6 /\ phase = "starting" /\ InPlace(step)
    BY <1>5, InitializerAt DEF NewNacosConfigManager
  <2>2. open' = open \union {"nacos"} /\ UNCHANGED <<phase, step, service>>
    BY <1>5 DEF NewNacosConfigManager
  <2> QED BY <2>1, <2>2 DEF Progress, InPlace, service
<1>6. ASSUME NEW d \in Configs, LoadConfig(d) PROVE Progress'
  <2>1. step = 6 /\ phase = "starting" /\ InPlace(step) /\ "nacos" \in open
    BY <1>6, InitializerAt DEF LoadConfig
  <2>2. CASE phase' = "crashed"
    BY <2>2 DEF Progress
  <2>3. CASE phase' # "crashed"
    <3>1. /\ held' = [held EXCEPT ![d] = server[d]]
          /\ step' = IF Missing = {d} THEN step + 1 ELSE step
          /\ UNCHANGED <<phase, open, executor, key>>
      BY <1>6, <2>3 DEF LoadConfig
    <3>2. held \in [Configs -> Versions] /\ server[d] # None
      BY DEF Inv, Types, TypeOK
    <3>3. Missing = {d} => \A e \in Configs : held'[e] # None
      BY <3>1, <3>2 DEF Missing
    <3> QED BY <2>1, <3>1, <3>3 DEF Progress, InPlace
  <2> QED BY <2>2, <2>3
<1>7. ASSUME ~Fails, InitializeVoucherService PROVE Progress'
  <2>1. step = 7 /\ phase = "starting" /\ InPlace(step)
    BY <1>7, InitializerAt DEF InitializeVoucherService
  <2>2. Succeeds /\ key' = held[Activities] /\ UNCHANGED <<open, held, executor>>
    BY <1>7 DEF InitializeVoucherService
  <2> QED BY <2>1, <2>2 DEF Progress, InPlace, Succeeds
<1>8. ASSUME InitializeToolExecutor PROVE Progress'
  <2>1. step = 8 /\ phase = "starting" /\ InPlace(step)
    BY <1>8, InitializerAt DEF InitializeToolExecutor
  <2>2. Succeeds /\ executor' = held[Tools] /\ UNCHANGED <<open, held, key>>
    BY <1>8 DEF InitializeToolExecutor
  <2> QED BY <2>1, <2>2 DEF Progress, InPlace, Succeeds
<1>9. ASSUME ~Fails, NEW d \in Configs, ListenConfig(d) PROVE Progress'
  <2>1. step = 10 /\ phase = "starting" /\ InPlace(step)
    BY <1>9, InitializerAt DEF ListenConfig
  <2>2. /\ phase' = IF listening' = Configs THEN "serving" ELSE phase
        /\ UNCHANGED <<step, open, service>>
    BY <1>9 DEF ListenConfig
  <2> QED BY <2>1, <2>2 DEF Progress, InPlace, service
<1> QED
  BY <1>1, <1>2, <1>3, <1>4, <1>5, <1>6, <1>7, <1>8, <1>9, FailsKeepsProgress DEF Initialize

LEMMA EndProgress ==
    ASSUME Inv, Progress, CleanupOnError \/ ServerCrash \/ Signal \/ ShutdownStep \/ ShutdownTimeout \/ Exit
    PROVE  Progress'
<1>0. open \subseteq Components
  BY DEF Inv, Types, TypeOK
<1>1. CASE CleanupOnError
  <2>1. /\ step \in 1..4 /\ open' = open \ {CleanupSteps[step]}
        /\ \A i \in 1..4 : i < step => CleanupSteps[i] \notin open
        /\ IF step < 4 THEN step' = step + 1 /\ phase' = "cleanup"
                       ELSE phase' = "panicked" /\ step' = step
    BY <1>1 DEF CleanupOnError, Progress, CleanupSteps
  <2>2. step = 4 => open' = {}
    BY <1>0, <2>1 DEF CleanupSteps, Components
  <2>3. step < 4 => step' \in 1..4 /\ \A i \in 1..4 : i < step' => CleanupSteps[i] \notin open'
    BY <2>1
  <2> QED BY <2>1, <2>2, <2>3 DEF Progress
<1>2. CASE Signal
  BY <1>2 DEF Signal, Progress, InPlace
<1>3. CASE ShutdownStep
  <2>1. /\ step \in 1..4 /\ open' = open \ {ShutdownSteps[step]}
        /\ \A i \in 1..4 : i < step => ShutdownSteps[i] \notin open
        /\ IF step < 4 THEN step' = step + 1 /\ phase' = "stopping"
                       ELSE phase' = "stopped" /\ step' = step
    BY <1>3 DEF ShutdownStep, Progress, ShutdownSteps
  <2>2. step = 4 => open' = {}
    BY <1>0, <2>1 DEF ShutdownSteps, Components
  <2>3. step < 4 => step' \in 2..4 /\ \A i \in 1..4 : i < step' => ShutdownSteps[i] \notin open'
    BY <2>1
  <2> QED BY <2>1, <2>2, <2>3 DEF Progress
<1>4. CASE ShutdownTimeout
  <2>1. step \in 2..4 /\ \A i \in 1..4 : i < step => ShutdownSteps[i] \notin open
    BY <1>4 DEF ShutdownTimeout, Progress
  <2>2. "logger" \notin open
    BY <2>1 DEF ShutdownSteps
  <2> QED BY <1>4, <2>2 DEF ShutdownTimeout, Progress
<1>5. CASE Exit
  BY <1>5 DEF Exit, Progress
<1>6. CASE ServerCrash
  BY <1>6 DEF ServerCrash, Progress
<1> QED BY <1>1, <1>2, <1>3, <1>4, <1>5, <1>6

(* What is in force stays so in any other step. *)
LEMMA OtherProgress ==
    ASSUME Inv, Progress, UNCHANGED <<process, listening>>,
           \A d \in Configs : held[d] # None => held'[d] # None,
           key # None => key' # None, executor # None => executor' # None
    PROVE  Progress'
<1>1. UNCHANGED <<phase, step, open, timedOut, listening>>
  BY DEF process
<1>2. ASSUME NEW n, InPlace(n) PROVE InPlace(n)'
  <2>1. n > 6 => \A d \in Configs : held'[d] # None
    BY <1>2 DEF InPlace
  <2> QED BY <1>1, <1>2, <2>1 DEF InPlace
<1>3. (phase = "starting" => InPlace(step)) => (phase' = "starting" => InPlace(step)')
  BY <1>1, <1>2
<1>4. InPlace(10) => InPlace(10)'
  BY <1>2
<1> QED BY <1>1, <1>3, <1>4 DEF Progress

LEMMA UpdateProgress ==
    ASSUME Inv, Progress, Update
    PROVE  Progress'
<1> USE NoneIsNoContent
<1>0. Types /\ KeyInForce
  BY DEF Inv
<1>1. ASSUME NEW d \in Configs, OnChange(d) PROVE Progress'
  BY <1>1, OtherProgress DEF OnChange, service
<1>2. ASSUME NEW d \in Configs, UpdateConfig(d) PROVE Progress'
  <2>1. PICK c \in Pending(d) : UpdateFunc(c) /\ held' = [held EXCEPT ![d] = c.with]
    BY <1>2 DEF UpdateConfig
  <2>2. c.with # None
    BY <1>0, PendingContent
  <2>3. \A e \in Configs : held[e] # None => held'[e] # None
    BY <1>0, <2>1, <2>2 DEF Types, TypeOK
  <2> QED BY <1>2, <2>1, <2>3, OtherProgress DEF UpdateConfig, UpdateFunc
<1>3. CASE UpdateToolExecutor
  <2>1. PICK c \in Pending(Tools) : UpdateFunc(c) /\ executor' = c.with
    BY <1>3 DEF UpdateToolExecutor
  <2>2. executor' # None
    BY <1>0, <2>1, PendingContent
  <2> QED BY <1>3, <2>1, <2>2, OtherProgress DEF UpdateToolExecutor, UpdateFunc
<1>4. CASE UpdateVoucherActivityConfig
  <2>1. PICK c \in Pending(Activities) :
            UpdateFunc(c) /\ held' = [held EXCEPT ![Activities] = c.with]
    BY <1>4 DEF UpdateVoucherActivityConfig
  <2>2. c.with # None
    BY <1>0, PendingContent
  <2>3. \A e \in Configs : held[e] # None => held'[e] # None
    BY <1>0, <2>1, <2>2 DEF Types, TypeOK
  <2> QED BY <1>4, <2>1, <2>3, OtherProgress DEF UpdateVoucherActivityConfig, UpdateFunc
<1>5. CASE ReplaceVoucherService
  <2>1. key # None => key' # None
    BY <1>0, <1>5 DEF ReplaceVoucherService, KeyInForce
  <2> QED BY <1>5, <2>1, OtherProgress DEF ReplaceVoucherService, callbacks
<1> QED BY <1>1, <1>2, <1>3, <1>4, <1>5 DEF Update

LEMMA NextProgress ==
    ASSUME Inv, Progress, [Next]_vars
    PROVE  Progress'
<1>1. ASSUME UNCHANGED <<process, callbacks, service>> PROVE Progress'
  BY <1>1, OtherProgress DEF callbacks, service
<1>2. ASSUME NEW r \in Requests, Request(r) PROVE Progress'
  BY <1>1, <1>2 DEF Request, CheckEnabled, MatchActivity, GenerateVoucher,
     NewChatCompletionLogic, CopyConfig, CopyToolExecutor, HandleStreamChunk, ReadField
<1>3. ASSUME NEW d \in Configs, Publish(d) PROVE Progress'
  BY <1>1, <1>3 DEF Publish
<1>4. ASSUME UNCHANGED vars PROVE Progress'
  BY <1>1, <1>4 DEF vars
<1> QED BY <1>2, <1>3, <1>4, InitializeProgress, EndProgress, UpdateProgress DEF Next

(* A process serves with everything in place, and ends with everything     *)
(* stopped, but for the two panics that bypass Stop and a Stop that took   *)
(* too long.                                                               *)
THEOREM WholeOrNothingHolds == Spec => []WholeOrNothing
<1>1. Inv2 => WholeOrNothing
  <2> SUFFICES ASSUME Inv2 PROVE WholeOrNothing
    OBVIOUS
  <2>1. Serving /\ StorageType # "none" /\ "logger" \in open => "storage" \in open
    <3>1. phase = "stopping" /\ "logger" \in open => step = 1
      BY DEF Inv2, Progress, ShutdownSteps
    <3> QED BY <3>1 DEF Inv2, Progress, InPlace, Serving
  <2> QED BY <2>1 DEF Inv2, Progress, InPlace, WholeOrNothing
<1>2. Init => Inv2
  BY InitInv, InitProgress DEF Inv2
<1>3. Inv2 /\ [Next]_vars => Inv2'
  BY NextInv, NextProgress DEF Inv2
<1> QED BY <1>1, <1>2, <1>3, PTL DEF Spec
=============================================================================
