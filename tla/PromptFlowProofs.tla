--------------------------- MODULE PromptFlowProofs ---------------------------
(***************************************************************************)
(* Theorems of PromptFlow, for conversations of any length, contents of    *)
(* any parts, any rules and any configurations.                            *)
(*                                                                         *)
(*   PInv   types, and what the prompt keeps of the conversation           *)
(*   SInv   what has been written into the system message                  *)
(*   UInv   what exactly is said after it, the same in every turn          *)
(***************************************************************************)
EXTENDS PromptFlow, ListsProofs

-----------------------------------------------------------------------------
(* What the processors make of a content and of a message.                 *)

(* The texts of a content and its other parts. *)
LEMMA TextsIs ==
    ASSUME NEW content \in ContentType
    PROVE  /\ Texts(content) \in Seq(PartType)
           /\ \A i \in DOMAIN Texts(content) : Texts(content)[i].kind = "text"
           /\ Images(content) \in Seq(PartType)
           /\ (\A i \in DOMAIN content.parts : content.parts[i].kind = "text") =>
                Images(content) = <<>>
<1> DEFINE parts == content.parts
           S == {part \in Range(parts) : part.kind = "text"}
           U == {part \in Range(parts) : part.kind = "image"}
<1>1. parts \in Seq(PartType)
  BY DEF ContentType
<1>2. Texts(content) = Among(parts, S) /\ Images(content) = Among(parts, U)
  BY DEF Texts, Images
<1> HIDE DEF parts
<1>3. Among(parts, S) \in Seq(PartType \cap S) /\ Among(parts, U) \in Seq(PartType \cap U)
  BY <1>1, AmongIs
<1>4. Among(parts, S) \in Seq(PartType) /\ Among(parts, U) \in Seq(PartType)
  <2>1. PartType \cap S \subseteq PartType /\ PartType \cap U \subseteq PartType
    OBVIOUS
  <2> HIDE DEF S, U
  <2> QED BY <1>3, <2>1
<1>5. \A i \in DOMAIN Among(parts, S) : Among(parts, S)[i] \in S
  <2> HIDE DEF S
  <2> QED BY <1>3
<1>6. ASSUME \A i \in DOMAIN parts : parts[i].kind = "text" PROVE Among(parts, U) = <<>>
  <2>1. U = {}
    BY <1>6 DEF Range
  <2>2. PartType \cap U = {}
    BY <2>1
  <2>3. Len(Among(parts, U)) = 0
    BY <1>3, <2>2
  <2> QED BY <1>4, <2>3
<1> QED BY <1>2, <1>4, <1>5, <1>6 DEF parts

(* What a rule may do: nothing, or leave a list of texts that a processor  *)
(* has made.                                                               *)
Rewrite(new, content) ==
    \/ new = content
    \/ new.form = "contents" /\ Images(new) = <<>>

(* A rule makes a text of a text. *)
LEMMA ReplaceType ==
    ASSUME NEW words \in Seq(Words), NEW rule \in TaskRuleType
    PROVE  Replace(words, rule) \in Seq(Words)
<1>1. rule.key \in Words /\ rule.value \in Words
  BY DEF TaskRuleType
<1>2. [i \in 1..Len(words) |-> IF words[i] = rule.key THEN rule.value ELSE words[i]]
        \in Seq(Words)
  BY <1>1
<1> QED BY <1>2 DEF Replace, ReplaceAll

(* One rule. *)
LEMMA RewrittenByIs ==
    ASSUME NEW content \in ContentType, NEW rule \in TaskRuleType
    PROVE  /\ RewrittenBy(content, rule) \in ContentType
           /\ Rewrite(RewrittenBy(content, rule), content)
<1> DEFINE texts == Texts(content)
           words == Replace(texts[1].text, rule)
           parts == [texts EXCEPT ![1].text = words]
           new == [form |-> "contents", parts |-> parts]
           same == content.form = "null" \/ texts = <<>> \/ words = texts[1].text
<1>1. RewrittenBy(content, rule) = IF same THEN content ELSE new
  BY DEF RewrittenBy
<1>2. CASE same
  <2>1. RewrittenBy(content, rule) = content
    BY <1>1, <1>2
  <2> QED BY <2>1 DEF Rewrite
<1>3. CASE ~same
  <2>1. /\ texts \in Seq(PartType) /\ texts # <<>>
        /\ \A i \in DOMAIN texts : texts[i].kind = "text"
    BY <1>3, TextsIs
  <2> HIDE DEF texts
  <2>2. 1 \in DOMAIN texts /\ texts[1] \in PartType
    BY <2>1
  <2>3. words \in Seq(Words)
    <3>1. texts[1].text \in Seq(Words)
      BY <2>2 DEF PartType
    <3> QED BY <3>1, ReplaceType
  <2> HIDE DEF words
  <2>4. [texts[1] EXCEPT !.text = words] \in PartType /\ [texts[1] EXCEPT !.text = words].kind = "text"
    BY <2>1, <2>2, <2>3 DEF PartType
  <2>5. parts \in Seq(PartType) /\ \A i \in DOMAIN parts : parts[i].kind = "text"
    BY <2>1, <2>2, <2>4
  <2> HIDE DEF parts
  <2>6. new \in ContentType /\ new.form = "contents" /\ new.parts = parts
    BY <2>5 DEF ContentType, Forms
  <2> HIDE DEF new
  <2>7. Images(new) = <<>>
    BY <2>5, <2>6, TextsIs
  <2> HIDE DEF same
  <2> QED BY <1>1, <1>3, <2>6, <2>7 DEF Rewrite
<1> QED BY <1>2, <1>3

(* The contents that the rules lead to, one after the other. *)
IsPath(h, content, rules) ==
    /\ h \in [0..Len(rules) -> ContentType] /\ h[0] = content
    /\ \A k \in 1..Len(rules) : h[k] = RewrittenBy(h[k - 1], rules[k])

(* The contents between a content and what the rules make of it. *)
LEMMA RewrittenPath ==
    ASSUME NEW content \in ContentType, NEW rules \in Seq(TaskRuleType)
    PROVE  \E h : IsPath(h, content, rules) /\ Rewritten(content, rules) = h[Len(rules)]
<1> DEFINE n == Len(rules)
           Leads(h) == h = [k \in 0..n |->
                              IF k = 0 THEN content ELSE RewrittenBy(h[k - 1], rules[k])]
           after == CHOOSE h : Leads(h)
           g == [k \in 1..n |-> [c \in ContentType |-> RewrittenBy(c, rules[k])]]
<1>1. n \in Nat /\ \A k \in 1..n : rules[k] \in TaskRuleType
  OBVIOUS
<1>2. Rewritten(content, rules) = after[n]
  BY DEF Rewritten
<1> HIDE DEF n
<1>3. g \in [1..n -> [ContentType -> ContentType]]
  BY <1>1, RewrittenByIs
<1>4. \E h : IsWalk(h, n, ContentType, content, g)
  <2>1. n \in Nat
    BY <1>1
  <2> HIDE DEF g
  <2> QED BY <1>3, <2>1, WalkExists
<1>5. PICK h : IsWalk(h, n, ContentType, content, g)
  BY <1>4
<1>6. h \in [0..n -> ContentType] /\ h[0] = content /\ \A k \in 1..n : h[k] = g[k][h[k - 1]]
  BY <1>5 DEF IsWalk
<1>7. Leads(h)
  <2>1. ASSUME NEW k \in 0..n PROVE h[k] = IF k = 0 THEN content ELSE RewrittenBy(h[k - 1], rules[k])
    <3>1. CASE k = 0
      BY <1>6, <3>1
    <3>2. CASE k # 0
      <4>1. k \in 1..n /\ k - 1 \in 0..n
        BY <1>1, <3>2
      <4>2. h[k] = g[k][h[k - 1]] /\ h[k - 1] \in ContentType
        BY <1>6, <4>1
      <4> QED BY <3>2, <4>1, <4>2
    <3> QED BY <3>1, <3>2
  <2> QED BY <1>6, <2>1
<1>8. Leads(after)
  <2> HIDE DEF Leads
  <2> QED BY <1>7
<1> HIDE DEF after
<1>9. after[0] = content /\ \A k \in 1..n : after[k] = RewrittenBy(after[k - 1], rules[k])
  <2>1. 0 \in 0..n /\ \A k \in 1..n : k \in 0..n /\ k # 0
    BY <1>1
  <2> QED BY <1>8, <2>1
<1>10. DOMAIN after = 0..n /\ after = [k \in 0..n |-> after[k]]
  BY <1>8
<1> HIDE DEF Leads
<1> DEFINE S == {k \in 0..n : after[k] \in ContentType}
<1>11. 0 \in S
  BY <1>1, <1>9
<1>12. ASSUME NEW k \in 1..n, k - 1 \in S PROVE k \in S
  BY <1>1, <1>9, <1>12, RewrittenByIs
<1>13. 0..n \subseteq S
  <2> HIDE DEF S
  <2> QED BY <1>1, <1>11, <1>12, UpToInduction
<1>14. after \in [0..n -> ContentType]
  BY <1>10, <1>13
<1>15. IsPath(after, content, rules)
  BY <1>9, <1>14 DEF IsPath, n
<1>16. Rewritten(content, rules) = after[Len(rules)]
  BY <1>2 DEF n
<1> QED BY <1>15, <1>16

(* The rules one after the other. *)
LEMMA RewrittenIs ==
    ASSUME NEW content \in ContentType, NEW rules \in Seq(TaskRuleType)
    PROVE  /\ Rewritten(content, rules) \in ContentType
           /\ Rewrite(Rewritten(content, rules), content)
           /\ rules = <<>> => Rewritten(content, rules) = content
<1>1. PICK h : IsPath(h, content, rules) /\ Rewritten(content, rules) = h[Len(rules)]
  BY RewrittenPath
<1> DEFINE n == Len(rules)
           S == {k \in 0..n : Rewrite(h[k], content)}
<1>2. n \in Nat /\ \A k \in 1..n : rules[k] \in TaskRuleType
  OBVIOUS
<1>3. rules = <<>> => n = 0
  OBVIOUS
<1>4. /\ h \in [0..n -> ContentType] /\ h[0] = content
      /\ \A k \in 1..n : h[k] = RewrittenBy(h[k - 1], rules[k])
      /\ Rewritten(content, rules) = h[n]
  BY <1>1 DEF IsPath
<1> HIDE DEF n
<1>5. 0 \in S
  BY <1>2, <1>4 DEF Rewrite
<1>6. ASSUME NEW k \in 1..n, k - 1 \in S PROVE k \in S
  <2>1. /\ k - 1 \in 0..n /\ k \in 0..n /\ h[k - 1] \in ContentType
        /\ Rewrite(h[k - 1], content) /\ rules[k] \in TaskRuleType
    BY <1>2, <1>4, <1>6
  <2>2. Rewrite(h[k], h[k - 1])
    BY <1>4, <2>1, RewrittenByIs
  <2> QED BY <2>1, <2>2 DEF Rewrite
<1>7. 0..n \subseteq S
  <2> HIDE DEF S
  <2> QED BY <1>2, <1>5, <1>6, UpToInduction
<1>8. n \in 0..n /\ 0 \in 0..n
  BY <1>2
<1> QED BY <1>3, <1>4, <1>7, <1>8

(* A message whose content is replaced. *)
LEMMA MessageIs ==
    ASSUME NEW m \in MessageType
    PROVE  /\ m.content \in ContentType /\ m.id \in Nat /\ m.role \in Roles
           /\ \A content \in ContentType :
                /\ [m EXCEPT !.content = content] \in MessageType
                /\ [m EXCEPT !.content = content].id = m.id
                /\ [m EXCEPT !.content = content].role = m.role
                /\ [m EXCEPT !.content = content].content = content
BY DEF MessageType

(* A string is a content, and has no images. *)
LEMMA StringIs ==
    ASSUME NEW words \in Seq(Words)
    PROVE  String(words) \in ContentType /\ Images(String(words)) = <<>>
<1>1. Text(words) \in PartType /\ Text(words).kind = "text"
  BY DEF Text, PartType
<1>2. String(words) \in ContentType
  BY <1>1 DEF String, ContentType, Forms
<1>3. \A i \in DOMAIN String(words).parts : String(words).parts[i].kind = "text"
  BY <1>1 DEF String
<1> QED BY <1>2, <1>3, TextsIs

(* A list of messages of which some have another content. *)
LikeMessages(new, ms) ==
    /\ new \in Seq(MessageType) /\ DOMAIN new = DOMAIN ms
    /\ \A i \in DOMAIN ms :
         /\ new[i].id = ms[i].id /\ new[i].role = ms[i].role
         /\ Images(new[i].content) = Images(ms[i].content)

(* The removal of tool patterns leaves the messages of users alone. *)
LEMMA PatternsIs ==
    ASSUME NEW ms \in Seq(MessageType)
    PROVE  /\ LikeMessages(RemoveToolPatterns(ms), ms)
           /\ \A i \in DOMAIN ms : ms[i].role = "user" => RemoveToolPatterns(ms)[i] = ms[i]
<1> DEFINE new == RemoveToolPatterns(ms)
           Quoted(i) == ms[i].role = "assistant" /\ ms[i].content.form = "string"
           text(i) == String(Without(ms[i].content.parts[1].text, "searching"))
<1>1. /\ DOMAIN ms = 1..Len(ms) /\ Len(ms) \in Nat /\ \A i \in DOMAIN ms : ms[i] \in MessageType
  OBVIOUS
<1>2. new = [i \in DOMAIN ms |-> IF Quoted(i) THEN [ms[i] EXCEPT !.content = text(i)] ELSE ms[i]]
  BY DEF RemoveToolPatterns
<1>3. ASSUME NEW i \in DOMAIN ms, Quoted(i)
      PROVE  text(i) \in ContentType /\ Images(text(i)) = <<>> /\ Images(ms[i].content) = <<>>
  <2> DEFINE content == ms[i].content
             words == content.parts[1].text
  <2>1. content \in ContentType /\ content.form = "string"
    BY <1>1, <1>3, MessageIs
  <2> HIDE DEF content
  <2>2. content.parts \in Seq(PartType) /\ Len(content.parts) = 1 /\ content.parts[1].kind = "text"
    BY <2>1 DEF ContentType
  <2>3. words \in Seq(Words)
    <3>1. content.parts[1] \in PartType
      BY <2>2
    <3> QED BY <3>1 DEF PartType
  <2>4. Images(content) = <<>>
    <3>1. \A j \in DOMAIN content.parts : content.parts[j].kind = "text"
      BY <2>2
    <3> QED BY <2>1, <3>1, TextsIs
  <2> HIDE DEF words
  <2>5. Without(words, "searching") \in Seq(Words)
    <3> DEFINE S == Range(words) \ {"searching"}
    <3>1. Among(words, S) \in Seq(Words \cap S) /\ Words \cap S \subseteq Words
      <4> HIDE DEF S
      <4> QED BY <2>3, AmongIs
    <3> HIDE DEF S
    <3>2. Among(words, S) \in Seq(Words)
      BY <3>1
    <3> QED BY <3>2 DEF Without, S
  <2>6. /\ String(Without(words, "searching")) \in ContentType
        /\ Images(String(Without(words, "searching"))) = <<>>
    BY <2>5, StringIs
  <2> QED BY <2>4, <2>6 DEF words, content
<1> HIDE DEF text, new
<1>4. ASSUME NEW i \in DOMAIN ms
      PROVE  /\ new[i] \in MessageType /\ new[i].id = ms[i].id /\ new[i].role = ms[i].role
             /\ Images(new[i].content) = Images(ms[i].content)
             /\ ms[i].role = "user" => new[i] = ms[i]
  <2>1. CASE Quoted(i)
    <3>1. new[i] = [ms[i] EXCEPT !.content = text(i)] /\ text(i) \in ContentType
      BY <1>2, <1>3, <2>1
    <3>2. /\ new[i] \in MessageType /\ new[i].id = ms[i].id /\ new[i].role = ms[i].role
          /\ new[i].content = text(i)
      BY <1>1, <3>1, MessageIs
    <3> QED BY <1>3, <2>1, <3>2
  <2>2. CASE ~Quoted(i)
    BY <1>1, <1>2, <2>2
  <2> QED BY <2>1, <2>2
<1>5. new \in Seq(MessageType) /\ DOMAIN new = DOMAIN ms
  <2>1. DOMAIN new = 1..Len(ms) /\ new \in [1..Len(ms) -> MessageType]
    BY <1>1, <1>2, <1>4
  <2> QED BY <1>1, <2>1
<1> QED BY <1>4, <1>5 DEF LikeMessages, new

OnlyEnvironment(content) ==
    content.form = "list" /\ \A j \in DOMAIN content.parts : IsEnvironment(content.parts[j])

(* The filter takes nothing but environments out of a list. *)
LEMMA EnvironmentsIs ==
    ASSUME NEW ms \in Seq(MessageType)
    PROVE  /\ LikeMessages(RemoveEnvironments(ms), ms)
           /\ \A i \in DOMAIN ms :
                Empty(RemoveEnvironments(ms)[i].content) =>
                  Empty(ms[i].content) \/ OnlyEnvironment(ms[i].content)
<1> DEFINE new == RemoveEnvironments(ms)
           kept(i) == {j \in DOMAIN ms[i].content.parts : ~Repeated(ms, i, j)}
           left(i) == [ms[i].content EXCEPT !.parts = EntriesAt(@, Ascending(kept(i)))]
<1>1. /\ DOMAIN ms = 1..Len(ms) /\ Len(ms) \in Nat /\ \A i \in DOMAIN ms : ms[i] \in MessageType
  OBVIOUS
<1>2. new = [i \in DOMAIN ms |-> IF ~Filtered(ms[i]) THEN ms[i]
                                 ELSE [ms[i] EXCEPT !.content = left(i)]]
  BY DEF RemoveEnvironments
<1>3. ASSUME NEW i \in DOMAIN ms, Filtered(ms[i])
      PROVE  /\ left(i) \in ContentType
             /\ Images(left(i)) = Images(ms[i].content)
             /\ Empty(left(i)) => OnlyEnvironment(ms[i].content)
  <2> DEFINE content == ms[i].content
             parts == content.parts
             I == kept(i)
             rest == EntriesAt(parts, Ascending(I))
  <2>1. content \in ContentType /\ content.form = "list"
    BY <1>1, <1>3, MessageIs DEF Filtered
  <2>2. /\ parts \in Seq(PartType) /\ I \in SUBSET (DOMAIN parts)
        /\ \A j \in DOMAIN parts : j \in I \/ IsEnvironment(parts[j])
    BY <2>1 DEF ContentType, Repeated
  <2> HIDE DEF content, parts, I
  <2>3. /\ rest \in Seq(PartType) /\ Ascending(I) \in [DOMAIN rest -> I]
        /\ \A j \in I : \E k \in DOMAIN rest : Ascending(I)[k] = j
        /\ \A k \in DOMAIN rest : rest[k] = parts[Ascending(I)[k]]
    BY <2>2, EntriesIs
  <2>4. left(i) = [content EXCEPT !.parts = rest]
    BY DEF content, parts, I
  <2> HIDE DEF rest
  <2>5. left(i) \in ContentType /\ left(i).form = "list" /\ left(i).parts = rest
    <3>1. [content EXCEPT !.parts = rest] \in ContentType
      BY <2>1, <2>3 DEF ContentType
    <3>2. /\ [content EXCEPT !.parts = rest].form = "list"
          /\ [content EXCEPT !.parts = rest].parts = rest
      BY <2>1 DEF ContentType
    <3> QED BY <2>4, <3>1, <3>2
  <2>6. Images(left(i)) = Images(content)
    <3> DEFINE S == {part \in Range(parts) : part.kind = "image"}
               U == {part \in Range(rest) : part.kind = "image"}
    <3>1. \A j \in DOMAIN parts : parts[j] \in S => j \in I
      BY <2>2 DEF IsEnvironment
    <3>2. \A j \in I : parts[j] \in U <=> parts[j] \in S
      BY <2>2, <2>3 DEF Range
    <3> HIDE DEF S, U
    <3>3. Among(rest, U) = Among(parts, S)
      BY <2>2, <3>1, <3>2, AmongKept DEF rest
    <3> QED BY <2>5, <3>3 DEF Images, S, U, parts
  <2>7. ASSUME Empty(left(i)) PROVE OnlyEnvironment(content)
    <3>1. rest = <<>>
      BY <2>5, <2>7 DEF Empty
    <3>2. I = {}
      BY <2>3, <3>1
    <3> QED BY <2>1, <2>2, <3>2 DEF OnlyEnvironment, parts
  <2> QED BY <2>5, <2>6, <2>7 DEF content
<1> HIDE DEF left, kept, new
<1>4. ASSUME NEW i \in DOMAIN ms
      PROVE  /\ new[i] \in MessageType /\ new[i].id = ms[i].id /\ new[i].role = ms[i].role
             /\ Images(new[i].content) = Images(ms[i].content)
             /\ Empty(new[i].content) => Empty(ms[i].content) \/ OnlyEnvironment(ms[i].content)
  <2>1. CASE Filtered(ms[i])
    <3>1. new[i] = [ms[i] EXCEPT !.content = left(i)] /\ left(i) \in ContentType
      BY <1>2, <1>3, <2>1
    <3>2. /\ new[i] \in MessageType /\ new[i].id = ms[i].id /\ new[i].role = ms[i].role
          /\ new[i].content = left(i)
      BY <1>1, <3>1, MessageIs
    <3> QED BY <1>3, <2>1, <3>2
  <2>2. CASE ~Filtered(ms[i])
    BY <1>1, <1>2, <2>2
  <2> QED BY <2>1, <2>2
<1>5. new \in Seq(MessageType) /\ DOMAIN new = DOMAIN ms
  <2>1. DOMAIN new = 1..Len(ms) /\ new \in [1..Len(ms) -> MessageType]
    BY <1>1, <1>2, <1>4
  <2> QED BY <1>1, <2>1
<1> QED BY <1>4, <1>5 DEF LikeMessages, new

(* The first and the last place that passes a test. *)
LEMMA Placed ==
    ASSUME NEW ms \in Seq(MessageType)
    PROVE  /\ FirstSystem(ms) \in {0} \cup DOMAIN ms
           /\ FirstSystem(ms) # 0 => ms[FirstSystem(ms)].role = "system"
           /\ \A i \in DOMAIN ms : ms[i].role = "system" =>
                FirstSystem(ms) # 0 /\ FirstSystem(ms) <= i
           /\ LastUser(ms) \in {0} \cup DOMAIN ms
           /\ LastUser(ms) # 0 => ms[LastUser(ms)].role \in {"user", "tool"}
           /\ \A i \in DOMAIN ms : ms[i].role \in {"user", "tool"} =>
                LastUser(ms) # 0 /\ i <= LastUser(ms)
<1> DEFINE S == {i \in 1..Len(ms) : ms[i].role = "system"}
           U == {i \in 1..Len(ms) : ms[i].role \in {"user", "tool"}}
<1>1. DOMAIN ms = 1..Len(ms) /\ Len(ms) \in Nat
  OBVIOUS
<1>2. IsFiniteSet(1..Len(ms))
  BY <1>1, FS_Interval
<1>3. S \in SUBSET Int /\ U \in SUBSET Int /\ IsFiniteSet(S) /\ IsFiniteSet(U)
  BY <1>2, FS_Subset
<1>4. /\ FirstSystem(ms) = IF S # {} THEN Min(S) ELSE 0
      /\ LastUser(ms) = IF U # {} THEN Max(U) ELSE 0
  BY DEF FirstSystem, LastUser, SelectInSeq, SelectLastInSeq
<1> HIDE DEF S, U
<1>5. /\ S # {} => Min(S) \in S /\ \A i \in S : Min(S) <= i
      /\ U # {} => Max(U) \in U /\ \A i \in U : Max(U) >= i
  BY <1>3, MinIs, MaxIs
<1>6. /\ S # {} => FirstSystem(ms) \in S /\ \A i \in S : FirstSystem(ms) <= i
      /\ S = {} => FirstSystem(ms) = 0
  BY <1>4, <1>5
<1>7. /\ U # {} => LastUser(ms) \in U /\ \A i \in U : i <= LastUser(ms)
      /\ U = {} => LastUser(ms) = 0
  <2>1. U # {} => Max(U) \in Int /\ \A i \in U : i \in Int
    BY <1>3, <1>5
  <2> QED BY <1>4, <1>5, <2>1
<1>8. /\ \A i \in S : i \in DOMAIN ms /\ i # 0 /\ ms[i].role = "system"
      /\ \A i \in DOMAIN ms : ms[i].role = "system" => i \in S
      /\ \A i \in U : i \in DOMAIN ms /\ i # 0 /\ ms[i].role \in {"user", "tool"}
      /\ \A i \in DOMAIN ms : ms[i].role \in {"user", "tool"} => i \in U
  BY <1>1 DEF S, U
<1> QED BY <1>6, <1>7, <1>8

(* The system message that a conversation without one gets. *)
LEMMA AddedSystemType == AddedSystem \in MessageType /\ AddedSystem.role = "system"
<1>1. <<>> \in Seq(Words)
  OBVIOUS
<1>2. String(<<>>) \in ContentType
  BY <1>1, StringIs
<1> QED BY <1>2 DEF AddedSystem, MessageType, Roles

(* The system message of a conversation. *)
LEMMA SystemMsgIs ==
    ASSUME NEW ms \in Seq(MessageType)
    PROVE  GetSystemMsg(ms) \in MessageType /\ GetSystemMsg(ms).role = "system"
<1>1. \A i \in DOMAIN ms : ms[i] \in MessageType
  OBVIOUS
<1> QED BY <1>1, Placed, AddedSystemType DEF GetSystemMsg

(* The older messages are an unbroken piece of the conversation. *)
LEMMA OlderIs ==
    ASSUME NEW ms \in Seq(MessageType), LastUser(ms) # 0
    PROVE  LET old == GetOldUserMsgs(ms)
               from == OlderFrom(ms)
           IN  /\ old \in Seq(MessageType)
               /\ from \in Nat /\ LastUser(ms) \in Nat /\ from >= 2
               /\ old # <<>> => Len(old) = LastUser(ms) - from
               /\ old = <<>> => Len(ms) = 1 \/ LastUser(ms) <= from
               /\ \A k \in DOMAIN old : /\ from + k - 1 \in 1..(LastUser(ms) - 1)
                                        /\ old[k] = ms[from + k - 1]
<1> DEFINE old == GetOldUserMsgs(ms)
           from == OlderFrom(ms)
           n == LastUser(ms) - 1
<1>1. DOMAIN ms = 1..Len(ms) /\ Len(ms) \in Nat /\ LastUser(ms) \in 1..Len(ms)
  BY Placed
<1>2. from \in Nat /\ from >= 2
  BY <1>1, Placed DEF OlderFrom, SystemPosition
<1>3. old = IF Len(ms) <= 1 THEN <<>> ELSE SubSeq(ms, from, n)
  BY DEF GetOldUserMsgs
<1> HIDE DEF old, from
<1>4. CASE Len(ms) <= 1
  <2>1. old = <<>> /\ Len(ms) = 1
    BY <1>1, <1>3, <1>4
  <2> QED BY <1>1, <1>2, <2>1 DEF old, from
<1>5. CASE Len(ms) > 1
  <2>1. /\ SubSeq(ms, from, n) \in Seq(MessageType)
        /\ Len(SubSeq(ms, from, n)) = IF from <= n THEN n - from + 1 ELSE 0
        /\ \A k \in 1..(n - from + 1) : SubSeq(ms, from, n)[k] = ms[from + k - 1]
    BY <1>1, <1>2
  <2>2. old = SubSeq(ms, from, n)
    <3>1. ~(Len(ms) <= 1)
      BY <1>1, <1>5
    <3> QED BY <1>3, <3>1
  <2>3. /\ old \in Seq(MessageType) /\ DOMAIN old = 1..Len(old)
        /\ Len(old) = IF from <= n THEN n - from + 1 ELSE 0
    BY <2>1, <2>2
  <2>4. \A k \in DOMAIN old : /\ from + k - 1 \in 1..n /\ old[k] = ms[from + k - 1]
    BY <1>1, <1>2, <2>1, <2>2, <2>3
  <2>5. old # <<>> => Len(old) # 0
    BY <2>3
  <2>6. old = <<>> => Len(old) = 0
    OBVIOUS
  <2>7. /\ old # <<>> => Len(old) = LastUser(ms) - from
        /\ old = <<>> => LastUser(ms) <= from
    BY <1>1, <1>2, <2>3, <2>5, <2>6
  <2> QED BY <1>1, <1>2, <2>3, <2>4, <2>7 DEF old, from
<1> QED BY <1>1, <1>4, <1>5

(* Where a word is found. *)
LEMMA FirstOfIs ==
    ASSUME NEW words \in Seq(Words), NEW from \in Nat \ {0}, NEW some
    PROVE  /\ FirstOf(some, words, from) \in {0} \cup from..Len(words)
           /\ FirstOf(some, words, from) # 0 => words[FirstOf(some, words, from)] \in some
<1> DEFINE I == {i \in from..Len(words) : words[i] \in some}
<1>1. IsFiniteSet(from..Len(words))
  BY FS_Interval
<1>2. I \in SUBSET Int /\ IsFiniteSet(I)
  BY <1>1, FS_Subset
<1>3. I # {} => Min(I) \in I
  <2> HIDE DEF I
  <2> QED BY <1>2, MinIs
<1>4. FirstOf(some, words, from) = IF I # {} THEN Min(I) ELSE 0
  BY DEF FirstOf, SelectInSubSeq
<1> QED BY <1>3, <1>4

(* Texts with a section less, with words more, and with the tools in. *)
LEMMA RemoveType ==
    ASSUME NEW words \in Seq(Words), NEW heading, NEW headings
    PROVE  RemoveSection(words, heading, headings) \in Seq(Words)
<1> DEFINE i == FirstOf({heading}, words, 1)
           at == FirstOf(headings, words, i + 1)
           j == IF i = 0 THEN 0 ELSE at
<1>1. i \in 0..Len(words) /\ Len(words) \in Nat
  BY FirstOfIs
<1>2. i # 0 => at \in {0} \cup (i + 1)..Len(words)
  <2> HIDE DEF i
  <2>1. i + 1 \in Nat \ {0}
    BY <1>1
  <2> QED BY <2>1, FirstOfIs
<1>3. RemoveSection(words, heading, headings) =
        IF j = 0 THEN words ELSE SubSeq(words, 1, i - 1) \o SubSeq(words, j, Len(words))
  BY DEF RemoveSection
<1> HIDE DEF i, at
<1>4. ASSUME j # 0
      PROVE  SubSeq(words, 1, i - 1) \in Seq(Words) /\ SubSeq(words, j, Len(words)) \in Seq(Words)
  BY <1>1, <1>2, <1>4
<1> HIDE DEF j
<1>5. CASE j = 0
  BY <1>3, <1>5
<1>6. CASE j # 0
  BY <1>3, <1>4, <1>6
<1> QED BY <1>5, <1>6

(* Words inserted after a marker. *)
LEMMA InsertType ==
    ASSUME NEW words \in Seq(Words), NEW marker, NEW new \in Seq(Words)
    PROVE  InsertAfter(words, marker, new) \in Seq(Words)
<1> DEFINE i == FirstOf({marker}, words, 1)
<1>1. i \in 0..Len(words) /\ Len(words) \in Nat
  BY FirstOfIs
<1>2. InsertAfter(words, marker, new) =
        SubSeq(words, 1, i) \o new \o SubSeq(words, i + 1, Len(words))
  BY DEF InsertAfter
<1> HIDE DEF i
<1>3. SubSeq(words, 1, i) \in Seq(Words) /\ SubSeq(words, i + 1, Len(words)) \in Seq(Words)
  BY <1>1
<1> QED BY <1>2, <1>3

(* The tools inserted. *)
LEMMA ToolsType ==
    ASSUME NEW words \in Seq(Words), NEW ready
    PROVE  InsertTools(words, ready) \in Seq(Words)
<1> DEFINE new(word) == IF session.tools /\ ready THEN <<word>> ELSE <<>>
           described == InsertAfter(words, "# Tools", new("##tool"))
           capable == InsertAfter(described, "----CAPABILITIES", new("capability"))
<1>1. new("##tool") \in Seq(Words) /\ new("capability") \in Seq(Words) /\ new("rule") \in Seq(Words)
  <2>1. ASSUME NEW word \in Words PROVE <<word>> \in Seq(Words)
    OBVIOUS
  <2>2. <<>> \in Seq(Words)
    OBVIOUS
  <2>3. \A word \in Words : new(word) \in Seq(Words)
    BY <2>1, <2>2
  <2> HIDE DEF new
  <2>4. "##tool" \in Words /\ "capability" \in Words /\ "rule" \in Words
    BY PromptAssumption DEF Inserted
  <2> QED BY <2>3, <2>4
<1>2. InsertTools(words, ready) = InsertAfter(capable, "----RULES", new("rule"))
  BY DEF InsertTools
<1> HIDE DEF new
<1>3. described \in Seq(Words)
  BY <1>1, InsertType
<1> HIDE DEF described
<1>4. capable \in Seq(Words)
  BY <1>1, <1>3, InsertType
<1> HIDE DEF capable
<1> QED BY <1>1, <1>2, <1>4, InsertType

-----------------------------------------------------------------------------
(* The types, and what the prompt keeps of the conversation.               *)

InChain == {"filter", "task", "tools", "rules", "assemble"}
Done == {"check", "refused", "sent"}

(* The conversation, which is the client's and numbered. *)
Conversation ==
    /\ messages \in Seq(ClientMessage)
    /\ \A i \in DOMAIN messages : messages[i].id = i

(* Why a message that a processor left empty may be so. *)
Excused(content) ==
    Empty(content) \/ (session.envFilter /\ OnlyEnvironment(content))

OldKept(new, m) ==
    /\ new.id = m.id /\ new.role = m.role
    /\ new.role = "user" /\ Empty(new.content) => Excused(m.content)

(* What the processors have made of the older messages, and of the last.   *)
OlderKept ==
    LET piece == GetOldUserMsgs(messages)
    IN  /\ DOMAIN older = DOMAIN piece
        /\ \A k \in DOMAIN piece :
             /\ OldKept(older[k], piece[k])
             /\ \/ Images(older[k].content) = Images(piece[k].content)
                \/ k = 1 /\ Images(older[k].content) = <<>> /\ ApplicableRules # {}

LastKept ==
    LET m == messages[LastUser(messages)]
    IN  /\ last.id = m.id /\ last.role = m.role
        /\ Empty(last.content) => Empty(m.content)
        /\ \/ Images(last.content) = Images(m.content)
           \/ older = <<>> /\ Images(last.content) = <<>> /\ ApplicableRules # {}

Kept == LastUser(messages) # 0 /\ OlderKept /\ LastKept

PromptIs ==
    IF Processor = "Direct" THEN prompt = messages
    ELSE prompt = <<Spoken(system)>> \o older \o <<last>>

PInv ==
    /\ TypeOK /\ Conversation /\ system.role = "system"
    /\ pc \in InChain => Processor # "Direct"
    /\ pc = "filter" => older = GetOldUserMsgs(messages)
    /\ pc \in InChain \cup Done /\ Processor # "Direct" => Kept
    /\ pc \in Done => PromptIs
    /\ pc = "refused" => Refused(prompt)

(* What a client sends are messages. *)
LEMMA ClientIsMessage == Seq(ClientMessage) \subseteq Seq(MessageType)
<1>1. ClientMessage \subseteq MessageType
  BY DEF ClientMessage
<1> QED BY <1>1

(* The invariant holds when the first request comes. *)
LEMMA InitPInv == Init => PInv
<1> SUFFICES ASSUME Init PROVE PInv
  OBVIOUS
<1>1. messages \in Seq(ClientMessage) /\ \A i \in DOMAIN messages : messages[i].id = i
  BY PromptAssumption DEF Init
<1>2. messages \in Seq(MessageType)
  BY <1>1, ClientIsMessage
<1>3. /\ <<system, last>> \in Seq(MessageType) /\ older \in Seq(MessageType)
      /\ prompt \in Seq(MessageType) /\ sent \in Seq(MessageType) /\ system.role = "system"
  <2>1. /\ system = AddedSystem /\ last = AddedSystem /\ older = <<>> /\ prompt = <<>>
        /\ sent = <<>>
    BY DEF Init
  <2>2. <<AddedSystem, AddedSystem>> \in Seq(MessageType) /\ <<>> \in Seq(MessageType)
    <3> HIDE DEF AddedSystem
    <3> QED BY AddedSystemType
  <2> QED BY <2>1, <2>2, AddedSystemType
<1>4. session \in Sessions /\ turn \in 1..MaxTurns /\ agent \in Agents
  <2>0. turn = 1
    BY DEF Init
  <2>1. session \in Sessions /\ agent = ""
    BY DEF Init
  <2>2. MaxTurns \in Nat \ {0}
    BY PromptAssumption
  <2>3. turn \in 1..MaxTurns
    BY <2>0, <2>2
  <2>4. agent \in Agents
    BY <2>1 DEF Agents
  <2> QED BY <2>1, <2>3, <2>4
<1>5. pc = "arrange"
  BY DEF Init
<1>6. TypeOK
  BY <1>2, <1>3, <1>4, <1>5 DEF TypeOK
<1> QED BY <1>1, <1>3, <1>5, <1>6 DEF PInv, Conversation, InChain, Done

(* A step that leaves the session and the messages alone leaves the        *)
(* processor alone, and so the rules if the agent is left alone too.       *)
LEMMA SameProcessor ==
    ASSUME UNCHANGED <<session, messages>>
    PROVE  /\ Processor' = Processor
           /\ UNCHANGED agent => ApplicableRules' = ApplicableRules
BY DEF Processor, EffectiveMode, ContinuationMarker, ApplicableRules, Matches, PromptMode

(* The types of what a step leaves alone and of what it changes. *)
LEMMA TypeStep ==
    ASSUME TypeOK, session' = session, turn' = turn, sent' = sent, messages' = messages,
           pc' \in InChain \cup Done \cup {"failed"}, agent' \in Agents,
           system' \in MessageType, last' \in MessageType, older' \in Seq(MessageType),
           prompt' \in Seq(MessageType)
    PROVE  TypeOK'
<1>1. <<system', last'>> \in Seq(MessageType)
  OBVIOUS
<1> QED BY <1>1 DEF TypeOK, InChain, Done, Ended

(* The types of the state, one by one. *)
LEMMA StatesTypes ==
    ASSUME PInv
    PROVE  /\ system \in MessageType /\ last \in MessageType /\ older \in Seq(MessageType)
           /\ messages \in Seq(MessageType) /\ prompt \in Seq(MessageType)
           /\ sent \in Seq(MessageType) /\ agent \in Agents /\ session \in SessionType
           /\ IsFiniteSet(session.tasks)
<1>1. <<system, last>> \in Seq(MessageType)
  BY DEF PInv, TypeOK
<1>2. system \in MessageType /\ last \in MessageType
  <2>1. <<system, last>>[1] \in MessageType /\ <<system, last>>[2] \in MessageType
    BY <1>1
  <2> QED BY <2>1
<1>3. session \in Sessions
  BY DEF PInv, TypeOK
<1>4. session \in SessionType /\ IsFiniteSet(session.tasks)
  BY <1>3, PromptAssumption
<1> QED BY <1>2, <1>4 DEF PInv, TypeOK

(* What a step keeps that takes the conversation over as it is. *)
LEMMA QuietStep ==
    ASSUME PInv, session' = session, turn' = turn, sent' = sent, messages' = messages,
           agent' = agent, pc' \in InChain \cup Done,
           pc' \in InChain => Processor # "Direct", pc' # "filter",
           system' \in MessageType, system'.role = "system",
           last' \in MessageType, older' \in Seq(MessageType), prompt' \in Seq(MessageType),
           Processor # "Direct" => Kept',
           pc' \in Done => PromptIs', pc' = "refused" => Refused(prompt')
    PROVE  PInv'
<1>1. Processor' = Processor
  BY SameProcessor
<1>2. TypeOK'
  BY TypeStep DEF PInv, TypeOK
<1>3. Conversation'
  BY DEF PInv, Conversation
<1> QED BY <1>1, <1>2, <1>3 DEF PInv

(* What was kept is so as long as nobody touches it. *)
LEMMA SameKept ==
    ASSUME Kept, UNCHANGED <<session, messages, agent, older, last>>
    PROVE  Kept'
<1>1. ApplicableRules' = ApplicableRules
  BY SameProcessor
<1> QED BY <1>1 DEF Kept, OlderKept, LastKept, OldKept, Excused

(* The steps of the chain keep the invariant, one by one. *)
LEMMA PassStep == ASSUME PInv, Pass PROVE PInv'
<1>1. /\ Processor = "Direct" /\ prompt' = messages /\ pc' = "check"
      /\ UNCHANGED <<session, turn, messages, agent, system, older, last, sent>>
  BY DEF Pass, Goes, promptMsg
<1>2. Processor' = "Direct"
  BY <1>1, SameProcessor
<1>3. PromptIs'
  BY <1>1, <1>2 DEF PromptIs
<1>4. system.role = "system"
  BY DEF PInv
<1> QED BY <1>1, <1>3, <1>4, StatesTypes, QuietStep DEF InChain, Done

(* NewPromptMsg takes the conversation apart. *)
LEMMA ArrangeStep == ASSUME PInv, Arrange PROVE PInv'
<1>1. /\ Processor # "Direct"
      /\ UNCHANGED <<session, turn, messages, prompt, sent>>
  BY DEF Arrange
<1>2. Processor' = Processor
  BY <1>1, SameProcessor
<1>3. Conversation'
  BY <1>1 DEF PInv, Conversation
<1>4. CASE LastUser(messages) = 0
  <2>1. pc' = "failed" /\ UNCHANGED <<agent, system, older, last>>
    BY <1>4 DEF Arrange, Goes, promptMsg
  <2>2. TypeOK'
    BY <1>1, <2>1, StatesTypes, TypeStep DEF PInv
  <2> QED BY <1>3, <2>1, <2>2 DEF PInv, InChain, Done
<1>5. CASE LastUser(messages) # 0
  <2>1. /\ system' = GetSystemMsg(messages) /\ last' = messages[LastUser(messages)]
        /\ older' = GetOldUserMsgs(messages)
        /\ \/ pc' = "assemble" /\ UNCHANGED agent
           \/ pc' = "filter" /\ agent' = Detected(messages)
    BY <1>5 DEF Arrange, Goes
  <2>2. system' \in MessageType /\ system'.role = "system"
    BY <2>1, StatesTypes, SystemMsgIs
  <2>3. last' \in MessageType
    <3>1. LastUser(messages) \in DOMAIN messages
      BY <1>5, StatesTypes, Placed
    <3> QED BY <2>1, <3>1, StatesTypes
  <2>4. older' \in Seq(MessageType)
    BY <1>5, <2>1, StatesTypes, OlderIs
  <2>5. agent' \in Agents
    BY <2>1, StatesTypes DEF Detected, Agents
  <2>6. TypeOK'
    BY <1>1, <2>1, <2>2, <2>3, <2>4, <2>5, StatesTypes, TypeStep DEF PInv, InChain
  <2>7. Kept'
    <3>1. messages' = messages
      BY <1>1
    <3>2. OlderKept'
      BY <2>1, <3>1 DEF OlderKept, OldKept, Excused
    <3>3. LastKept'
      BY <2>1, <3>1 DEF LastKept
    <3> QED BY <1>5, <3>1, <3>2, <3>3 DEF Kept
  <2> QED BY <1>1, <1>2, <1>3, <2>1, <2>2, <2>6, <2>7 DEF PInv, InChain, Done
<1> QED BY <1>4, <1>5

(* What UpdateSystemMsg leaves of the system message. *)
LEMMA UpdateType ==
    ASSUME PInv, NEW words \in Seq(Words), UpdateSystemMsg(words)
    PROVE  system' \in MessageType /\ system'.role = "system"
<1> DEFINE content == [form |-> "contents", parts |-> <<Text(words)>>]
<1>1. content \in ContentType
  <2>1. Text(words) \in PartType
    BY DEF Text, PartType
  <2>2. <<Text(words)>> \in Seq(PartType)
    BY <2>1
  <2> QED BY <2>2 DEF ContentType, Forms
<1>2. system' = IF session.modify THEN [system EXCEPT !.content = content] ELSE system
  BY DEF UpdateSystemMsg
<1> HIDE DEF content
<1>3. system \in MessageType /\ system.role = "system"
  BY StatesTypes DEF PInv
<1> QED BY <1>1, <1>2, <1>3, MessageIs

(* The one text of a system message. *)
LEMMA SystemTextType ==
    ASSUME PInv, OneText(system.content)
    PROVE  SystemText \in Seq(Words)
<1>1. system.content \in ContentType
  BY StatesTypes, MessageIs
<1>2. Texts(system.content) \in Seq(PartType) /\ Len(Texts(system.content)) = 1
  BY <1>1, TextsIs DEF OneText
<1>3. Texts(system.content)[1] \in PartType
  BY <1>2
<1> QED BY <1>3 DEF SystemText, PartType

(* The filter of the system message. *)
LEMMA FilterModesType ==
    ASSUME PInv, FilterModes PROVE system' \in MessageType /\ system'.role = "system"
<1>1. CASE UNCHANGED system
  BY <1>1, StatesTypes DEF PInv
<1>2. CASE ~UNCHANGED system
  <2> DEFINE one == RemoveSection(SystemText, "##switch_mode", SubHeadings)
             two == RemoveSection(one, "----MODES", Headings)
  <2>1. OneText(system.content) /\ UpdateSystemMsg(two)
    BY <1>2 DEF FilterModes
  <2>2. one \in Seq(Words)
    BY <2>1, SystemTextType, RemoveType
  <2> HIDE DEF one
  <2>3. two \in Seq(Words)
    BY <2>2, RemoveType
  <2> HIDE DEF two
  <2> QED BY <2>1, <2>3, UpdateType
<1> QED BY <1>1, <1>2

(* The older messages after the filter. *)
LEMMA FilterKeeps == ASSUME PInv, Filter PROVE older' \in Seq(MessageType) /\ Kept'
<1> DEFINE plain == RemoveToolPatterns(older)
           new == IF session.envFilter THEN RemoveEnvironments(plain) ELSE plain
<1>1. /\ older' = new /\ pc = "filter"
      /\ UNCHANGED <<session, messages, agent, last>>
  BY DEF Filter
<1>2. Kept /\ older \in Seq(MessageType)
  BY <1>1, StatesTypes DEF PInv, InChain
<1>3. /\ LikeMessages(plain, older)
      /\ \A i \in DOMAIN older : older[i].role = "user" => plain[i] = older[i]
  BY <1>2, PatternsIs
<1> HIDE DEF plain
<1>4. /\ LikeMessages(new, older)
      /\ \A i \in DOMAIN older : older[i].role = "user" /\ Empty(new[i].content) =>
            \/ Empty(older[i].content)
            \/ session.envFilter /\ OnlyEnvironment(older[i].content)
  <2>1. CASE session.envFilter
    <3>1. /\ LikeMessages(RemoveEnvironments(plain), plain)
          /\ \A i \in DOMAIN plain :
               Empty(RemoveEnvironments(plain)[i].content) =>
                 Empty(plain[i].content) \/ OnlyEnvironment(plain[i].content)
      BY <1>3, EnvironmentsIs DEF LikeMessages
    <3>2. new = RemoveEnvironments(plain)
      BY <2>1
    <3> HIDE DEF new
    <3> QED BY <1>3, <2>1, <3>1, <3>2 DEF LikeMessages
  <2>2. CASE ~session.envFilter
    BY <1>3, <2>2
  <2> QED BY <2>1, <2>2
<1> HIDE DEF new
<1> DEFINE piece == GetOldUserMsgs(messages)
<1>5. older = piece /\ UNCHANGED piece
  <2>1. UNCHANGED piece
    BY <1>1
  <2> QED BY <1>1, <2>1 DEF PInv
<1>6. ApplicableRules' = ApplicableRules
  BY <1>1, SameProcessor
<1> HIDE DEF piece
<1>7. DOMAIN new = DOMAIN piece
  BY <1>4, <1>5 DEF LikeMessages
<1>8. ASSUME NEW k \in DOMAIN piece
      PROVE  /\ OldKept(new[k], piece[k])
             /\ Images(new[k].content) = Images(piece[k].content)
  BY <1>4, <1>5 DEF LikeMessages, OldKept, Excused
<1>9. OlderKept'
  BY <1>1, <1>5, <1>7, <1>8 DEF OlderKept, OldKept, Excused, piece
<1>10. LastKept'
  <2>1. older = <<>> => older' = <<>>
    BY <1>1, <1>4, <1>5 DEF LikeMessages
  <2> QED BY <1>1, <1>2, <1>6, <2>1 DEF Kept, LastKept
<1> QED BY <1>1, <1>2, <1>4, <1>9, <1>10 DEF Kept, LikeMessages

(* The filter keeps the invariant. *)
LEMMA FilterStep == ASSUME PInv, Filter PROVE PInv'
<1>1. /\ pc = "filter" /\ pc' = "task" /\ FilterModes
      /\ UNCHANGED <<session, turn, messages, agent, last, prompt, sent>>
  BY DEF Filter, Goes, Chain
<1>2. system' \in MessageType /\ system'.role = "system"
  BY <1>1, FilterModesType
<1>3. older' \in Seq(MessageType) /\ Kept'
  BY FilterKeeps
<1>4. Processor # "Direct"
  BY <1>1 DEF PInv, InChain
<1> QED BY <1>1, <1>2, <1>3, <1>4, StatesTypes, QuietStep DEF InChain, Done

(* The order in which the rules apply. *)
LEMMA RulesType ==
    ASSUME PInv, NEW rules \in SetToSeqs(ApplicableRules)
    PROVE  /\ rules \in Seq(TaskRuleType)
           /\ rules # <<>> => ApplicableRules # {}
<1> DEFINE S == ApplicableRules
<1>1. S \subseteq session.tasks /\ session.tasks \subseteq TaskRuleType
  BY StatesTypes DEF ApplicableRules, SessionType
<1>2. IsFiniteSet(S) /\ Cardinality(S) \in Nat
  BY <1>1, StatesTypes, FS_Subset, FS_CardinalityType
<1>3. rules \in [1..Cardinality(S) -> S]
  BY DEF SetToSeqs
<1> HIDE DEF S
<1>4. rules \in Seq(S) /\ rules \in Seq(TaskRuleType)
  BY <1>1, <1>2, <1>3
<1>5. S = {} => rules = <<>>
  BY <1>4
<1> QED BY <1>4, <1>5 DEF S

(* The first message after the rules for the task. *)
LEMMA TaskKeeps ==
    ASSUME PInv, ReplaceTask
    PROVE  older' \in Seq(MessageType) /\ last' \in MessageType /\ Kept'
<1>1. pc = "task" /\ UNCHANGED <<session, messages, agent>>
  BY DEF ReplaceTask
<1>2. Kept /\ older \in Seq(MessageType) /\ last \in MessageType /\ messages \in Seq(MessageType)
  BY <1>1, StatesTypes DEF PInv, InChain
<1>3. PICK rules \in SetToSeqs(ApplicableRules) :
        IF older = <<>>
        THEN last' = [last EXCEPT !.content = Rewritten(@, rules)] /\ UNCHANGED older
        ELSE older' = [older EXCEPT ![1].content = Rewritten(@, rules)] /\ UNCHANGED last
  BY DEF ReplaceTask
<1>4. rules \in Seq(TaskRuleType) /\ (rules # <<>> => ApplicableRules # {})
  BY RulesType
<1>5. ASSUME NEW m \in MessageType, NEW n, n = [m EXCEPT !.content = Rewritten(@, rules)]
      PROVE  /\ n \in MessageType /\ n.id = m.id /\ n.role = m.role
             /\ Empty(n.content) => Empty(m.content)
             /\ Images(n.content) # Images(m.content) =>
                  Images(n.content) = <<>> /\ ApplicableRules # {}
  <2> DEFINE content == Rewritten(m.content, rules)
  <2>1. m.content \in ContentType
    BY MessageIs
  <2>2. content \in ContentType /\ Rewrite(content, m.content)
        /\ (rules = <<>> => content = m.content)
    BY <1>4, <2>1, RewrittenIs
  <2>3. n = [m EXCEPT !.content = content]
    BY <1>5
  <2> HIDE DEF content
  <2>4. n \in MessageType /\ n.id = m.id /\ n.role = m.role /\ n.content = content
    BY <2>2, <2>3, MessageIs
  <2>5. Empty(content) => content = m.content
    BY <2>2 DEF Rewrite, Empty
  <2> QED BY <1>4, <2>2, <2>4, <2>5 DEF Rewrite
<1>6. ApplicableRules' = ApplicableRules
  BY <1>1, SameProcessor
<1>7. CASE older = <<>>
  <2>1. last' = [last EXCEPT !.content = Rewritten(@, rules)] /\ older' = <<>> /\ older' = older
    BY <1>3, <1>7
  <2>2. /\ last' \in MessageType /\ last'.id = last.id /\ last'.role = last.role
        /\ Empty(last'.content) => Empty(last.content)
        /\ Images(last'.content) # Images(last.content) =>
             Images(last'.content) = <<>> /\ ApplicableRules # {}
    BY <1>2, <1>5, <2>1
  <2>3. OlderKept'
    BY <1>1, <1>2, <1>6, <2>1 DEF Kept, OlderKept, OldKept, Excused
  <2>4. LastKept'
    BY <1>1, <1>2, <1>6, <2>1, <2>2 DEF Kept, LastKept
  <2> QED BY <1>1, <1>2, <2>1, <2>2, <2>3, <2>4 DEF Kept
<1>8. CASE older # <<>>
  <2> DEFINE new == [older[1] EXCEPT !.content = Rewritten(@, rules)]
  <2>1. last' = last /\ older' = [older EXCEPT ![1] = new]
    BY <1>3, <1>8
  <2>2. 1 \in DOMAIN older /\ older[1] \in MessageType
    BY <1>2, <1>8
  <2>3. /\ new \in MessageType /\ new.id = older[1].id /\ new.role = older[1].role
        /\ Empty(new.content) => Empty(older[1].content)
        /\ Images(new.content) # Images(older[1].content) =>
             Images(new.content) = <<>> /\ ApplicableRules # {}
    BY <1>5, <2>2
  <2> HIDE DEF new
  <2>4. older' \in Seq(MessageType) /\ older' # <<>> /\ DOMAIN older' = DOMAIN older
    BY <1>2, <1>8, <2>1, <2>2, <2>3
  <2>5. older'[1] = new /\ \A k \in DOMAIN older : k # 1 => older'[k] = older[k]
    BY <2>1, <2>2
  <2> DEFINE piece == GetOldUserMsgs(messages)
  <2>6. /\ DOMAIN older = DOMAIN piece
        /\ \A k \in DOMAIN piece :
             /\ OldKept(older[k], piece[k])
             /\ \/ Images(older[k].content) = Images(piece[k].content)
                \/ k = 1 /\ Images(older[k].content) = <<>> /\ ApplicableRules # {}
    BY <1>2 DEF Kept, OlderKept
  <2>7. piece' = piece
    BY <1>1
  <2> HIDE DEF piece
  <2>8. ASSUME NEW k \in DOMAIN piece
        PROVE  /\ OldKept(older'[k], piece[k])
               /\ \/ Images(older'[k].content) = Images(piece[k].content)
                  \/ k = 1 /\ Images(older'[k].content) = <<>> /\ ApplicableRules # {}
    <3>1. CASE k = 1
      BY <2>3, <2>5, <2>6, <3>1 DEF OldKept
    <3>2. CASE k # 1
      BY <2>5, <2>6, <3>2
    <3> QED BY <3>1, <3>2
  <2>9. OlderKept'
    BY <1>1, <1>6, <2>4, <2>6, <2>7, <2>8 DEF OlderKept, OldKept, Excused, piece
  <2>10. LastKept'
    BY <1>1, <1>2, <1>6, <1>8, <2>1, <2>4 DEF Kept, LastKept
  <2> QED BY <1>1, <1>2, <2>1, <2>4, <2>9, <2>10 DEF Kept
<1> QED BY <1>7, <1>8

(* The rules for the task keep the invariant. *)
LEMMA TaskStep == ASSUME PInv, ReplaceTask PROVE PInv'
<1>1. /\ pc = "task" /\ pc' = "tools"
      /\ UNCHANGED <<session, turn, messages, agent, system, prompt, sent>>
  BY DEF ReplaceTask, Goes, Chain
<1>2. Processor # "Direct" /\ system.role = "system"
  BY <1>1 DEF PInv, InChain
<1>3. older' \in Seq(MessageType) /\ last' \in MessageType /\ Kept'
  BY TaskKeeps
<1> QED BY <1>1, <1>2, <1>3, StatesTypes, QuietStep DEF InChain, Done

(* The tools keep the invariant. *)
LEMMA AdaptStep == ASSUME PInv, AdaptTools PROVE PInv'
<1>1. /\ pc = "tools" /\ pc' = "rules"
      /\ UNCHANGED <<session, turn, messages, agent, older, last, prompt, sent>>
  BY DEF AdaptTools, Goes, Chain
<1>2. Processor # "Direct" /\ system.role = "system" /\ Kept
  BY <1>1 DEF PInv, InChain
<1>3. system' \in MessageType /\ system'.role = "system"
  <2>1. CASE UNCHANGED system
    BY <1>2, <2>1, StatesTypes
  <2>2. CASE ~UNCHANGED system
    <3>1. PICK ready \in BOOLEAN :
            OneText(system.content) /\ UpdateSystemMsg(InsertTools(SystemText, ready))
      BY <2>2 DEF AdaptTools
    <3>2. InsertTools(SystemText, ready) \in Seq(Words)
      BY <3>1, SystemTextType, ToolsType
    <3> QED BY <3>1, <3>2, UpdateType
  <2> QED BY <2>1, <2>2
<1>4. Kept'
  BY <1>1, <1>2, SameKept
<1> QED BY <1>1, <1>2, <1>3, <1>4, StatesTypes, QuietStep DEF InChain, Done

(* Nor does a panic break it: the request has failed. *)
LEMMA PanicStep == ASSUME PInv, InsertionPanics PROVE PInv'
<1>1. /\ pc' = "failed"
      /\ UNCHANGED <<session, turn, messages, agent, system, older, last, prompt, sent>>
  BY DEF InsertionPanics, Goes, promptMsg
<1>2. TypeOK'
  BY <1>1, StatesTypes, TypeStep DEF PInv
<1>3. Conversation'
  BY <1>1 DEF PInv, Conversation
<1> QED BY <1>1, <1>2, <1>3 DEF PInv, InChain, Done

(* The agent's rules keep the invariant. *)
LEMMA InjectStep == ASSUME PInv, InjectRules PROVE PInv'
<1>1. /\ pc = "rules" /\ pc' = "assemble"
      /\ UNCHANGED <<session, turn, messages, agent, older, last, prompt, sent>>
  BY DEF InjectRules, Goes, Chain
<1>2. Processor # "Direct" /\ system.role = "system" /\ Kept
  BY <1>1 DEF PInv, InChain
<1>3. system' \in MessageType /\ system'.role = "system"
  <2>1. CASE UNCHANGED system
    BY <1>2, <2>1, StatesTypes
  <2>2. CASE ~UNCHANGED system
    <3> DEFINE new == IF Matches(session.rules) THEN <<"agent_rules">> ELSE <<>>
    <3>1. OneText(system.content) /\ UpdateSystemMsg(SystemText \o new)
      BY <2>2 DEF InjectRules
    <3>2. new \in Seq(Words)
      <4>1. "agent_rules" \in Words
        BY PromptAssumption DEF Inserted
      <4>2. <<"agent_rules">> \in Seq(Words) /\ <<>> \in Seq(Words)
        BY <4>1
      <4> QED BY <4>2
    <3> HIDE DEF new
    <3>3. SystemText \o new \in Seq(Words)
      BY <3>1, <3>2, SystemTextType
    <3> QED BY <3>1, <3>3, UpdateType
  <2> QED BY <2>1, <2>2
<1>4. Kept'
  BY <1>1, <1>2, SameKept
<1> QED BY <1>1, <1>2, <1>3, <1>4, StatesTypes, QuietStep DEF InChain, Done

(* To set the language is to add to the last text. *)
LEMMA SpokenIs ==
    ASSUME PInv, NEW m \in MessageType
    PROVE  /\ Spoken(m) \in MessageType /\ Spoken(m).id = m.id /\ Spoken(m).role = m.role
           /\ m.content.form # "contents" => Spoken(m) = m
<1> DEFINE n == Len(m.content.parts)
           part == m.content.parts[n]
           said == [part EXCEPT !.text = Append(@, "language")]
           new == [m.content EXCEPT !.parts = [m.content.parts EXCEPT ![n] = said]]
           speaks == session.modify /\ session.language /\ m.content.form = "contents" /\ n > 0
<1>1. Spoken(m) = IF speaks THEN [m EXCEPT !.content = new] ELSE m
  BY DEF Spoken
<1>2. CASE ~speaks
  BY <1>1, <1>2
<1>3. CASE speaks
  <2>1. m.content \in ContentType /\ m.content.form = "contents"
    BY <1>3, MessageIs
  <2>2. m.content.parts \in Seq(PartType) /\ n \in DOMAIN m.content.parts
    BY <1>3, <2>1 DEF ContentType
  <2> HIDE DEF n, speaks
  <2>3. part \in PartType /\ part.text \in Seq(Words)
    <3>1. part \in PartType
      BY <2>2
    <3> HIDE DEF part
    <3> QED BY <3>1 DEF PartType
  <2>4. Append(part.text, "language") \in Seq(Words)
    <3>1. "language" \in Words
      BY PromptAssumption DEF Inserted
    <3> QED BY <2>3, <3>1
  <2>5. said \in PartType
    BY <2>3, <2>4 DEF PartType
  <2> HIDE DEF said
  <2>6. [m.content.parts EXCEPT ![n] = said] \in Seq(PartType)
    BY <2>2, <2>5
  <2>7. new \in ContentType
    BY <2>1, <2>6 DEF ContentType
  <2> HIDE DEF new
  <2>8. Spoken(m) = [m EXCEPT !.content = new]
    BY <1>1, <1>3
  <2> QED BY <2>1, <2>7, <2>8, MessageIs
<1> QED BY <1>2, <1>3

(* The prompt is put together. *)
LEMMA AssembleStep == ASSUME PInv, Assemble PROVE PInv'
<1>1. /\ pc = "assemble" /\ pc' = "check"
      /\ prompt' = <<Spoken(system)>> \o older \o <<last>>
      /\ UNCHANGED <<session, turn, messages, agent, system, older, last, sent>>
  BY DEF Assemble, Goes, promptMsg
<1>2. Processor # "Direct" /\ system.role = "system" /\ Kept
  BY <1>1 DEF PInv, InChain
<1>3. prompt' \in Seq(MessageType)
  <2>1. Spoken(system) \in MessageType /\ older \in Seq(MessageType) /\ last \in MessageType
    BY StatesTypes, SpokenIs
  <2> HIDE DEF Spoken
  <2>2. <<Spoken(system)>> \in Seq(MessageType) /\ <<last>> \in Seq(MessageType)
    BY <2>1
  <2> QED BY <1>1, <2>1, <2>2
<1>4. Kept'
  BY <1>1, <1>2, SameKept
<1>5. PromptIs'
  <2>1. Spoken(system)' = Spoken(system)
    BY <1>1 DEF Spoken
  <2>2. Processor' = Processor
    BY <1>1, SameProcessor
  <2> QED BY <1>1, <1>2, <2>1, <2>2 DEF PromptIs
<1> QED BY <1>1, <1>2, <1>3, <1>4, <1>5, StatesTypes, QuietStep DEF InChain, Done

(* The prompt is refused or sent. *)
LEMMA CheckStep == ASSUME PInv, Check PROVE PInv'
<1>1. /\ pc = "check" /\ pc' \in {"refused", "sent"}
      /\ pc' = "refused" => Refused(prompt)
      /\ UNCHANGED <<session, turn, messages, agent, system, older, last, prompt, sent>>
  BY DEF Check, Goes, promptMsg
<1>2. Processor' = Processor
  BY <1>1, SameProcessor
<1>3. system.role = "system" /\ PromptIs /\ (Processor # "Direct" => Kept)
  BY <1>1 DEF PInv, Done
<1>4. Processor # "Direct" => Kept'
  BY <1>1, <1>3, SameKept
<1>5. PromptIs'
  <2>1. Spoken(system)' = Spoken(system)
    BY <1>1 DEF Spoken
  <2> QED BY <1>1, <1>2, <1>3, <2>1 DEF PromptIs
<1>6. pc' = "refused" => Refused(prompt')
  BY <1>1
<1> QED BY <1>1, <1>3, <1>4, <1>5, <1>6, StatesTypes, QuietStep DEF InChain, Done

(* The next request brings the conversation again. *)
LEMMA NextTurnStep == ASSUME PInv, NextTurn PROVE PInv'
<1>0. turn < MaxTurns /\ turn' = turn + 1
  BY DEF NextTurn
<1>1. /\ pc' = "arrange" /\ agent' = ""
      /\ session' = session /\ sent' = prompt /\ prompt' = <<>>
      /\ system' = AddedSystem /\ older' = <<>> /\ last' = AddedSystem
  BY DEF NextTurn, Goes
<1>2. Conversation'
  <2>1. PICK new \in Appended : messages' = Numbered(messages \o new)
    BY DEF NextTurn
  <2> DEFINE all == messages \o new
  <2>2. messages \in Seq(ClientMessage) /\ new \in Seq(ClientMessage)
    BY PromptAssumption DEF PInv, Conversation
  <2>3. all \in Seq(ClientMessage)
    BY <2>2
  <2> HIDE DEF all
  <2>4. messages' = [i \in DOMAIN all |-> [all[i] EXCEPT !.id = i]]
    BY <2>1 DEF Numbered, all
  <2>5. DOMAIN all = 1..Len(all) /\ Len(all) \in Nat
    BY <2>3
  <2>6. ASSUME NEW i \in DOMAIN all
        PROVE  [all[i] EXCEPT !.id = i] \in ClientMessage /\ [all[i] EXCEPT !.id = i].id = i
    <3>1. all[i] \in ClientMessage /\ i \in Nat
      BY <2>3, <2>5
    <3> QED BY <3>1 DEF ClientMessage, MessageType
  <2>7. messages' \in [1..Len(all) -> ClientMessage] /\ \A i \in DOMAIN all : messages'[i].id = i
    BY <2>4, <2>5, <2>6
  <2>8. messages' \in Seq(ClientMessage) /\ DOMAIN messages' = DOMAIN all
    BY <2>5, <2>7
  <2> QED BY <2>7, <2>8 DEF Conversation
<1>3. TypeOK'
  <2>1. session \in Sessions /\ turn \in 1..MaxTurns /\ prompt \in Seq(MessageType)
    BY DEF PInv, TypeOK
  <2>2. turn' \in 1..MaxTurns
    <3>1. MaxTurns \in Nat
      BY PromptAssumption
    <3> QED BY <1>0, <2>1, <3>1
  <2>3. messages' \in Seq(MessageType)
    BY <1>2, ClientIsMessage DEF Conversation
  <2>4. <<AddedSystem, AddedSystem>> \in Seq(MessageType) /\ <<>> \in Seq(MessageType)
    <3> HIDE DEF AddedSystem
    <3> QED BY AddedSystemType
  <2>5. <<system', last'>> \in Seq(MessageType)
    BY <1>1, <2>4
  <2>6. agent' \in Agents
    BY <1>1 DEF Agents
  <2> QED BY <1>1, <2>1, <2>2, <2>3, <2>4, <2>5, <2>6 DEF TypeOK
<1>4. system'.role = "system"
  BY <1>1, AddedSystemType
<1> QED BY <1>1, <1>2, <1>3, <1>4 DEF PInv, InChain, Done

(* Every step keeps the invariant. *)
LEMMA StepPInv == PInv /\ [Next]_vars => PInv'
<1> SUFFICES ASSUME PInv, [Next]_vars PROVE PInv'
  OBVIOUS
<1>1. CASE UNCHANGED vars
  <2>1. UNCHANGED <<session, turn, messages, pc, agent, system, older, last, prompt, sent>>
    BY <1>1 DEF vars, promptMsg
  <2>2. Processor' = Processor /\ ApplicableRules' = ApplicableRules
    BY <2>1, SameProcessor
  <2>3. TypeOK' /\ Conversation'
    BY <2>1 DEF PInv, TypeOK, Conversation
  <2>4. Kept => Kept'
    BY <2>1, SameKept
  <2>5. PromptIs => PromptIs'
    BY <2>1, <2>2 DEF PromptIs, Spoken
  <2>6. Refused(prompt) => Refused(prompt')
    BY <2>1
  <2> QED BY <2>1, <2>2, <2>3, <2>4, <2>5, <2>6 DEF PInv
<1>2. CASE Next
  BY <1>2, PassStep, ArrangeStep, FilterStep, TaskStep, AdaptStep, PanicStep, InjectStep,
     AssembleStep, CheckStep, NextTurnStep DEF Next
<1> QED BY <1>1, <1>2

(* The invariant holds in every state. *)
THEOREM Invariance == Spec => []PInv
BY InitPInv, StepPInv, PTL DEF Spec

(* The types of the conversation and of the prompt, for any conversations  *)
(* of any length and any configurations.                                   *)
THEOREM TypeIsCorrect == Spec => []TypeOK
<1>1. PInv => TypeOK
  BY DEF PInv
<1> QED BY Invariance, <1>1, PTL

(* The parts of a prompt that was put together. *)
LEMMA PromptParts ==
    ASSUME PInv, pc \in Done, Processor # "Direct"
    PROVE  /\ Len(older) \in Nat /\ DOMAIN older = 1..Len(older)
           /\ Len(prompt) = Len(older) + 2
           /\ prompt[1] = Spoken(system)
           /\ \A k \in DOMAIN older : prompt[k + 1] = older[k]
           /\ prompt[Len(older) + 2] = last
           /\ Tail(prompt) = older \o <<last>>
<1>1. prompt = <<Spoken(system)>> \o older \o <<last>>
  BY DEF PInv, PromptIs
<1>2. older \in Seq(MessageType) /\ last \in MessageType /\ Spoken(system) \in MessageType
  BY StatesTypes, SpokenIs
<1> DEFINE first == Spoken(system)
<1> HIDE DEF first
<1>3. <<first>> \in Seq(MessageType) /\ <<last>> \in Seq(MessageType) /\ prompt = <<first>> \o older \o <<last>>
  BY <1>1, <1>2 DEF first
<1>4. Len(older) \in Nat /\ DOMAIN older = 1..Len(older)
  BY <1>2
<1>5. /\ Len(prompt) = Len(older) + 2 /\ prompt[1] = first /\ prompt[Len(older) + 2] = last
      /\ \A k \in DOMAIN older : prompt[k + 1] = older[k]
  BY <1>2, <1>3, <1>4
<1>6. Tail(prompt) = older \o <<last>>
  BY <1>2, <1>3, <1>4
<1> QED BY <1>4, <1>5, <1>6 DEF first

(* A user's message is emptied in one case only. *)
LEMMA RefusedFollows == PInv => RefusedExplained
<1> SUFFICES ASSUME PInv, pc = "refused" PROVE RefusedExplained
  BY DEF RefusedExplained
<1> DEFINE Reason(i) ==
        /\ messages[i].role = "user"
        /\ \/ Empty(messages[i].content)
           \/ /\ session.envFilter /\ messages[i].content.form = "list" /\ i < LastUser(messages)
              /\ \A j \in DOMAIN messages[i].content.parts : IsEnvironment(messages[i].content.parts[j])
<1>1. SUFFICES \E i \in DOMAIN messages : Reason(i)
  BY DEF RefusedExplained
<1>2. PICK i \in DOMAIN prompt : prompt[i].role = "user" /\ Empty(prompt[i].content)
  BY DEF PInv, Refused
<1>3. CASE Processor = "Direct"
  <2>1. prompt = messages
    BY <1>3 DEF PInv, PromptIs, Done
  <2> QED BY <1>2, <2>1
<1>4. CASE Processor # "Direct"
  <2>1. Kept /\ system.role = "system" /\ pc \in Done
    BY <1>4 DEF PInv, Done
  <2>2. /\ Len(older) \in Nat /\ DOMAIN older = 1..Len(older)
        /\ Len(prompt) = Len(older) + 2
        /\ prompt[1] = Spoken(system)
        /\ \A k \in DOMAIN older : prompt[k + 1] = older[k]
        /\ prompt[Len(older) + 2] = last
    BY <1>4, <2>1, PromptParts
  <2>3. DOMAIN prompt = 1..Len(prompt)
    BY StatesTypes
  <2>4. prompt[1].role = "system"
    BY <2>1, <2>2, StatesTypes, SpokenIs
  <2>5. i \in 1..(Len(older) + 2) /\ i # 1
    BY <1>2, <2>2, <2>3, <2>4
  <2>6. LastUser(messages) \in DOMAIN messages /\ DOMAIN messages = 1..Len(messages)
    BY <2>1, StatesTypes, Placed DEF Kept
  <2>7. CASE i = Len(older) + 2
    <3>1. last.role = "user" /\ Empty(last.content)
      BY <1>2, <2>2, <2>7
    <3>2. /\ messages[LastUser(messages)].role = "user"
          /\ Empty(messages[LastUser(messages)].content)
      BY <2>1, <3>1 DEF Kept, LastKept
    <3>3. Reason(LastUser(messages))
      BY <3>2
    <3> QED BY <2>6, <3>3
  <2>8. CASE i # Len(older) + 2
    <3> DEFINE k == i - 1
               piece == GetOldUserMsgs(messages)
               p == OlderFrom(messages) + k - 1
    <3>1. k \in DOMAIN older /\ i = k + 1
      BY <2>2, <2>5, <2>8
    <3>2. older[k].role = "user" /\ Empty(older[k].content)
      BY <1>2, <2>2, <3>1
    <3> HIDE DEF k
    <3>3. k \in DOMAIN piece /\ piece[k].role = "user" /\ Excused(piece[k].content)
      BY <2>1, <3>1, <3>2 DEF Kept, OlderKept, OldKept
    <3>4. p \in 1..(LastUser(messages) - 1) /\ piece[k] = messages[p]
      BY <2>1, <3>3, StatesTypes, OlderIs DEF Kept
    <3> HIDE DEF p, piece
    <3>5. p \in DOMAIN messages /\ p < LastUser(messages)
      BY <2>6, <3>4
    <3>6. Reason(p)
      BY <3>3, <3>4, <3>5 DEF Excused, OnlyEnvironment
    <3> QED BY <3>5, <3>6
  <2> QED BY <2>7, <2>8
<1> QED BY <1>3, <1>4

(* A conversation is refused for what the client sent, or for a message    *)
(* that was nothing but the environment and is no longer the last, in any  *)
(* mode and under any configuration.                                       *)
THEOREM RefusalsAreExplained == Spec => []RefusedExplained
BY Invariance, RefusedFollows, PTL

(* Where the piece of the conversation begins that the prompt has. *)
LEMMA FirstIs ==
    ASSUME PInv, pc \in Done, Processor # "Direct"
    PROVE  LET said == Tail(prompt)
               first == said[1].id
           IN  /\ said = older \o <<last>> /\ said \in Seq(MessageType)
               /\ DOMAIN said = 1..(LastUser(messages) - first + 1)
               /\ \A i \in DOMAIN said :
                    said[i].id = first + i - 1 /\ first + i - 1 \in DOMAIN messages
               /\ FirstSystem(messages) = 1 => first = 2
<1> DEFINE said == Tail(prompt)
           first == said[1].id
           piece == GetOldUserMsgs(messages)
           from == OlderFrom(messages)
           u == LastUser(messages)
           n == Len(older)
<1>1. /\ n \in Nat /\ DOMAIN older = 1..n /\ said = older \o <<last>>
      /\ older \in Seq(MessageType) /\ last \in MessageType
  BY PromptParts, StatesTypes
<1>2. Kept /\ messages \in Seq(MessageType) /\ \A i \in DOMAIN messages : messages[i].id = i
  BY StatesTypes DEF PInv, Conversation
<1>3. /\ u \in DOMAIN messages /\ DOMAIN messages = 1..Len(messages) /\ Len(messages) \in Nat
      /\ FirstSystem(messages) = 1 => messages[1].role = "system"
      /\ messages[u].role # "system"
  BY <1>2, Placed DEF Kept
<1>4. /\ from \in Nat /\ from >= 2
      /\ piece # <<>> => Len(piece) = u - from
      /\ piece = <<>> => Len(messages) = 1 \/ u <= from
      /\ \A k \in DOMAIN piece : from + k - 1 \in 1..(u - 1) /\ piece[k] = messages[from + k - 1]
      /\ piece \in Seq(MessageType)
  BY <1>2, OlderIs DEF Kept
<1>5. FirstSystem(messages) = 1 => from = 2
  BY DEF OlderFrom, SystemPosition
<1>6. last.id = u
  BY <1>2, <1>3 DEF Kept, LastKept
<1>7. DOMAIN piece = DOMAIN older /\ \A k \in DOMAIN older : older[k].id = piece[k].id
  BY <1>2 DEF Kept, OlderKept, OldKept
<1> HIDE DEF said, piece, from, u, n
<1>8. \A k \in DOMAIN older : older[k].id = from + k - 1 /\ from + k - 1 \in 1..(u - 1)
  <2> SUFFICES ASSUME NEW k \in DOMAIN older
               PROVE  older[k].id = from + k - 1 /\ from + k - 1 \in 1..(u - 1)
    OBVIOUS
  <2> DEFINE p == from + k - 1
  <2>1. k \in DOMAIN piece /\ older[k].id = piece[k].id
    BY <1>7
  <2>2. p \in 1..(u - 1) /\ piece[k] = messages[p]
    BY <1>4, <2>1
  <2> HIDE DEF p
  <2>3. p \in DOMAIN messages
    BY <1>3, <2>2
  <2>4. messages[p].id = p
    BY <1>2, <2>3
  <2>5. older[k].id = p /\ p \in 1..(u - 1)
    BY <2>1, <2>2, <2>4
  <2> QED BY <2>5 DEF p
<1>9. /\ said \in Seq(MessageType) /\ Len(said) = n + 1 /\ DOMAIN said = 1..(n + 1)
      /\ \A k \in 1..n : said[k] = older[k]
      /\ said[n + 1] = last
  BY <1>1 DEF n
<1>10. CASE n = 0
  <2>1. said[1] = last /\ first = u
    BY <1>6, <1>9, <1>10
  <2>2. piece = <<>>
    BY <1>1, <1>4, <1>7, <1>10
  <2>3. FirstSystem(messages) = 1 => u = 2
    <3>1. FirstSystem(messages) = 1 => u # 1
      BY <1>3
    <3> QED BY <1>3, <1>4, <1>5, <2>2, <3>1
  <2>4. \A i \in DOMAIN said : i = 1
    BY <1>9, <1>10
  <2>5. DOMAIN said = 1..(u - u + 1)
    BY <1>3, <1>9, <1>10
  <2> QED BY <1>1, <1>3, <1>6, <1>9, <2>1, <2>3, <2>4, <2>5 DEF said, u
<1>11. CASE n # 0
  <2>1. 1 \in DOMAIN older /\ first = from
    BY <1>1, <1>4, <1>8, <1>9, <1>11
  <2>2. n = u - from
    <3>1. piece # <<>>
      BY <1>7, <2>1
    <3>2. Len(piece) = n
      BY <1>1, <1>4, <1>7
    <3> QED BY <1>4, <3>1, <3>2
  <2>3. DOMAIN said = 1..(u - from + 1)
    BY <1>9, <2>2
  <2>4. ASSUME NEW i \in DOMAIN said
        PROVE  said[i].id = from + i - 1 /\ from + i - 1 \in DOMAIN messages
    <3>1. CASE i = n + 1
      <4>1. from + i - 1 = u
        BY <1>3, <1>4, <2>2, <3>1
      <4> QED BY <1>3, <1>6, <1>9, <3>1, <4>1
    <3>2. CASE i # n + 1
      <4>1. i \in 1..n
        BY <1>1, <1>9, <3>2
      <4> QED BY <1>1, <1>3, <1>8, <1>9, <4>1
    <3> QED BY <3>1, <3>2
  <2> QED BY <1>1, <1>5, <1>9, <2>1, <2>3, <2>4 DEF said, u
<1> QED BY <1>10, <1>11

(* What is left of the conversation in the prompt. *)
LEMMA ConversationFollows == PInv => ConversationKept
<1> SUFFICES ASSUME PInv, pc = "sent" PROVE ConversationKept
  BY DEF ConversationKept
<1>1. CASE Processor = "Direct"
  BY <1>1 DEF PInv, PromptIs, Done, ConversationKept
<1>2. CASE Processor # "Direct"
  <2> DEFINE said == Tail(prompt)
             first == said[1].id
             n == Len(older)
  <2>1. pc \in Done /\ Kept
    BY <1>2 DEF PInv, Done
  <2>2. /\ said = older \o <<last>> /\ said \in Seq(MessageType)
        /\ DOMAIN said = 1..(LastUser(messages) - first + 1)
        /\ \A i \in DOMAIN said :
             said[i].id = first + i - 1 /\ first + i - 1 \in DOMAIN messages
        /\ FirstSystem(messages) = 1 => first = 2
    BY <1>2, <2>1, FirstIs
  <2>3. prompt[1].role = "system"
    <3>1. prompt[1] = Spoken(system)
      BY <1>2, <2>1, PromptParts
    <3> QED BY <3>1, StatesTypes, SpokenIs DEF PInv
  <2>4. older \in Seq(MessageType) /\ last \in MessageType /\ n \in Nat /\ DOMAIN older = 1..n
    BY StatesTypes
  <2>5. /\ DOMAIN said = 1..(n + 1) /\ said[n + 1] = last
        /\ \A k \in DOMAIN older : said[k] = older[k]
    BY <2>2, <2>4
  <2> HIDE DEF said, n
  <2>6. Ids(said) = [i \in 1..(LastUser(messages) - first + 1) |-> first + i - 1]
    BY <2>2 DEF Ids
  <2>7. ASSUME NEW i \in DOMAIN said
        PROVE  \/ Images(said[i].content) = Images(messages[said[i].id].content)
               \/ i = 1 /\ Images(said[i].content) = <<>> /\ ApplicableRules # {}
    <3>1. CASE i = n + 1
      <4>1. said[i] = last /\ last.id = messages[LastUser(messages)].id
        BY <2>1, <2>5, <3>1 DEF Kept, LastKept
      <4>2. messages[LastUser(messages)].id = LastUser(messages)
        <5>1. LastUser(messages) \in DOMAIN messages
          BY <2>1, StatesTypes, Placed DEF Kept
        <5> QED BY <5>1 DEF PInv, Conversation
      <4>3. older = <<>> => i = 1
        BY <3>1 DEF n
      <4> QED BY <2>1, <4>1, <4>2, <4>3 DEF Kept, LastKept
    <3>2. CASE i # n + 1
      <4> DEFINE piece == GetOldUserMsgs(messages)
                 p == OlderFrom(messages) + i - 1
      <4>1. i \in DOMAIN older /\ said[i] = older[i]
        BY <2>4, <2>5, <3>2
      <4>2. /\ i \in DOMAIN piece /\ older[i].id = piece[i].id
            /\ \/ Images(older[i].content) = Images(piece[i].content)
               \/ i = 1 /\ Images(older[i].content) = <<>> /\ ApplicableRules # {}
        BY <2>1, <4>1 DEF Kept, OlderKept, OldKept
      <4>3. p \in 1..(LastUser(messages) - 1) /\ piece[i] = messages[p]
        BY <2>1, <4>2, StatesTypes, OlderIs DEF Kept
      <4>4. messages[p].id = p
        <5>1. LastUser(messages) \in DOMAIN messages /\ DOMAIN messages = 1..Len(messages)
          BY <2>1, StatesTypes, Placed DEF Kept
        <5>2. p \in DOMAIN messages
          BY <4>3, <5>1
        <5> QED BY <5>2 DEF PInv, Conversation
      <4> QED BY <4>1, <4>2, <4>3, <4>4
    <3> QED BY <3>1, <3>2
  <2> QED BY <1>2, <2>2, <2>3, <2>6, <2>7 DEF ConversationKept, said
<1> QED BY <1>1, <1>2

(* A prompt is the system message and an unbroken piece of the             *)
(* conversation up to what was said last, with every image but those of a  *)
(* first message that a rule has rewritten.                                *)
THEOREM ConversationIsKept == Spec => []ConversationKept
BY Invariance, ConversationFollows, PTL

-----------------------------------------------------------------------------
(* What has been written into the system message.                          *)

(* What is the client's in a text. *)
Own(words) == Among(words, Range(words) \ Inserted)

(* A word that is counted, and one that is not there. *)
LEMMA CountIs ==
    ASSUME NEW words \in Seq(Words), NEW word
    PROVE  /\ Count(words, word) = Len(Among(words, {word})) /\ Count(words, word) \in Nat
           /\ Count(words, word) = 0 <=> word \notin Range(words)
<1> DEFINE S == {i \in DOMAIN words : words[i] = word}
<1>1. PlacesOf(words, {word}) = S
  BY DEF PlacesOf
<1>2. IsFiniteSet(S) /\ Len(Among(words, {word})) = Cardinality(S)
  BY <1>1, AmongIs
<1>3. Cardinality(S) \in Nat /\ (Cardinality(S) = 0 <=> S = {})
  BY <1>2, FS_CardinalityType, FS_EmptySet
<1>4. S = {} <=> word \notin Range(words)
  BY DEF Range
<1> QED BY <1>2, <1>3, <1>4 DEF Count

(* A word that the processors insert leaves what is the client's as it is, *)
(* and counts once if it was not there.                                    *)
LEMMA InsertedWord ==
    ASSUME NEW words \in Seq(Words), NEW new \in Seq(Words), NEW i, NEW word \in Inserted,
           IsInserted(new, words, i, word)
    PROVE  /\ Own(new) = Own(words)
           /\ \A other \in Inserted : other # word => Count(new, other) = Count(words, other)
           /\ Count(words, word) = 0 => Count(new, word) = 1
<1> DEFINE S == Range(words) \ Inserted
           U == Range(new) \ Inserted
<1>1. \A k \in DOMAIN words : words[k] \in Range(new)
  <2>1. /\ Len(words) \in Nat /\ DOMAIN words = 1..Len(words) /\ i \in 0..Len(words)
        /\ DOMAIN new = 1..(Len(words) + 1)
        /\ \A k \in 1..i : new[k] = words[k]
        /\ \A k \in (i + 1)..Len(words) : new[k + 1] = words[k]
    BY DEF IsInserted
  <2> SUFFICES ASSUME NEW k \in DOMAIN words PROVE \E l \in DOMAIN new : new[l] = words[k]
    BY DEF Range
  <2>2. CASE k <= i
    <3>1. k \in DOMAIN new /\ new[k] = words[k]
      BY <2>1, <2>2
    <3> QED BY <3>1
  <2>3. CASE ~(k <= i)
    <3>1. k + 1 \in DOMAIN new /\ new[k + 1] = words[k]
      BY <2>1, <2>3
    <3> QED BY <3>1
  <2> QED BY <2>2, <2>3
<1>2. word \notin U /\ \A k \in DOMAIN words : words[k] \in S <=> words[k] \in U
  BY <1>1 DEF Range
<1>3. Own(new) = Own(words)
  <2>1. Among(new, U) = Among(words, S)
    <3> HIDE DEF S, U
    <3> QED BY <1>2, AmongInserted
  <2> QED BY <2>1 DEF Own
<1>4. ASSUME NEW other \in Inserted, other # word
      PROVE  Count(new, other) = Count(words, other)
  <2> DEFINE V == {other}
  <2>1. word \notin V /\ \A k \in DOMAIN words : words[k] \in V <=> words[k] \in V
    BY <1>4
  <2> HIDE DEF V
  <2>2. Among(new, V) = Among(words, V)
    BY <2>1, AmongInserted
  <2> QED BY <2>2, CountIs DEF V
<1>5. ASSUME Count(words, word) = 0 PROVE Count(new, word) = 1
  <2>1. word \notin Range(words)
    BY <1>5, CountIs
  <2>2. {k \in DOMAIN new : new[k] = word} = {i + 1}
    <3>1. /\ Len(words) \in Nat /\ DOMAIN words = 1..Len(words) /\ i \in 0..Len(words)
          /\ DOMAIN new = 1..(Len(words) + 1) /\ new[i + 1] = word
          /\ \A k \in 1..i : new[k] = words[k]
          /\ \A k \in (i + 1)..Len(words) : new[k + 1] = words[k]
      BY DEF IsInserted
    <3>2. \A k \in 1..Len(words) : words[k] # word
      BY <2>1, <3>1 DEF Range
    <3>3. i + 1 \in DOMAIN new
      BY <3>1
    <3>4. ASSUME NEW k \in DOMAIN new, new[k] = word PROVE k = i + 1
      <4>1. ~(k <= i)
        BY <3>1, <3>2, <3>4
      <4>2. CASE k > i + 1
        <5>1. k - 1 \in (i + 1)..Len(words) /\ (k - 1) + 1 = k /\ k - 1 \in 1..Len(words)
          BY <3>1, <4>2
        <5>2. new[k] = words[k - 1]
          BY <3>1, <5>1
        <5> QED BY <3>2, <3>4, <5>1, <5>2
      <4> QED BY <3>1, <4>1, <4>2
    <3> QED BY <3>1, <3>3, <3>4
  <2>3. Cardinality({i + 1}) = 1
    BY FS_Singleton
  <2> QED BY <2>2, <2>3 DEF Count
<1> QED BY <1>3, <1>4, <1>5

(* A text without inserted words is the client's altogether. *)
LEMMA OwnIs ==
    ASSUME NEW words \in Seq(Words), Range(words) \cap Inserted = {}
    PROVE  Own(words) = words /\ \A word \in Inserted : Count(words, word) = 0
<1> DEFINE S == Range(words) \ Inserted
<1>1. \A i \in DOMAIN words : words[i] \in S
  BY DEF Range
<1>2. Among(words, S) = words
  <2> HIDE DEF S
  <2> QED BY <1>1, AmongAll
<1>3. ASSUME NEW word \in Inserted PROVE Count(words, word) = 0
  BY CountIs
<1> QED BY <1>2, <1>3 DEF Own

(* insertContentAfterMarker, with a word and with nothing. *)
LEMMA InsertAfterIs ==
    ASSUME NEW words \in Seq(Words), NEW marker
    PROVE  /\ InsertAfter(words, marker, <<>>) = words
           /\ \A word \in Words :
                /\ InsertAfter(words, marker, <<word>>) \in Seq(Words)
                /\ \E i : IsInserted(InsertAfter(words, marker, <<word>>), words, i, word)
<1> DEFINE i == FirstOf({marker}, words, 1)
<1>1. i \in 0..Len(words) /\ Len(words) \in Nat
  BY FirstOfIs
<1>2. \A new : InsertAfter(words, marker, new) =
        SubSeq(words, 1, i) \o new \o SubSeq(words, i + 1, Len(words))
  BY DEF InsertAfter
<1> HIDE DEF i
<1>3. InsertAfter(words, marker, <<>>) = words
  BY <1>1, <1>2, NothingInserted
<1>4. ASSUME NEW word \in Words
      PROVE  /\ InsertAfter(words, marker, <<word>>) \in Seq(Words)
             /\ \E j : IsInserted(InsertAfter(words, marker, <<word>>), words, j, word)
  BY <1>1, <1>2, InsertedIs
<1> QED BY <1>3, <1>4

(* A section removed is nothing added. *)
LEMMA RemovedRange ==
    ASSUME NEW words \in Seq(Words), NEW heading, NEW headings
    PROVE  Range(RemoveSection(words, heading, headings)) \subseteq Range(words)
<1> DEFINE i == FirstOf({heading}, words, 1)
           at == FirstOf(headings, words, i + 1)
           j == IF i = 0 THEN 0 ELSE at
           a == SubSeq(words, 1, i - 1)
           b == SubSeq(words, j, Len(words))
<1>1. i \in 0..Len(words) /\ Len(words) \in Nat
  BY FirstOfIs
<1>2. i # 0 => at \in {0} \cup (i + 1)..Len(words)
  <2> HIDE DEF i
  <2>1. i + 1 \in Nat \ {0}
    BY <1>1
  <2> QED BY <2>1, FirstOfIs
<1>3. RemoveSection(words, heading, headings) = IF j = 0 THEN words ELSE a \o b
  BY DEF RemoveSection
<1> HIDE DEF i, at
<1>4. ASSUME j # 0
      PROVE  /\ a \in Seq(Words) /\ \A k \in DOMAIN a : a[k] \in Range(words)
             /\ b \in Seq(Words) /\ \A k \in DOMAIN b : b[k] \in Range(words)
  <2>1. j \in 1..Len(words) /\ i \in 1..Len(words)
    BY <1>1, <1>2, <1>4
  <2> HIDE DEF j
  <2>2. /\ a \in Seq(Words) /\ Len(a) = i - 1 /\ \A k \in 1..(i - 1) : a[k] = words[k]
        /\ b \in Seq(Words) /\ Len(b) = Len(words) - j + 1
        /\ \A k \in 1..(Len(words) - j + 1) : b[k] = words[j + k - 1]
    BY <1>1, <2>1
  <2> HIDE DEF a, b
  <2>3. ASSUME NEW k \in DOMAIN a PROVE a[k] \in Range(words)
    <3>1. k \in DOMAIN words /\ a[k] = words[k]
      BY <1>1, <2>1, <2>2
    <3> QED BY <3>1 DEF Range
  <2>4. ASSUME NEW k \in DOMAIN b PROVE b[k] \in Range(words)
    <3>1. k \in 1..(Len(words) - j + 1)
      BY <1>1, <2>1, <2>2
    <3>2. j + k - 1 \in DOMAIN words
      BY <1>1, <2>1, <3>1
    <3>3. b[k] = words[j + k - 1]
      BY <2>2, <3>1
    <3> QED BY <3>2, <3>3 DEF Range
  <2> QED BY <2>2, <2>3, <2>4
<1> HIDE DEF j, a, b
<1>5. CASE j = 0
  BY <1>3, <1>5
<1>6. CASE j # 0
  <2>1. \A k \in DOMAIN (a \o b) : (a \o b)[k] \in Range(words)
    <3> SUFFICES ASSUME NEW k \in DOMAIN (a \o b) PROVE (a \o b)[k] \in Range(words)
      OBVIOUS
    <3>1. /\ Len(a) \in Nat /\ Len(b) \in Nat /\ k \in 1..(Len(a) + Len(b))
          /\ DOMAIN a = 1..Len(a) /\ DOMAIN b = 1..Len(b)
      BY <1>4, <1>6
    <3>2. CASE k <= Len(a)
      BY <1>4, <1>6, <3>1, <3>2
    <3>3. CASE ~(k <= Len(a))
      <4>1. k - Len(a) \in DOMAIN b /\ (a \o b)[k] = b[k - Len(a)]
        BY <1>4, <1>6, <3>1, <3>3
      <4> QED BY <1>4, <1>6, <4>1
    <3> QED BY <3>2, <3>3
  <2> QED BY <1>3, <1>6, <2>1 DEF Range
<1> QED BY <1>5, <1>6

(* How often the words that the processors insert are in a text: the words *)
(* of the tool c times, the agent's rules r times.                         *)
Told(words, c, r) ==
    /\ words \in Seq(Words)
    /\ Count(words, "##tool") = c /\ Count(words, "capability") = c /\ Count(words, "rule") = c
    /\ Count(words, "agent_rules") = r /\ Count(words, "language") = 0

(* A text of the client's has none of them. *)
LEMMA ToldNothing ==
    ASSUME NEW words \in Seq(Words)
    PROVE  Told(words, 0, 0) <=> Range(words) \cap Inserted = {}
<1>1. Told(words, 0, 0) <=> \A word \in Inserted : Count(words, word) = 0
  BY DEF Told, Inserted
<1>2. (\A word \in Inserted : Count(words, word) = 0) <=> \A word \in Inserted : word \notin Range(words)
  BY CountIs
<1> QED BY <1>1, <1>2

(* The tool comes with its description, its capability and its rule. *)
LEMMA ToolsTold ==
    ASSUME NEW words \in Seq(Words), Told(words, 0, 0), NEW ready
    PROVE  /\ \E c \in {0, 1} : Told(InsertTools(words, ready), c, 0)
           /\ Own(InsertTools(words, ready)) = Own(words)
<1> DEFINE new(word) == IF session.tools /\ ready THEN <<word>> ELSE <<>>
           described == InsertAfter(words, "# Tools", new("##tool"))
           capable == InsertAfter(described, "----CAPABILITIES", new("capability"))
           ruled == InsertAfter(capable, "----RULES", new("rule"))
<1>1. InsertTools(words, ready) = ruled
  BY DEF InsertTools
<1>2. CASE ~(session.tools /\ ready)
  <2>1. new("##tool") = <<>> /\ new("capability") = <<>> /\ new("rule") = <<>>
    BY <1>2
  <2> HIDE DEF new
  <2>2. described = words
    BY <2>1, InsertAfterIs
  <2>3. capable = words
    BY <2>1, <2>2, InsertAfterIs
  <2>4. ruled = words
    BY <2>1, <2>3, InsertAfterIs
  <2> QED BY <1>1, <2>4
<1>3. CASE session.tools /\ ready
  <2>1. new("##tool") = <<"##tool">> /\ new("capability") = <<"capability">> /\ new("rule") = <<"rule">>
    BY <1>3
  <2> HIDE DEF new
  <2>2. /\ "##tool" \in Inserted /\ "capability" \in Inserted /\ "rule" \in Inserted
        /\ "agent_rules" \in Inserted /\ "language" \in Inserted /\ Inserted \subseteq Words
    BY PromptAssumption DEF Inserted
  <2>3. described \in Seq(Words) /\ \E i : IsInserted(described, words, i, "##tool")
    BY <2>1, <2>2, InsertAfterIs
  <2>4. PICK i : IsInserted(described, words, i, "##tool")
    BY <2>3
  <2> HIDE DEF described
  <2>5. capable \in Seq(Words) /\ \E j : IsInserted(capable, described, j, "capability")
    BY <2>1, <2>2, <2>3, InsertAfterIs
  <2>6. PICK j : IsInserted(capable, described, j, "capability")
    BY <2>5
  <2> HIDE DEF capable
  <2>7. ruled \in Seq(Words) /\ \E k : IsInserted(ruled, capable, k, "rule")
    BY <2>1, <2>2, <2>5, InsertAfterIs
  <2>8. PICK k : IsInserted(ruled, capable, k, "rule")
    BY <2>7
  <2> HIDE DEF ruled
  <2>9. /\ Own(described) = Own(words) /\ Count(described, "##tool") = 1
        /\ \A other \in Inserted : other # "##tool" => Count(described, other) = Count(words, other)
    BY <2>2, <2>3, <2>4, InsertedWord DEF Told
  <2>10. Count(described, "capability") = 0 /\ Count(described, "rule") = 0
    BY <2>2, <2>9 DEF Told
  <2>11. /\ Own(capable) = Own(words) /\ Count(capable, "capability") = 1
         /\ \A other \in Inserted : other # "capability" => Count(capable, other) = Count(described, other)
    BY <2>2, <2>3, <2>5, <2>6, <2>9, <2>10, InsertedWord
  <2>12. Count(capable, "rule") = 0
    BY <2>2, <2>10, <2>11
  <2>13. /\ Own(ruled) = Own(words) /\ Count(ruled, "rule") = 1
         /\ \A other \in Inserted : other # "rule" => Count(ruled, other) = Count(capable, other)
    BY <2>2, <2>5, <2>7, <2>8, <2>11, <2>12, InsertedWord
  <2>14. Count(words, "agent_rules") = 0 /\ Count(words, "language") = 0
    BY DEF Told
  <2>15. /\ Count(ruled, "##tool") = 1 /\ Count(ruled, "capability") = 1
         /\ Count(ruled, "agent_rules") = 0 /\ Count(ruled, "language") = 0
    BY <2>2, <2>9, <2>11, <2>13, <2>14
  <2>16. Told(ruled, 1, 0)
    BY <2>7, <2>13, <2>15 DEF Told
  <2> QED BY <1>1, <2>13, <2>16
<1> QED BY <1>2, <1>3

(* A word at the end. *)
LEMMA AtTheEnd ==
    ASSUME NEW words \in Seq(Words), NEW word \in Words
    PROVE  /\ words \o <<word>> = Append(words, word) /\ Append(words, word) \in Seq(Words)
           /\ IsInserted(Append(words, word), words, Len(words), word)
<1>1. Len(words) \in Nat /\ <<word>> \in Seq(Words)
  OBVIOUS
<1>2. /\ Append(words, word) \in Seq(Words) /\ DOMAIN Append(words, word) = 1..(Len(words) + 1)
      /\ Append(words, word)[Len(words) + 1] = word
      /\ \A k \in 1..Len(words) : Append(words, word)[k] = words[k]
  OBVIOUS
<1>3. IsInserted(Append(words, word), words, Len(words), word)
  BY <1>1, <1>2 DEF IsInserted
<1>4. words \o <<word>> = Append(words, word)
  BY <1>1
<1> QED BY <1>2, <1>3, <1>4

(* The system message that UpdateSystemMsg makes. *)
Contents(words) == [form |-> "contents", parts |-> <<Text(words)>>]

(* A content that a processor has written. *)
LEMMA ContentsIs ==
    ASSUME NEW words \in Seq(Words)
    PROVE  /\ Contents(words) \in ContentType
           /\ OneText(Contents(words)) /\ Texts(Contents(words))[1].text = words
<1> DEFINE parts == <<Text(words)>>
           S == {part \in Range(parts) : part.kind = "text"}
<1>1. Text(words) \in PartType /\ Text(words).kind = "text" /\ Text(words).text = words
  BY DEF Text, PartType
<1>2. parts \in Seq(PartType) /\ DOMAIN parts = {1} /\ parts[1] = Text(words) /\ Len(parts) = 1
  BY <1>1
<1>3. Contents(words) \in ContentType
  BY <1>2 DEF Contents, ContentType, Forms
<1>4. Contents(words).parts = parts /\ Contents(words).form = "contents"
  BY DEF Contents
<1> HIDE DEF parts
<1>5. \A i \in DOMAIN parts : parts[i] \in S
  BY <1>1, <1>2 DEF Range
<1>6. Among(parts, S) = parts
  <2> HIDE DEF S
  <2> QED BY <1>2, <1>5, AmongAll
<1>7. Texts(Contents(words)) = parts
  BY <1>4, <1>6 DEF Texts
<1> QED BY <1>1, <1>2, <1>3, <1>4, <1>7 DEF OneText

(* A text of a content is one of its parts. *)
LEMMA TextFrom ==
    ASSUME NEW content \in ContentType, NEW k \in DOMAIN Texts(content)
    PROVE  \E j \in DOMAIN content.parts : Texts(content)[k] = content.parts[j]
<1> DEFINE parts == content.parts
           S == {part \in Range(parts) : part.kind = "text"}
<1>1. parts \in Seq(PartType)
  BY DEF ContentType
<1>2. Texts(content) = Among(parts, S)
  BY DEF Texts
<1> HIDE DEF parts, S
<1>3. IsFilterOf(Texts(content), parts, S, Ascending(PlacesOf(parts, S)))
  BY <1>1, <1>2, AmongIs
<1>4. \E j \in DOMAIN parts : Texts(content)[k] = parts[j]
  BY <1>3 DEF IsFilterOf, PlacesOf
<1> QED BY <1>4 DEF parts

(* The system message as the client sent it, and whether the processors    *)
(* write it.                                                               *)
Before == GetSystemMsg(messages)
Original == Texts(Before.content)[1].text
Ours == session.modify /\ OneText(Before.content) /\ Processor = "RagWithRule"

RuleChain == {"filter", "task", "tools", "rules"}

(* What has been written into the system message at each stage.            *)
Stage ==
    /\ pc \in {"filter", "task", "tools"} => Told(SystemText, 0, 0)
    /\ pc = "rules" => \E c \in {0, 1} : Told(SystemText, c, 0)
    /\ pc \in {"assemble"} \cup Done =>
         /\ \E c, r \in {0, 1} : Told(SystemText, c, r)
         /\ system.content = Contents(SystemText)

SystemIs ==
    pc \in InChain \cup Done /\ Processor # "Direct" =>
        /\ ~Ours => system = Before
        /\ Ours => /\ OneText(system.content)
                   /\ Matches(session.modesOff) \/ Own(SystemText) = Original
                   /\ Stage

SInv == SystemIs /\ (pc \in RuleChain => Processor = "RagWithRule")

(* The client's system message is a message without inserted words. *)
LEMMA BeforeIs ==
    ASSUME PInv
    PROVE  /\ Before \in MessageType /\ Before.content.form # "contents"
           /\ OneText(Before.content) => Original \in Seq(Words) /\ Range(Original) \cap Inserted = {}
<1>1. Before \in MessageType
  BY StatesTypes, SystemMsgIs DEF Before
<1>2. /\ Before.content.form # "contents"
      /\ \A j \in DOMAIN Before.content.parts : Range(Before.content.parts[j].text) \cap Inserted = {}
  <2>1. CASE FirstSystem(messages) = 0
    <3>1. Before = AddedSystem
      BY <2>1 DEF Before, GetSystemMsg
    <3>2. AddedSystem.content.form = "string" /\ AddedSystem.content.parts = <<Text(<<>>)>>
      BY DEF AddedSystem, String
    <3>3. Text(<<>>).text = <<>> /\ Range(<<>>) = {}
      BY DEF Text, Range
    <3>4. "string" # "contents"
      OBVIOUS
    <3> QED BY <3>1, <3>2, <3>3, <3>4
  <2>2. CASE FirstSystem(messages) # 0
    <3> DEFINE i == FirstSystem(messages)
    <3>1. Before = messages[i]
      BY <2>2 DEF Before, GetSystemMsg
    <3>2. i \in DOMAIN messages /\ messages[i].role = "system"
      BY <2>2, StatesTypes, Placed
    <3> HIDE DEF i
    <3>3. messages[i] \in ClientMessage
      BY <3>2 DEF PInv, Conversation
    <3> QED BY <3>1, <3>2, <3>3 DEF ClientMessage
  <2> QED BY <2>1, <2>2
<1>3. ASSUME OneText(Before.content)
      PROVE  Original \in Seq(Words) /\ Range(Original) \cap Inserted = {}
  <2>1. Before.content \in ContentType
    BY <1>1, MessageIs
  <2>2. 1 \in DOMAIN Texts(Before.content) /\ Texts(Before.content)[1] \in PartType
    BY <1>3, <2>1, TextsIs DEF OneText
  <2>3. \E j \in DOMAIN Before.content.parts : Texts(Before.content)[1] = Before.content.parts[j]
    BY <2>1, <2>2, TextFrom
  <2>4. Original \in Seq(Words)
    BY <2>2 DEF Original, PartType
  <2> QED BY <1>2, <2>3, <2>4 DEF Original
<1> QED BY <1>1, <1>2, <1>3

(* What depends on the session and the messages only. *)
LEMMA SystemSame ==
    ASSUME UNCHANGED <<session, messages>>
    PROVE  /\ Processor' = Processor /\ Before' = Before /\ Original' = Original
           /\ Ours' <=> Ours
           /\ UNCHANGED agent => (Matches(session.modesOff)' <=> Matches(session.modesOff))
<1>1. Processor' = Processor
  BY SameProcessor
<1>2. Before' = Before
  BY DEF Before
<1> QED BY <1>1, <1>2 DEF Original, Ours, Matches, PromptMode

(* A step that leaves the system message alone. *)
LEMMA SystemAlone ==
    ASSUME SInv, UNCHANGED <<session, messages, agent, system>>,
           pc' \in InChain \cup Done => pc \in InChain \cup Done,
           pc' \in {"filter", "task", "tools"} => pc \in {"filter", "task", "tools"},
           pc' = "rules" => pc = "rules",
           pc' \in {"assemble"} \cup Done => pc \in {"assemble"} \cup Done
    PROVE  SInv'
<1>1. /\ Processor' = Processor /\ Before' = Before /\ Original' = Original
      /\ Ours' <=> Ours
      /\ Matches(session.modesOff)' <=> Matches(session.modesOff)
  BY SystemSame
<1>2. SystemText' = SystemText
  BY DEF SystemText
<1>3. Stage => Stage'
  BY <1>2 DEF Stage
<1>4. OneText(system.content)' <=> OneText(system.content)
  OBVIOUS
<1>5. SystemIs'
  BY <1>1, <1>2, <1>3, <1>4 DEF SInv, SystemIs
<1> QED BY <1>1, <1>5 DEF SInv, RuleChain

(* A step that writes it. *)
LEMMA SystemWritten ==
    ASSUME PInv, SInv, UNCHANGED <<session, messages, agent>>, Ours,
           NEW words \in Seq(Words), UpdateSystemMsg(words),
           Matches(session.modesOff) \/ Own(words) = Original,
           pc' = "task" => Told(words, 0, 0),
           pc' = "rules" => \E c \in {0, 1} : Told(words, c, 0),
           pc' = "assemble" => \E c, r \in {0, 1} : Told(words, c, r),
           pc' \in {"task", "rules", "assemble"}
    PROVE  SInv'
<1>1. /\ Processor' = Processor /\ Original' = Original /\ Ours'
      /\ Matches(session.modesOff)' <=> Matches(session.modesOff)
      /\ Processor = "RagWithRule" /\ session.modify
  BY SystemSame DEF Ours
<1>2. system' = [system EXCEPT !.content = Contents(words)]
  BY <1>1 DEF UpdateSystemMsg, Contents
<1>3. system'.content = Contents(words)
  BY <1>2, ContentsIs, StatesTypes, MessageIs
<1>4. OneText(system'.content) /\ Texts(system'.content)[1].text = words
  BY <1>3, ContentsIs
<1>5. OneText(system.content)' /\ SystemText' = words
  BY <1>4 DEF SystemText
<1>6. Stage'
  BY <1>3, <1>5 DEF Stage, Done
<1>7. Matches(session.modesOff)' \/ Own(SystemText') = Original'
  BY <1>1, <1>5
<1>8. SystemIs'
  BY <1>1, <1>5, <1>6, <1>7 DEF SystemIs
<1> QED BY <1>1, <1>8 DEF SInv

(* A step that would not write a message which is not for the processors.  *)
LEMMA SystemNotOurs ==
    ASSUME SInv, UNCHANGED <<session, messages, agent>>, ~Ours,
           pc \in RuleChain, pc' \in RuleChain \cup {"assemble"},
           (OneText(system.content) /\ session.modify) \/ UNCHANGED system
    PROVE  SInv'
<1>1. Processor' = Processor /\ Before' = Before /\ ~Ours'
  BY SystemSame
<1>2. Processor = "RagWithRule" /\ system = Before
  BY DEF SInv, SystemIs, RuleChain, InChain
<1>3. ~(OneText(Before.content) /\ session.modify)
  BY <1>2 DEF Ours
<1>4. system' = system
  BY <1>2, <1>3
<1> QED BY <1>1, <1>2, <1>4 DEF SInv, SystemIs

(* NewPromptMsg takes the system message over. *)
LEMMA ArrangeSystem == ASSUME PInv, Arrange PROVE SInv'
<1>1. UNCHANGED <<session, messages>> /\ Processor # "Direct"
  BY DEF Arrange
<1>2. /\ Processor' = Processor /\ Before' = Before /\ Original' = Original
      /\ Ours' <=> Ours
  BY <1>1, SystemSame
<1>3. CASE LastUser(messages) = 0
  <2>1. pc' = "failed"
    BY <1>3 DEF Arrange, Goes
  <2> QED BY <2>1 DEF SInv, SystemIs, InChain, Done, RuleChain
<1>4. CASE LastUser(messages) # 0
  <2>1. /\ system' = Before
        /\ \/ pc' = "assemble" /\ Processor = "RagOnly"
           \/ pc' = "filter" /\ Processor # "RagOnly"
    BY <1>4 DEF Arrange, Goes, Before
  <2>2. Processor \in {"Direct", "RagOnly", "RagWithRule"}
    BY DEF Processor
  <2>3. CASE Ours
    <3>1. Processor = "RagWithRule" /\ OneText(Before.content)
      BY <2>3 DEF Ours
    <3>2. pc' = "filter"
      BY <2>1, <3>1
    <3>3. OneText(system.content)' /\ SystemText' = Original
      BY <2>1, <3>1 DEF SystemText, Original
    <3>4. Original \in Seq(Words) /\ Range(Original) \cap Inserted = {}
      BY <3>1, BeforeIs
    <3>5. Told(Original, 0, 0) /\ Own(Original) = Original
      BY <3>4, ToldNothing, OwnIs
    <3>6. Stage'
      BY <3>2, <3>3, <3>5 DEF Stage, Done
    <3> QED BY <1>2, <2>3, <3>1, <3>3, <3>5, <3>6 DEF SInv, SystemIs
  <2>4. CASE ~Ours
    BY <1>1, <1>2, <2>1, <2>2, <2>4 DEF SInv, SystemIs, RuleChain
  <2> QED BY <2>3, <2>4
<1> QED BY <1>3, <1>4

(* Sections may go, and nothing comes. *)
LEMMA FilterSystem == ASSUME PInv, SInv, Filter PROVE SInv'
<1>1. /\ pc = "filter" /\ pc' = "task" /\ FilterModes
      /\ UNCHANGED <<session, messages, agent>>
  BY DEF Filter, Goes, Chain
<1> DEFINE one == RemoveSection(SystemText, "##switch_mode", SubHeadings)
           two == RemoveSection(one, "----MODES", Headings)
<1>2. CASE ~(Matches(session.modesOff) /\ OneText(system.content))
  <2>1. UNCHANGED system
    BY <1>1, <1>2 DEF FilterModes
  <2> QED BY <1>1, <2>1, SystemAlone DEF InChain, Done
<1>3. CASE Matches(session.modesOff) /\ OneText(system.content)
  <2>1. UpdateSystemMsg(two)
    BY <1>1, <1>3 DEF FilterModes
  <2>2. CASE Ours
    <3>1. Told(SystemText, 0, 0)
      BY <1>1, <2>2 DEF SInv, SystemIs, Stage, InChain, RuleChain
    <3>2. SystemText \in Seq(Words) /\ Range(SystemText) \cap Inserted = {}
      BY <3>1, ToldNothing DEF Told
    <3>3. one \in Seq(Words) /\ Range(one) \subseteq Range(SystemText)
      BY <3>2, RemoveType, RemovedRange
    <3> HIDE DEF one
    <3>4. two \in Seq(Words) /\ Range(two) \subseteq Range(one)
      BY <3>3, RemoveType, RemovedRange
    <3> HIDE DEF two
    <3>5. Told(two, 0, 0)
      BY <3>2, <3>3, <3>4, ToldNothing
    <3> QED BY <1>1, <1>3, <2>1, <2>2, <3>4, <3>5, SystemWritten
  <2>3. CASE ~Ours
    <3>1. (OneText(system.content) /\ session.modify) \/ UNCHANGED system
      BY <1>3, <2>1 DEF UpdateSystemMsg
    <3> QED BY <1>1, <2>3, <3>1, SystemNotOurs DEF RuleChain
  <2> QED BY <2>2, <2>3
<1> QED BY <1>2, <1>3

(* The tool's three words come together or not at all. *)
LEMMA AdaptSystem == ASSUME PInv, SInv, AdaptTools PROVE SInv'
<1>1. /\ pc = "tools" /\ pc' = "rules" /\ UNCHANGED <<session, messages, agent>>
  BY DEF AdaptTools, Goes, Chain
<1>2. CASE ~Ours
  <2>1. (OneText(system.content) /\ session.modify) \/ UNCHANGED system
    BY DEF AdaptTools, UpdateSystemMsg
  <2> QED BY <1>1, <1>2, <2>1, SystemNotOurs DEF RuleChain
<1>3. CASE Ours
  <2>1. /\ OneText(system.content) /\ Told(SystemText, 0, 0)
        /\ Matches(session.modesOff) \/ Own(SystemText) = Original
    BY <1>1, <1>3 DEF SInv, SystemIs, Stage, InChain, RuleChain
  <2>2. CASE ~UNCHANGED system
    <3>1. PICK ready \in BOOLEAN : UpdateSystemMsg(InsertTools(SystemText, ready))
      BY <2>2 DEF AdaptTools
    <3> DEFINE new == InsertTools(SystemText, ready)
    <3>2. SystemText \in Seq(Words)
      BY <2>1 DEF Told
    <3>3. /\ new \in Seq(Words) /\ Own(new) = Own(SystemText)
          /\ \E c \in {0, 1} : Told(new, c, 0)
      BY <2>1, <3>2, ToolsTold, ToolsType
    <3>4. UpdateSystemMsg(new)
      BY <3>1
    <3> HIDE DEF new
    <3> QED BY <1>1, <1>3, <2>1, <3>3, <3>4, SystemWritten
  <2>3. CASE UNCHANGED system
    <3>1. /\ Processor' = Processor /\ Original' = Original /\ Ours'
          /\ Matches(session.modesOff)' <=> Matches(session.modesOff)
          /\ Processor = "RagWithRule"
      BY <1>1, <1>3, SystemSame DEF Ours
    <3>2. SystemText' = SystemText /\ OneText(system.content)'
      BY <2>1, <2>3 DEF SystemText
    <3>3. Stage'
      BY <1>1, <2>1, <3>2 DEF Stage, Done
    <3> QED BY <2>1, <3>1, <3>2, <3>3 DEF SInv, SystemIs
  <2> QED BY <2>2, <2>3
<1> QED BY <1>2, <1>3

(* The agent's rules come last. *)
LEMMA InjectSystem == ASSUME PInv, SInv, InjectRules PROVE SInv'
<1>1. /\ pc = "rules" /\ pc' = "assemble" /\ UNCHANGED <<session, messages, agent>>
  BY DEF InjectRules, Goes, Chain
<1>2. CASE ~Ours
  <2>1. (OneText(system.content) /\ session.modify) \/ UNCHANGED system
    BY DEF InjectRules, UpdateSystemMsg
  <2> QED BY <1>1, <1>2, <2>1, SystemNotOurs DEF RuleChain
<1>3. CASE Ours
  <2>1. /\ OneText(system.content) /\ \E c \in {0, 1} : Told(SystemText, c, 0)
        /\ Matches(session.modesOff) \/ Own(SystemText) = Original
    BY <1>1, <1>3 DEF SInv, SystemIs, Stage, InChain, RuleChain
  <2>2. PICK c \in {0, 1} : Told(SystemText, c, 0)
    BY <2>1
  <2>3. SystemText \in Seq(Words)
    BY <2>2 DEF Told
  <2> DEFINE new == SystemText \o (IF Matches(session.rules) THEN <<"agent_rules">> ELSE <<>>)
  <2>4. UpdateSystemMsg(new)
    BY <2>1 DEF InjectRules
  <2>5. /\ new \in Seq(Words) /\ Own(new) = Own(SystemText)
        /\ \E r \in {0, 1} : Told(new, c, r)
    <3>1. CASE ~Matches(session.rules)
      <4>1. new = SystemText
        BY <2>3, <3>1
      <4> QED BY <2>2, <2>3, <4>1
    <3>2. CASE Matches(session.rules)
      <4> DEFINE words == SystemText
      <4>1. new = words \o <<"agent_rules">>
        BY <3>2
      <4> HIDE DEF new, words
      <4>2. words \in Seq(Words) /\ Told(words, c, 0)
        BY <2>2, <2>3 DEF words
      <4>3. "agent_rules" \in Words /\ "agent_rules" \in Inserted
        BY PromptAssumption DEF Inserted
      <4>4. new \in Seq(Words) /\ IsInserted(new, words, Len(words), "agent_rules")
        BY <4>1, <4>2, <4>3, AtTheEnd
      <4>5. Count(words, "agent_rules") = 0
        BY <4>2 DEF Told
      <4>6. /\ Own(new) = Own(words) /\ Count(new, "agent_rules") = 1
            /\ \A other \in Inserted : other # "agent_rules" => Count(new, other) = Count(words, other)
        BY <4>2, <4>3, <4>4, <4>5, InsertedWord
      <4>7. Told(new, c, 1)
        BY <4>2, <4>4, <4>6 DEF Told, Inserted
      <4> QED BY <4>4, <4>6, <4>7 DEF words
    <3> QED BY <3>1, <3>2
  <2> HIDE DEF new
  <2> QED BY <1>1, <1>3, <2>1, <2>4, <2>5, SystemWritten
<1> QED BY <1>2, <1>3

(* Every step keeps what is known of the system message. *)
LEMMA StepSInv == ASSUME PInv, SInv, [Next]_vars PROVE SInv'
<1>1. CASE UNCHANGED vars
  <2>1. UNCHANGED <<session, messages, agent, system, pc>>
    BY <1>1 DEF vars, promptMsg
  <2> QED BY <2>1, SystemAlone
<1>2. CASE Pass
  <2>1. Processor = "Direct" /\ pc' = "check" /\ UNCHANGED <<session, messages>>
    BY <1>2 DEF Pass, Goes
  <2>2. Processor' = "Direct"
    BY <2>1, SameProcessor
  <2> QED BY <2>1, <2>2 DEF SInv, SystemIs, RuleChain
<1>3. CASE ReplaceTask
  <2>1. pc = "task" /\ pc' = "tools" /\ UNCHANGED <<session, messages, agent, system>>
    BY <1>3 DEF ReplaceTask, Goes, Chain
  <2> QED BY <2>1, SystemAlone DEF InChain, Done
<1>4. CASE Assemble
  <2>1. pc = "assemble" /\ pc' = "check" /\ UNCHANGED <<session, messages, agent, system>>
    BY <1>4 DEF Assemble, Goes, promptMsg
  <2> QED BY <2>1, SystemAlone DEF InChain, Done
<1>5. CASE Check
  <2>1. /\ pc = "check" /\ pc' \in {"refused", "sent"}
        /\ UNCHANGED <<session, messages, agent, system>>
    BY <1>5 DEF Check, Goes, promptMsg
  <2> QED BY <2>1, SystemAlone DEF InChain, Done
<1>6. CASE NextTurn
  <2>1. pc' = "arrange"
    BY <1>6 DEF NextTurn, Goes
  <2> QED BY <2>1 DEF SInv, SystemIs, InChain, Done, RuleChain
<1>7. CASE InsertionPanics
  <2>1. pc' = "failed"
    BY <1>7 DEF InsertionPanics, Goes
  <2> QED BY <2>1 DEF SInv, SystemIs, InChain, Done, RuleChain
<1> QED BY <1>1, <1>2, <1>3, <1>4, <1>5, <1>6, <1>7, ArrangeSystem, FilterSystem, AdaptSystem,
        InjectSystem DEF Next

(* It is known in every state. *)
THEOREM SystemInvariance == Spec => []SInv
<1>1. Init => SInv
  BY DEF Init, SInv, SystemIs, InChain, Done, RuleChain
<1>2. PInv /\ SInv /\ [Next]_vars => SInv'
  BY StepSInv
<1> QED BY <1>1, <1>2, Invariance, PTL DEF Spec

(* What the language adds to a message that a processor has written. *)
LEMMA SpokenWords ==
    ASSUME PInv, NEW m \in MessageType, NEW words \in Seq(Words), m.content = Contents(words)
    PROVE  LET said == Spoken(m).content.parts[1].text
           IN  said = words \/ said = Append(words, "language")
<1>1. m.content.parts = <<Text(words)>> /\ Text(words).text = words
  BY DEF Contents, Text
<1>2. CASE Spoken(m) = m
  BY <1>1, <1>2
<1>3. CASE Spoken(m) # m
  <2> DEFINE n == Len(m.content.parts)
             part == m.content.parts[n]
             said == [part EXCEPT !.text = Append(@, "language")]
             new == [m.content EXCEPT !.parts = [m.content.parts EXCEPT ![n] = said]]
  <2>1. Spoken(m) = [m EXCEPT !.content = new]
    BY <1>3 DEF Spoken
  <2>2. n = 1 /\ part = Text(words)
    BY <1>1
  <2>3. said.text = Append(words, "language")
    BY <2>2 DEF Text
  <2> HIDE DEF said, part
  <2>4. new.parts[1] = said
    <3>1. [m.content.parts EXCEPT ![n] = said][1] = said
      BY <1>1, <2>2
    <3>2. new.parts = [m.content.parts EXCEPT ![n] = said]
      BY DEF Contents
    <3> QED BY <3>1, <3>2
  <2> HIDE DEF new, n
  <2>5. Spoken(m).content = new
    BY <2>1 DEF MessageType
  <2> QED BY <2>3, <2>4, <2>5
<1> QED BY <1>2, <1>3

(* What is known of it when the prompt is sent. *)
LEMMA SystemFollows == PInv /\ SInv => SystemKept
<1> SUFFICES ASSUME PInv, SInv, pc = "sent", Processor # "Direct" PROVE SystemKept
  BY DEF SystemKept
<1> DEFINE words == prompt[1].content.parts[1].text
<1>1. prompt[1] = Spoken(system) /\ system \in MessageType
  BY PromptParts, StatesTypes DEF Done
<1>2. CASE ~Ours
  <2>1. system = Before
    BY <1>2 DEF SInv, SystemIs, Done
  <2>2. Spoken(system) = system
    BY <1>1, <2>1, BeforeIs, SpokenIs
  <2> QED BY <1>1, <1>2, <2>1, <2>2 DEF SystemKept, Ours, Before
<1>3. CASE Ours
  <2>1. /\ Matches(session.modesOff) \/ Own(SystemText) = Original
        /\ \E c, r \in {0, 1} : Told(SystemText, c, r)
        /\ system.content = Contents(SystemText)
    BY <1>3 DEF SInv, SystemIs, Stage, Done
  <2>2. PICK c \in {0, 1}, r \in {0, 1} : Told(SystemText, c, r)
    BY <2>1
  <2> DEFINE text == SystemText
  <2> HIDE DEF text
  <2>3. /\ text \in Seq(Words) /\ Told(text, c, r) /\ system.content = Contents(text)
        /\ Matches(session.modesOff) \/ Own(text) = Original
    BY <2>1, <2>2 DEF text, Told
  <2>4. words = text \/ words = Append(text, "language")
    BY <1>1, <2>3, SpokenWords
  <2> HIDE DEF words
  <2>5. /\ Own(words) = Own(text) /\ Count(words, "language") \in {0, 1}
        /\ \A word \in Inserted \ {"language"} : Count(words, word) = Count(text, word)
    <3>1. CASE words = text
      BY <2>3, <3>1 DEF Told
    <3>2. CASE words = Append(text, "language")
      <4>1. "language" \in Words /\ "language" \in Inserted
        BY PromptAssumption DEF Inserted
      <4>2. words \in Seq(Words) /\ IsInserted(words, text, Len(text), "language")
        BY <2>3, <3>2, <4>1, AtTheEnd
      <4>3. Count(text, "language") = 0
        BY <2>3 DEF Told
      <4>4. /\ Own(words) = Own(text) /\ Count(words, "language") = 1
            /\ \A other \in Inserted : other # "language" => Count(words, other) = Count(text, other)
        BY <2>3, <4>1, <4>2, <4>3, InsertedWord
      <4> QED BY <4>4
    <3> QED BY <2>4, <3>1, <3>2
  <2>6. /\ Count(words, "##tool") = c /\ Count(words, "capability") = c
        /\ Count(words, "rule") = c /\ Count(words, "agent_rules") = r
    BY <2>3, <2>5 DEF Told, Inserted
  <2>7. \A word \in Inserted : Count(words, word) <= 1
    BY <2>5, <2>6 DEF Inserted
  <2>8. Matches(session.modesOff) \/ Own(words) = Original
    BY <2>3, <2>5
  <2> QED BY <1>3, <2>6, <2>7, <2>8 DEF SystemKept, Ours, Before, Original, Own, words
<1> QED BY <1>2, <1>3

(* The system message is the client's where the configuration says so; and *)
(* where it is written, with any texts and tools that are ready or not,    *)
(* nothing of the client's is lost or moved, and the insertions are whole. *)
THEOREM SystemIsKept == Spec => []SystemKept
BY Invariance, SystemInvariance, SystemFollows, PTL

-----------------------------------------------------------------------------
(* Rules that are apart do the same in any order.                          *)

(* The rules of a set do not feed or block each other. *)
Apart(S) ==
    \A r1, r2 \in S : r1 # r2 => {r1.key, r1.value} \cap {r2.key, r2.skip} = {}

(* What becomes of a text under such rules, in whatever order they come:   *)
(* each of its words is replaced by the one rule for it, if that is not    *)
(* skipped.                                                                *)
Applies(rule, word, words) == rule.key = word /\ rule.skip \notin Range(words)
Settle(word, words, S) ==
    IF \E rule \in S : Applies(rule, word, words)
    THEN (CHOOSE rule \in S : Applies(rule, word, words)).value
    ELSE word
Listed(parts) == [form |-> "contents", parts |-> parts]
WithFirst(texts, words) == [texts EXCEPT ![1].text = words]
SettledText(words, S) == [i \in 1..Len(words) |-> Settle(words[i], words, S)]
Settled(content, S) ==
    LET texts == Texts(content)
        words == SettledText(texts[1].text, S)
    IN IF content.form = "null" \/ texts = <<>> \/ words = texts[1].text
       THEN content
       ELSE Listed(WithFirst(texts, words))

(* One word: no two rules apply to it. *)
LEMMA SettleIs ==
    ASSUME NEW S \in SUBSET TaskRuleType, Apart(S), NEW word, NEW words
    PROVE  /\ \A rule \in S : Applies(rule, word, words) => Settle(word, words, S) = rule.value
           /\ (\A rule \in S : ~Applies(rule, word, words)) => Settle(word, words, S) = word
<1>1. ASSUME NEW rule \in S, Applies(rule, word, words)
      PROVE  Settle(word, words, S) = rule.value
  <2> DEFINE chosen == CHOOSE r \in S : Applies(r, word, words)
  <2>1. chosen \in S /\ Applies(chosen, word, words)
    BY <1>1
  <2>2. Settle(word, words, S) = chosen.value
    BY <1>1 DEF Settle
  <2> HIDE DEF chosen
  <2>3. chosen = rule
    BY <1>1, <2>1 DEF Applies, Apart
  <2> QED BY <2>2, <2>3
<1>2. (\A rule \in S : ~Applies(rule, word, words)) => Settle(word, words, S) = word
  BY DEF Settle
<1> QED BY <1>1, <1>2

(* A text: word by word. *)
LEMMA SettledTextIs ==
    ASSUME NEW S \in SUBSET TaskRuleType, Apart(S), NEW words \in Seq(Words)
    PROVE  /\ SettledText(words, S) \in Seq(Words)
           /\ Len(SettledText(words, S)) = Len(words)
           /\ \A i \in 1..Len(words) : SettledText(words, S)[i] = Settle(words[i], words, S)
<1> DEFINE t == SettledText(words, S)
<1>1. t = [i \in 1..Len(words) |-> Settle(words[i], words, S)]
  BY DEF SettledText
<1>2. \A i \in 1..Len(words) : Settle(words[i], words, S) \in Words
  <2> SUFFICES ASSUME NEW i \in 1..Len(words) PROVE Settle(words[i], words, S) \in Words
    OBVIOUS
  <2>1. words[i] \in Words /\ \A rule \in S : rule.value \in Words
    BY DEF TaskRuleType
  <2> QED BY <2>1, SettleIs
<1> HIDE DEF t
<1>3. t \in [1..Len(words) -> Words]
  BY <1>1, <1>2
<1>4. Len(words) \in Nat
  OBVIOUS
<1>5. t \in Seq(Words) /\ Len(t) = Len(words)
  BY <1>3, <1>4
<1> QED BY <1>1, <1>5 DEF t

(* One rule more, which may come last. *)
LEMMA SettleNext ==
    ASSUME NEW S \in SUBSET TaskRuleType, NEW rule \in TaskRuleType, rule \notin S,
           Apart(S \cup {rule}), NEW words \in Seq(Words)
    PROVE  /\ Replace(SettledText(words, S), rule) = SettledText(words, S \cup {rule})
           /\ SettledText(words, S) # words => SettledText(words, S \cup {rule}) # words
<1> DEFINE all == S \cup {rule}
           c == SettledText(words, S)
           d == SettledText(words, all)
<1>1. Apart(S) /\ all \in SUBSET TaskRuleType /\ Apart(all)
  BY DEF Apart
<1>2. \A r \in S : /\ r.key # rule.key /\ r.value # rule.key
                   /\ r.key # rule.skip /\ r.value # rule.skip
  BY DEF Apart
<1> HIDE DEF all
<1>3. /\ c \in Seq(Words) /\ Len(c) = Len(words)
      /\ \A i \in 1..Len(words) : c[i] = Settle(words[i], words, S)
  BY <1>1, SettledTextIs
<1>4. /\ d \in Seq(Words) /\ Len(d) = Len(words)
      /\ \A i \in 1..Len(words) : d[i] = Settle(words[i], words, all)
  BY <1>1, SettledTextIs
<1> HIDE DEF c, d
<1>5. ASSUME NEW i \in 1..Len(words)
      PROVE  /\ \A r \in S : Applies(r, words[i], words) => c[i] = r.value
             /\ (\A r \in S : ~Applies(r, words[i], words)) => c[i] = words[i]
             /\ \A r \in all : Applies(r, words[i], words) => d[i] = r.value
             /\ (\A r \in all : ~Applies(r, words[i], words)) => d[i] = words[i]
  BY <1>1, <1>3, <1>4, SettleIs
<1>6. ASSUME NEW i \in 1..Len(words), NEW w, w \in {rule.key, rule.skip}
      PROVE  c[i] = w <=> words[i] = w
  <2>1. CASE \E r \in S : Applies(r, words[i], words)
    <3>1. PICK r \in S : Applies(r, words[i], words)
      BY <2>1
    <3>2. c[i] = r.value /\ words[i] = r.key
      BY <1>5, <3>1 DEF Applies
    <3> QED BY <1>2, <1>6, <3>2
  <2>2. CASE \A r \in S : ~Applies(r, words[i], words)
    BY <1>5, <2>2
  <2> QED BY <2>1, <2>2
<1>7. rule.skip \in Range(c) <=> rule.skip \in Range(words)
  <2>1. DOMAIN c = 1..Len(words) /\ DOMAIN words = 1..Len(words)
    BY <1>3
  <2> QED BY <1>6, <2>1 DEF Range
<1>8. ASSUME NEW i \in 1..Len(words)
      PROVE  d[i] = IF Applies(rule, words[i], words) THEN rule.value ELSE c[i]
  <2>1. CASE Applies(rule, words[i], words)
    BY <1>5, <2>1 DEF all
  <2>2. CASE ~Applies(rule, words[i], words)
    <3>1. CASE \E r \in S : Applies(r, words[i], words)
      <4>1. PICK r \in S : Applies(r, words[i], words)
        BY <3>1
      <4>2. c[i] = r.value /\ d[i] = r.value
        BY <1>5, <4>1 DEF all
      <4> QED BY <2>2, <4>2
    <3>2. CASE \A r \in S : ~Applies(r, words[i], words)
      <4>1. c[i] = words[i]
        BY <1>5, <3>2
      <4>2. \A r \in all : ~Applies(r, words[i], words)
        BY <2>2, <3>2 DEF all
      <4>3. d[i] = words[i]
        BY <1>5, <4>2
      <4> QED BY <2>2, <4>1, <4>3
    <3> QED BY <3>1, <3>2
  <2> QED BY <2>1, <2>2
<1>9. Replace(c, rule) = d
  <2>1. d = [i \in 1..Len(words) |-> d[i]] /\ c = [i \in 1..Len(words) |-> c[i]]
    BY <1>3, <1>4
  <2>2. CASE rule.skip \in Range(c)
    <3>1. Replace(c, rule) = c
      BY <2>2 DEF Replace
    <3>2. \A i \in 1..Len(words) : d[i] = c[i]
      BY <1>7, <1>8, <2>2 DEF Applies
    <3> QED BY <2>1, <3>1, <3>2
  <2>3. CASE rule.skip \notin Range(c)
    <3>1. Replace(c, rule) =
            [i \in 1..Len(c) |-> IF c[i] = rule.key THEN rule.value ELSE c[i]]
      BY <2>3 DEF Replace, ReplaceAll
    <3>2. \A i \in 1..Len(words) : d[i] = IF c[i] = rule.key THEN rule.value ELSE c[i]
      <4> SUFFICES ASSUME NEW i \in 1..Len(words)
                   PROVE  d[i] = IF c[i] = rule.key THEN rule.value ELSE c[i]
        OBVIOUS
      <4>1. Applies(rule, words[i], words) <=> c[i] = rule.key
        BY <1>6, <1>7, <2>3 DEF Applies
      <4> QED BY <1>8, <4>1
    <3> QED BY <1>3, <2>1, <3>1, <3>2
  <2> QED BY <2>2, <2>3
<1>10. ASSUME c # words PROVE d # words
  <2>1. words = [i \in 1..Len(words) |-> words[i]] /\ c = [i \in 1..Len(words) |-> c[i]]
    BY <1>3
  <2>2. PICK i \in 1..Len(words) : c[i] # words[i]
    BY <1>10, <2>1
  <2>3. PICK r \in S : Applies(r, words[i], words)
    BY <1>5, <2>2
  <2>4. c[i] = r.value /\ d[i] = r.value
    BY <1>5, <2>3 DEF all
  <2> QED BY <2>2, <2>4
<1> QED BY <1>9, <1>10 DEF c, d, all

(* A list of texts whose first has another text. *)
LEMMA FirstRewritten ==
    ASSUME NEW texts \in Seq(PartType), texts # <<>>, NEW words \in Seq(Words),
           \A i \in DOMAIN texts : texts[i].kind = "text"
    PROVE  /\ Listed(WithFirst(texts, words)) \in ContentType
           /\ Listed(WithFirst(texts, words)).form = "contents"
           /\ Texts(Listed(WithFirst(texts, words))) = WithFirst(texts, words)
           /\ WithFirst(texts, words) \in Seq(PartType)
           /\ WithFirst(texts, words) # <<>>
           /\ DOMAIN WithFirst(texts, words) = DOMAIN texts
           /\ WithFirst(texts, words)[1].text = words
           /\ \A i \in DOMAIN texts : i # 1 => WithFirst(texts, words)[i] = texts[i]
           /\ \A other \in Seq(Words) :
                WithFirst(WithFirst(texts, words), other) = WithFirst(texts, other)
<1> DEFINE first == [texts[1] EXCEPT !.text = words]
           new == [texts EXCEPT ![1] = first]
           content == Listed(new)
           S == {part \in Range(content.parts) : part.kind = "text"}
<1>1. 1 \in DOMAIN texts /\ texts[1] \in PartType /\ DOMAIN texts = 1..Len(texts) /\ Len(texts) \in Nat
  OBVIOUS
<1>2. first \in PartType /\ first.kind = "text" /\ first.text = words
  BY <1>1 DEF PartType
<1>3. WithFirst(texts, words) = new
  BY DEF WithFirst
<1>4. \A other \in Seq(Words) : WithFirst(new, other) = WithFirst(texts, other)
  <2> SUFFICES ASSUME NEW other \in Seq(Words)
               PROVE  [new EXCEPT ![1].text = other] = [texts EXCEPT ![1].text = other]
    BY DEF WithFirst
  <2>1. [first EXCEPT !.text = other] = [texts[1] EXCEPT !.text = other]
    BY <1>1 DEF PartType
  <2>2. new[1] = first
    BY <1>1
  <2>3. [new EXCEPT ![1].text = other] = [new EXCEPT ![1] = [first EXCEPT !.text = other]]
    BY <2>2
  <2>4. [new EXCEPT ![1] = [first EXCEPT !.text = other]] =
          [texts EXCEPT ![1] = [first EXCEPT !.text = other]]
    OBVIOUS
  <2> QED BY <2>1, <2>3, <2>4
<1> HIDE DEF first
<1>5. /\ new \in Seq(PartType) /\ new # <<>> /\ new[1] = first /\ DOMAIN new = DOMAIN texts
      /\ \A i \in DOMAIN new : new[i].kind = "text"
      /\ \A i \in DOMAIN texts : i # 1 => new[i] = texts[i]
  BY <1>1, <1>2
<1> HIDE DEF new
<1>6. content \in ContentType /\ content.parts = new /\ content.form = "contents"
  BY <1>5 DEF ContentType, Forms, Listed
<1>7. \A i \in DOMAIN content.parts : content.parts[i] \in S
  BY <1>5, <1>6 DEF Range
<1>8. Among(content.parts, S) = content.parts
  <2> HIDE DEF S, content
  <2> QED BY <1>5, <1>6, <1>7, AmongAll
<1>9. Texts(content) = new
  BY <1>6, <1>8 DEF Texts
<1> QED BY <1>2, <1>3, <1>4, <1>5, <1>6, <1>9

(* One rule more for a content. *)
LEMMA SettledNext ==
    ASSUME NEW S \in SUBSET TaskRuleType, NEW rule \in TaskRuleType, rule \notin S,
           Apart(S \cup {rule}), NEW content \in ContentType
    PROVE  RewrittenBy(Settled(content, S), rule) = Settled(content, S \cup {rule})
<1> DEFINE texts == Texts(content)
           old == texts[1].text
           c == SettledText(old, S)
           d == SettledText(old, S \cup {rule})
           With(words) == Listed(WithFirst(texts, words))
<1>1. /\ Settled(content, S) =
           IF content.form = "null" \/ texts = <<>> \/ c = old THEN content ELSE With(c)
      /\ Settled(content, S \cup {rule}) =
           IF content.form = "null" \/ texts = <<>> \/ d = old THEN content ELSE With(d)
  BY DEF Settled
<1>2. CASE content.form = "null" \/ texts = <<>>
  BY <1>1, <1>2 DEF RewrittenBy
<1>3. CASE ~(content.form = "null" \/ texts = <<>>)
  <2>1. /\ texts \in Seq(PartType) /\ texts # <<>>
        /\ \A i \in DOMAIN texts : texts[i].kind = "text"
    BY <1>3, TextsIs
  <2>2. old \in Seq(Words)
    <3> HIDE DEF texts
    <3>1. texts[1] \in PartType
      BY <2>1
    <3> QED BY <3>1 DEF PartType
  <2>3. Replace(c, rule) = d /\ (c # old => d # old)
    <3> HIDE DEF old
    <3> QED BY <2>2, SettleNext
  <2>4. c \in Seq(Words) /\ d \in Seq(Words)
    <3> HIDE DEF old
    <3>1. Apart(S)
      BY DEF Apart
    <3>2. S \cup {rule} \in SUBSET TaskRuleType
      OBVIOUS
    <3> QED BY <2>2, <3>1, <3>2, SettledTextIs
  <2>5. CASE c = old
    <3>1. Settled(content, S) = content
      BY <1>1, <2>5
    <3>2. RewrittenBy(content, rule) =
            IF content.form = "null" \/ texts = <<>> \/ Replace(old, rule) = old
            THEN content ELSE With(Replace(old, rule))
      BY DEF RewrittenBy, Listed, WithFirst
    <3>3. Replace(old, rule) = d
      BY <2>3, <2>5
    <3> HIDE DEF With, d, old, c, texts
    <3> QED BY <1>1, <3>1, <3>2, <3>3
  <2>6. CASE c # old
    <3>1. Settled(content, S) = With(c) /\ Settled(content, S \cup {rule}) = With(d)
      BY <1>1, <1>3, <2>3, <2>6
    <3> HIDE DEF c, d, old, texts
    <3>2. /\ With(c).form = "contents" /\ Texts(With(c)) = WithFirst(texts, c)
          /\ WithFirst(texts, c) # <<>> /\ WithFirst(texts, c)[1].text = c
          /\ WithFirst(WithFirst(texts, c), d) = WithFirst(texts, d)
      BY <2>1, <2>4, FirstRewritten
    <3> HIDE DEF With
    <3>3. RewrittenBy(With(c), rule) =
            IF Replace(c, rule) = c THEN With(c)
            ELSE Listed(WithFirst(WithFirst(texts, c), Replace(c, rule)))
      BY <3>2 DEF RewrittenBy, Listed, WithFirst
    <3>4. RewrittenBy(With(c), rule) = IF d = c THEN With(c) ELSE With(d)
      BY <2>3, <3>2, <3>3 DEF With
    <3> QED BY <3>1, <3>4
  <2> QED BY <2>5, <2>6
<1> QED BY <1>2, <1>3

(* Each rule comes once. *)
LEMMA OnceEach ==
    ASSUME NEW S, IsFiniteSet(S), NEW rules \in SetToSeqs(S)
    PROVE  /\ rules \in Seq(S)
           /\ \A i, j \in 1..Len(rules) : i # j => rules[i] # rules[j]
           /\ \A r \in S : \E i \in 1..Len(rules) : rules[i] = r
<1> DEFINE n == Cardinality(S)
<1>1. n \in Nat /\ IsFiniteSet(1..n) /\ Cardinality(1..n) = n
  <2>1. n \in Nat
    BY FS_CardinalityType
  <2> HIDE DEF n
  <2> QED BY <2>1, FS_Interval
<1>2. rules \in [1..n -> S] /\ \A i, j \in 1..n : i # j => rules[i] # rules[j]
  BY DEF SetToSeqs
<1>3. rules \in Injection(1..n, S)
  BY <1>2 DEF Injection, IsInjective
<1>4. rules \in Surjection(1..n, S)
  BY <1>1, <1>3, FS_Injection
<1>5. \A r \in S : \E i \in 1..n : rules[i] = r
  BY <1>4 DEF Surjection
<1> HIDE DEF n
<1>6. rules \in Seq(S) /\ Len(rules) = n
  BY <1>1, <1>2
<1> QED BY <1>2, <1>5, <1>6

(* Without rules nothing is settled. *)
LEMMA SettledNothing ==
    ASSUME NEW content \in ContentType
    PROVE  Settled(content, {}) = content
<1> DEFINE texts == Texts(content)
           old == texts[1].text
<1>1. CASE texts = <<>>
  BY <1>1 DEF Settled
<1>2. CASE texts # <<>>
  <2>1. texts \in Seq(PartType)
    BY TextsIs
  <2> HIDE DEF texts
  <2>2. old \in Seq(Words)
    <3>1. texts[1] \in PartType
      BY <1>2, <2>1
    <3> QED BY <3>1 DEF PartType
  <2> HIDE DEF old
  <2>3. SettledText(old, {}) = old
    <3>1. \A i \in 1..Len(old) : Settle(old[i], old, {}) = old[i]
      BY DEF Settle
    <3>2. SettledText(old, {}) = [i \in 1..Len(old) |-> old[i]]
      BY <3>1 DEF SettledText
    <3> QED BY <2>2, <3>2
  <2> QED BY <2>3 DEF Settled, old, texts
<1> QED BY <1>1, <1>2

(* Rules that are apart do the same in any order. *)
LEMMA RewrittenSettles ==
    ASSUME NEW content \in ContentType, NEW S \in SUBSET TaskRuleType, IsFiniteSet(S), Apart(S),
           NEW rules \in SetToSeqs(S)
    PROVE  Rewritten(content, rules) = Settled(content, S)
<1> DEFINE n == Len(rules)
           First(k) == {rules[j] : j \in 1..k}
<1>1. /\ rules \in Seq(S) /\ n \in Nat /\ rules \in Seq(TaskRuleType)
      /\ \A i, j \in 1..n : i # j => rules[i] # rules[j]
      /\ \A r \in S : \E i \in 1..n : rules[i] = r
  BY OnceEach
<1>2. PICK h : IsPath(h, content, rules) /\ Rewritten(content, rules) = h[Len(rules)]
  BY <1>1, RewrittenPath
<1>3. /\ h \in [0..n -> ContentType] /\ h[0] = content
      /\ \A k \in 1..n : h[k] = RewrittenBy(h[k - 1], rules[k])
      /\ Rewritten(content, rules) = h[n]
  BY <1>2 DEF IsPath
<1>4. \A k \in 1..n : rules[k] \in S
  BY <1>1
<1> HIDE DEF n
<1> DEFINE D == {k \in 0..n : h[k] = Settled(content, First(k))}
<1>5. 0 \in D
  <2>1. First(0) = {}
    OBVIOUS
  <2> HIDE DEF First
  <2>2. Settled(content, First(0)) = content
    BY <2>1, SettledNothing
  <2>3. 0 \in 0..n
    BY <1>1
  <2> QED BY <1>3, <2>2, <2>3
<1>6. ASSUME NEW k \in 1..n, k - 1 \in D PROVE k \in D
  <2>1. k \in 0..n /\ h[k - 1] = Settled(content, First(k - 1)) /\ rules[k] \in S
    BY <1>1, <1>4, <1>6
  <2>2. First(k - 1) \subseteq S /\ First(k) = First(k - 1) \cup {rules[k]}
    BY <1>1, <1>4
  <2>3. rules[k] \notin First(k - 1)
    BY <1>1
  <2>4. Apart(First(k - 1) \cup {rules[k]})
    <3> HIDE DEF First
    <3>1. First(k - 1) \cup {rules[k]} \subseteq S
      BY <2>1, <2>2
    <3> DEFINE U == First(k - 1) \cup {rules[k]}
    <3> HIDE DEF U
    <3>2. Apart(U)
      BY <3>1 DEF Apart, U
    <3> QED BY <3>2 DEF U
  <2> HIDE DEF First
  <2>5. First(k - 1) \in SUBSET TaskRuleType /\ rules[k] \in TaskRuleType
    BY <2>1, <2>2
  <2>6. RewrittenBy(Settled(content, First(k - 1)), rules[k])
          = Settled(content, First(k - 1) \cup {rules[k]})
    BY <2>3, <2>4, <2>5, SettledNext
  <2> QED BY <1>3, <2>1, <2>2, <2>6
<1> HIDE DEF First
<1>7. 0..n \subseteq D
  <2> HIDE DEF D
  <2> QED BY <1>1, <1>5, <1>6, UpToInduction
<1>8. h[n] = Settled(content, First(n))
  BY <1>1, <1>7
<1>9. First(n) = S
  BY <1>1, <1>4 DEF First
<1> QED BY <1>3, <1>8, <1>9

(* A content that the rules have been applied to is a content. *)
LEMMA SettledType ==
    ASSUME NEW content \in ContentType, NEW S \in SUBSET TaskRuleType, Apart(S)
    PROVE  Settled(content, S) \in ContentType
<1> DEFINE texts == Texts(content)
           old == texts[1].text
           words == SettledText(old, S)
<1>1. Settled(content, S) =
        IF content.form = "null" \/ texts = <<>> \/ words = old THEN content
        ELSE Listed(WithFirst(texts, words))
  BY DEF Settled
<1>2. CASE texts = <<>>
  BY <1>1, <1>2
<1>3. CASE texts # <<>>
  <2>1. texts \in Seq(PartType) /\ \A i \in DOMAIN texts : texts[i].kind = "text"
    BY TextsIs
  <2> HIDE DEF texts
  <2>2. old \in Seq(Words)
    <3>1. texts[1] \in PartType
      BY <1>3, <2>1
    <3> QED BY <3>1 DEF PartType
  <2> HIDE DEF old
  <2>3. words \in Seq(Words)
    BY <2>2, SettledTextIs
  <2> HIDE DEF words
  <2> QED BY <1>1, <1>3, <2>1, <2>3, FirstRewritten
<1> QED BY <1>2, <1>3

-----------------------------------------------------------------------------
(* Contents that differ in environments only.                              *)

(* What is left of a content without the environments. *)
NotEnvironments(parts) == Among(parts, {part \in Range(parts) : ~IsEnvironment(part)})

(* Two lists that differ in environments only. *)
LEMMA SameButEnvironments ==
    ASSUME NEW s \in Seq(PartType), NEW t \in Seq(PartType), NEW h, SubBy(t, s, h),
           \A i \in DOMAIN s : ~IsEnvironment(s[i]) => Hit(h, i)
    PROVE  NotEnvironments(t) = NotEnvironments(s)
<1> DEFINE S == {part \in Range(s) : ~IsEnvironment(part)}
           U == {part \in Range(t) : ~IsEnvironment(part)}
<1>1. \A i \in DOMAIN s : s[i] \in S => Hit(h, i)
  OBVIOUS
<1>2. ASSUME NEW k \in DOMAIN t PROVE t[k] \in U <=> t[k] \in S
  <2>1. h[k] \in DOMAIN s /\ t[k] = s[h[k]]
    BY DEF SubBy
  <2>2. t[k] \in Range(t) /\ t[k] \in Range(s)
    BY <2>1 DEF Range
  <2> QED BY <2>2
<1> HIDE DEF S, U
<1>3. Among(t, U) = Among(s, S)
  BY <1>1, <1>2, AmongSub
<1> QED BY <1>3 DEF NotEnvironments, S, U

(* A content with some environments left out, but not its first text.      *)
LessEnvironments(new, content) ==
    \E I \in SUBSET (DOMAIN content.parts) :
        /\ content.form = "list" /\ new.form = "list"
        /\ new.parts = EntriesAt(content.parts, Ascending(I))
        /\ \A j \in (DOMAIN content.parts) \ I : IsEnvironment(content.parts[j])
FirstTextKept(new, content) ==
    \E I \in SUBSET (DOMAIN content.parts) :
        /\ content.form = "list" /\ new.form = "list"
        /\ new.parts = EntriesAt(content.parts, Ascending(I))
        /\ \A j \in (DOMAIN content.parts) \ I :
              /\ IsEnvironment(content.parts[j])
              /\ \E l \in DOMAIN content.parts : l < j /\ content.parts[l].kind = "text"

(* A content without some environments is like the content. *)
LEMMA LessIsLike ==
    ASSUME NEW content \in ContentType, NEW new \in ContentType, LessEnvironments(new, content)
    PROVE  NotEnvironments(new.parts) = NotEnvironments(content.parts)
<1> DEFINE s == content.parts
           t == new.parts
<1>1. s \in Seq(PartType) /\ t \in Seq(PartType)
  BY DEF ContentType
<1>2. PICK I \in SUBSET (DOMAIN s) :
        /\ t = EntriesAt(s, Ascending(I))
        /\ \A j \in (DOMAIN s) \ I : IsEnvironment(s[j])
  BY DEF LessEnvironments
<1> HIDE DEF s, t
<1> DEFINE h == Ascending(I)
<1>3. /\ h \in [DOMAIN t -> I] /\ \A i \in I : \E k \in DOMAIN t : h[k] = i
      /\ \A k, l \in DOMAIN t : k < l => h[k] < h[l]
      /\ \A k \in DOMAIN t : t[k] = s[h[k]]
  BY <1>1, <1>2, EntriesIs
<1> HIDE DEF h
<1>4. h \in [DOMAIN t -> DOMAIN s]
  BY <1>3
<1>5. SubBy(t, s, h)
  BY <1>3, <1>4 DEF SubBy
<1>6. \A i \in DOMAIN s : ~IsEnvironment(s[i]) => Hit(h, i)
  BY <1>2, <1>3 DEF Hit
<1>7. NotEnvironments(t) = NotEnvironments(s)
  BY <1>1, <1>5, <1>6, SameButEnvironments
<1> QED BY <1>7 DEF s, t

(* The rules for the task do the same with and without environments that   *)
(* are not the first text.                                                 *)
LEMMA SettledLike ==
    ASSUME NEW content \in ContentType, NEW new \in ContentType, FirstTextKept(new, content),
           NEW S \in SUBSET TaskRuleType, Apart(S)
    PROVE  NotEnvironments(Settled(new, S).parts) = NotEnvironments(Settled(content, S).parts)
<1> DEFINE s == content.parts
           e == new.parts
           A == {part \in Range(s) : part.kind = "text"}
           U == {part \in Range(e) : part.kind = "text"}
           t == Among(s, A)
           r == Among(e, U)
<1>1. s \in Seq(PartType) /\ e \in Seq(PartType)
  BY DEF ContentType
<1>2. PICK I \in SUBSET (DOMAIN s) :
        /\ e = EntriesAt(s, Ascending(I))
        /\ \A j \in (DOMAIN s) \ I :
              /\ IsEnvironment(s[j])
              /\ \E l \in DOMAIN s : l < j /\ s[l].kind = "text"
  BY DEF FirstTextKept
<1>3. content.form = "list" /\ new.form = "list"
  BY DEF FirstTextKept
<1>4. LessEnvironments(new, content)
  BY <1>2, <1>3 DEF LessEnvironments
<1>5. Texts(content) = t /\ Texts(new) = r
  BY DEF Texts
<1>6. NotEnvironments(new.parts) = NotEnvironments(content.parts)
  BY <1>4, LessIsLike
<1> HIDE DEF s, e
<1>7. \A i \in I : s[i] \in U <=> s[i] \in A
  <2>1. /\ Ascending(I) \in [DOMAIN e -> I] /\ \A i \in I : \E k \in DOMAIN e : Ascending(I)[k] = i
        /\ \A k \in DOMAIN e : e[k] = s[Ascending(I)[k]]
    BY <1>1, <1>2, EntriesIs
  <2>2. \A i \in I : s[i] \in Range(e) /\ s[i] \in Range(s)
    BY <2>1 DEF Range
  <2> QED BY <2>2
<1>8. FirstKept(s, A, I)
  <2>1. \A j \in DOMAIN s : s[j] \in A <=> s[j].kind = "text"
    BY DEF Range
  <2>2. \A j \in DOMAIN s : j \in Int
    BY <1>1
  <2> SUFFICES ASSUME NEW j \in PlacesOf(s, A), \A l \in PlacesOf(s, A) : j <= l, j \notin I
               PROVE  FALSE
    BY DEF FirstKept
  <2>3. j \in DOMAIN s
    BY DEF PlacesOf
  <2>4. PICK l \in DOMAIN s : l < j /\ s[l].kind = "text"
    BY <1>2, <2>3
  <2>5. l \in PlacesOf(s, A)
    BY <2>1, <2>4 DEF PlacesOf
  <2> QED BY <2>2, <2>3, <2>4, <2>5
<1> HIDE DEF A, U
<1>9. PICK h : /\ SubBy(r, t, h)
               /\ \A i \in DOMAIN t : ~Hit(h, i) => \E j \in (DOMAIN s) \ I : t[i] = s[j]
               /\ FirstKept(s, A, I) /\ t # <<>> => r # <<>> /\ h[1] = 1
  BY <1>1, <1>2, <1>7, FilteredSub
<1>10. /\ t \in Seq(PartType) /\ \A i \in DOMAIN t : t[i].kind = "text"
       /\ r \in Seq(PartType) /\ \A i \in DOMAIN r : r[i].kind = "text"
  BY <1>5, TextsIs
<1> HIDE DEF t, r
<1>11. t = <<>> => r = <<>>
  <2>1. t = <<>> => DOMAIN t = {}
    OBVIOUS
  <2>2. h \in [DOMAIN r -> DOMAIN t]
    BY <1>9 DEF SubBy
  <2>3. t = <<>> => DOMAIN r = {}
    BY <2>1, <2>2
  <2> QED BY <1>10, <2>3
<1>12. CASE t = <<>>
  <2>1. Settled(content, S) = content /\ Settled(new, S) = new
    BY <1>5, <1>11, <1>12 DEF Settled
  <2> QED BY <1>6, <2>1
<1>13. CASE t # <<>>
  <2>1. r # <<>> /\ h[1] = 1 /\ 1 \in DOMAIN r /\ 1 \in DOMAIN t
    BY <1>8, <1>9, <1>10, <1>13
  <2>2. r[1] = t[1]
    BY <1>9, <2>1 DEF SubBy
  <2> DEFINE old == t[1].text
             words == SettledText(old, S)
  <2>3. /\ Settled(content, S) = IF words = old THEN content ELSE Listed(WithFirst(t, words))
        /\ Settled(new, S) = IF words = old THEN new ELSE Listed(WithFirst(r, words))
    BY <1>3, <1>5, <1>13, <2>1, <2>2 DEF Settled
  <2>4. CASE words = old
    BY <1>6, <2>3, <2>4
  <2>5. CASE words # old
    <3>1. old \in Seq(Words)
      <4>1. t[1] \in PartType
        BY <1>10, <2>1
      <4> QED BY <4>1 DEF PartType
    <3> HIDE DEF old
    <3>2. words \in Seq(Words)
      BY <3>1, SettledTextIs
    <3> HIDE DEF words
    <3>3. /\ WithFirst(t, words) \in Seq(PartType) /\ DOMAIN WithFirst(t, words) = DOMAIN t
          /\ \A i \in DOMAIN t : i # 1 => WithFirst(t, words)[i] = t[i]
      BY <1>10, <1>13, <3>2, FirstRewritten
    <3>4. /\ WithFirst(r, words) \in Seq(PartType) /\ DOMAIN WithFirst(r, words) = DOMAIN r
          /\ \A i \in DOMAIN r : i # 1 => WithFirst(r, words)[i] = r[i]
      BY <1>10, <2>1, <3>2, FirstRewritten
    <3>5. WithFirst(r, words)[1] = WithFirst(t, words)[1]
      BY <2>1, <2>2 DEF WithFirst
    <3>6. /\ h \in [DOMAIN r -> DOMAIN t]
          /\ \A k, l \in DOMAIN r : k < l => h[k] < h[l]
          /\ \A k \in DOMAIN r : r[k] = t[h[k]]
      BY <1>9 DEF SubBy
    <3>7. \A k \in DOMAIN r : k # 1 => h[k] # 1
      <4>1. \A k \in DOMAIN r : k # 1 => 1 < k
        BY <1>10
      <4>2. \A k \in DOMAIN r : k # 1 => h[1] < h[k]
        BY <2>1, <3>6, <4>1
      <4> QED BY <2>1, <4>2
    <3>8. \A k \in DOMAIN r : WithFirst(r, words)[k] = WithFirst(t, words)[h[k]]
      BY <2>1, <3>3, <3>4, <3>5, <3>6, <3>7
    <3>9. SubBy(WithFirst(r, words), WithFirst(t, words), h)
      BY <3>3, <3>4, <3>6, <3>8 DEF SubBy
    <3>10. ASSUME NEW i \in DOMAIN t, ~IsEnvironment(WithFirst(t, words)[i]) PROVE Hit(h, i)
      <4>1. CASE i = 1
        BY <2>1, <3>6, <4>1 DEF Hit
      <4>2. CASE i # 1
        <5>1. ~IsEnvironment(t[i])
          BY <3>3, <3>10, <4>2
        <5> QED BY <1>2, <1>9, <5>1
      <4> QED BY <4>1, <4>2
    <3>11. NotEnvironments(WithFirst(r, words)) = NotEnvironments(WithFirst(t, words))
      BY <3>3, <3>4, <3>9, <3>10, SameButEnvironments
    <3>12. Listed(WithFirst(r, words)).parts = WithFirst(r, words)
           /\ Listed(WithFirst(t, words)).parts = WithFirst(t, words)
      BY DEF Listed
    <3> QED BY <2>3, <2>5, <3>11, <3>12
  <2> QED BY <2>4, <2>5
<1> QED BY <1>12, <1>13

(* What the filters make of a message depends on those before it only. *)
LEMMA PatternsPrefix ==
    ASSUME NEW p \in Seq(MessageType), NEW q \in Seq(MessageType), NEW i \in DOMAIN p,
           i \in DOMAIN q, p[i] = q[i]
    PROVE  /\ RemoveToolPatterns(p)[i] = RemoveToolPatterns(q)[i]
           /\ p[i].role # "assistant" => RemoveToolPatterns(p)[i] = p[i]
BY DEF RemoveToolPatterns

(* The environments of later messages do not matter to an earlier one. *)
LEMMA EnvironmentsPrefix ==
    ASSUME NEW p \in Seq(MessageType), NEW q \in Seq(MessageType), Len(p) <= Len(q),
           \A k \in DOMAIN p : p[k] = q[k], NEW i \in DOMAIN p
    PROVE  RemoveEnvironments(p)[i] = RemoveEnvironments(q)[i]
<1> DEFINE keptP == {j \in DOMAIN p[i].content.parts : ~Repeated(p, i, j)}
           keptQ == {j \in DOMAIN q[i].content.parts : ~Repeated(q, i, j)}
<1>1. /\ i \in DOMAIN q /\ p[i] = q[i]
      /\ \A k \in 1..i : p[k] = q[k]
  OBVIOUS
<1>2. keptP = keptQ
  <2>1. \A j : Repeated(p, i, j) <=> Repeated(q, i, j)
    BY <1>1 DEF Repeated
  <2> QED BY <1>1, <2>1
<1>3. /\ RemoveEnvironments(p)[i] =
           IF ~Filtered(p[i]) THEN p[i]
           ELSE [p[i] EXCEPT !.content.parts = EntriesAt(@, Ascending(keptP))]
      /\ RemoveEnvironments(q)[i] =
           IF ~Filtered(q[i]) THEN q[i]
           ELSE [q[i] EXCEPT !.content.parts = EntriesAt(@, Ascending(keptQ))]
  BY <1>1 DEF RemoveEnvironments
<1> HIDE DEF keptP, keptQ
<1> QED BY <1>1, <1>2, <1>3

(* The filter takes environments that were there before. *)
LEMMA EnvironmentsLess ==
    ASSUME NEW ms \in Seq(MessageType), NEW i \in DOMAIN ms
    PROVE  LET new == RemoveEnvironments(ms)[i]
           IN  \/ new = ms[i]
               \/ /\ new.id = ms[i].id
                  /\ LessEnvironments(new.content, ms[i].content)
                  /\ i = 1 => FirstTextKept(new.content, ms[i].content)
<1> DEFINE content == ms[i].content
           parts == content.parts
           I == {j \in DOMAIN parts : ~Repeated(ms, i, j)}
           left == [content EXCEPT !.parts = EntriesAt(@, Ascending(I))]
           new == RemoveEnvironments(ms)[i]
<1>1. new = IF ~Filtered(ms[i]) THEN ms[i] ELSE [ms[i] EXCEPT !.content = left]
  BY DEF RemoveEnvironments
<1>2. CASE ~Filtered(ms[i])
  BY <1>1, <1>2
<1>3. CASE Filtered(ms[i])
  <2>1. ms[i] \in MessageType /\ content \in ContentType /\ content.form = "list"
    BY <1>3, MessageIs DEF Filtered
  <2>2. left.form = "list" /\ left.parts = EntriesAt(parts, Ascending(I))
    BY <2>1 DEF ContentType
  <2>3. new.id = ms[i].id /\ new.content = left
    BY <1>1, <1>3, <2>1 DEF MessageType
  <2>4. \A j \in (DOMAIN parts) \ I : IsEnvironment(parts[j])
    BY DEF Repeated
  <2>5. ASSUME i = 1, NEW j \in (DOMAIN parts) \ I
        PROVE  \E l \in DOMAIN parts : l < j /\ parts[l].kind = "text"
    <3>1. Repeated(ms, 1, j)
      BY <2>5
    <3>2. PICK k \in 1..1 :
            \E l \in DOMAIN ms[k].content.parts :
               /\ k < 1 \/ l < j
               /\ IsEnvironment(ms[k].content.parts[l])
      BY <3>1 DEF Repeated
    <3>3. k = 1
      OBVIOUS
    <3>4. PICK l \in DOMAIN parts : l < j /\ IsEnvironment(parts[l])
      BY <2>5, <3>2, <3>3
    <3> QED BY <3>4 DEF IsEnvironment
  <2>6. I \in SUBSET (DOMAIN parts)
    OBVIOUS
  <2> HIDE DEF left, I, new
  <2>7. LessEnvironments(left, content)
    BY <2>1, <2>2, <2>4, <2>6 DEF LessEnvironments
  <2>8. i = 1 => FirstTextKept(left, content)
    BY <2>1, <2>2, <2>4, <2>5, <2>6 DEF FirstTextKept
  <2> QED BY <2>3, <2>7, <2>8 DEF new
<1> QED BY <1>2, <1>3

Filtering(ms) ==
    IF session.envFilter THEN RemoveEnvironments(RemoveToolPatterns(ms))
    ELSE RemoveToolPatterns(ms)

(* Both filters together. *)
LEMMA FilteringIs ==
    ASSUME NEW ms \in Seq(MessageType)
    PROVE  /\ LikeMessages(Filtering(ms), ms)
           /\ \A i \in DOMAIN ms : ms[i].role # "assistant" =>
                \/ Filtering(ms)[i] = ms[i]
                \/ /\ Filtering(ms)[i].id = ms[i].id
                   /\ LessEnvironments(Filtering(ms)[i].content, ms[i].content)
                   /\ i = 1 => FirstTextKept(Filtering(ms)[i].content, ms[i].content)
<1> DEFINE plain == RemoveToolPatterns(ms)
<1>1. LikeMessages(plain, ms)
  BY PatternsIs
<1>2. plain \in Seq(MessageType) /\ DOMAIN plain = DOMAIN ms
  BY <1>1 DEF LikeMessages
<1>3. \A i \in DOMAIN ms : ms[i].role # "assistant" => plain[i] = ms[i]
  BY PatternsPrefix
<1>4. Filtering(ms) = IF session.envFilter THEN RemoveEnvironments(plain) ELSE plain
  BY DEF Filtering
<1> HIDE DEF plain
<1>5. CASE ~session.envFilter
  BY <1>1, <1>3, <1>4, <1>5
<1>6. CASE session.envFilter
  <2>1. LikeMessages(RemoveEnvironments(plain), plain)
    BY <1>2, EnvironmentsIs
  <2>2. LikeMessages(RemoveEnvironments(plain), ms)
    BY <1>1, <2>1 DEF LikeMessages
  <2>3. ASSUME NEW i \in DOMAIN ms
        PROVE  \/ RemoveEnvironments(plain)[i] = plain[i]
               \/ /\ RemoveEnvironments(plain)[i].id = plain[i].id
                  /\ LessEnvironments(RemoveEnvironments(plain)[i].content, plain[i].content)
                  /\ i = 1 => FirstTextKept(RemoveEnvironments(plain)[i].content, plain[i].content)
    BY <1>2, EnvironmentsLess
  <2> QED BY <1>3, <1>4, <1>6, <2>2, <2>3
<1> QED BY <1>5, <1>6

(* Both filters do the same to a message, whatever follows it. *)
LEMMA FilteringPrefix ==
    ASSUME NEW p \in Seq(MessageType), NEW q \in Seq(MessageType), Len(p) <= Len(q),
           \A k \in DOMAIN p : p[k] = q[k], NEW i \in DOMAIN p
    PROVE  Filtering(p)[i] = Filtering(q)[i]
<1> DEFINE a == RemoveToolPatterns(p)
           b == RemoveToolPatterns(q)
<1>1. \A k \in DOMAIN p : k \in DOMAIN q
  OBVIOUS
<1>2. \A k \in DOMAIN p : a[k] = b[k]
  BY <1>1, PatternsPrefix
<1>3. /\ a \in Seq(MessageType) /\ DOMAIN a = DOMAIN p
      /\ b \in Seq(MessageType) /\ DOMAIN b = DOMAIN q
  BY PatternsIs DEF LikeMessages
<1>4. /\ Filtering(p) = IF session.envFilter THEN RemoveEnvironments(a) ELSE a
      /\ Filtering(q) = IF session.envFilter THEN RemoveEnvironments(b) ELSE b
  BY DEF Filtering
<1> HIDE DEF a, b
<1>5. Len(a) <= Len(b)
  <2>1. Len(a) = Len(p) /\ Len(b) = Len(q)
    BY <1>3
  <2> QED BY <2>1
<1>6. RemoveEnvironments(a)[i] = RemoveEnvironments(b)[i]
  BY <1>2, <1>3, <1>5, EnvironmentsPrefix
<1> QED BY <1>2, <1>4, <1>6

RulesFor(ms) ==
    {rule \in session.tasks : rule.for = {} \/ <<PromptMode, Detected(ms)>> \in rule.for}

(* What the model is given in place k after the system message.            *)
SaidAt(ms, k) ==
    LET old == GetOldUserMsgs(ms)
        m == IF k > Len(old) THEN ms[LastUser(ms)]
             ELSE IF session.mode = "performance" THEN old[k] ELSE Filtering(old)[k]
    IN  IF k = 1 /\ session.mode # "performance"
        THEN [m EXCEPT !.content = Settled(@, RulesFor(ms))]
        ELSE m

IsPrompt(p, ms) ==
    IF session.mode = "raw" THEN p = ms
    ELSE /\ LastUser(ms) # 0 /\ Len(p) = Len(GetOldUserMsgs(ms)) + 2
         /\ \A k \in 1..(Len(GetOldUserMsgs(ms)) + 1) : p[k + 1] = SaidAt(ms, k)

(* What a conversation that begins with a system message is cut into, as   *)
(* long as it was and as long as it is.                                    *)
LEMMA Pieces ==
    ASSUME NEW ms \in Seq(MessageType), FirstSystem(ms) = 1, NEW m \in 1..Len(ms),
           LastUser(SubSeq(ms, 1, m)) # 0
    PROVE  LET ms0 == SubSeq(ms, 1, m)
               u0 == LastUser(ms0)
               u == LastUser(ms)
               old0 == GetOldUserMsgs(ms0)
               old == GetOldUserMsgs(ms)
           IN  /\ ms0 \in Seq(MessageType) /\ RulesFor(ms0) = RulesFor(ms)
               /\ u0 \in Nat /\ u \in Nat /\ 2 <= u0 /\ u0 <= u /\ u \in DOMAIN ms
               /\ old0 \in Seq(MessageType) /\ Len(old0) = u0 - 2
               /\ old \in Seq(MessageType) /\ Len(old) = u - 2
               /\ \A k \in 1..(u0 - 2) : old0[k] = old[k]
               /\ ms0[u0] = ms[u0] /\ ms[u0] \in MessageType /\ ms[u0].role # "assistant"
               /\ u0 # u => old[u0 - 1] = ms[u0]
<1> DEFINE ms0 == SubSeq(ms, 1, m)
           u0 == LastUser(ms0)
           u == LastUser(ms)
           old0 == GetOldUserMsgs(ms0)
           old == GetOldUserMsgs(ms)
<1>1. /\ ms0 \in Seq(MessageType) /\ DOMAIN ms0 = 1..m /\ Len(ms0) = m /\ m \in Nat
      /\ \A i \in 1..m : ms0[i] = ms[i]
  OBVIOUS
<1>2. DOMAIN ms = 1..Len(ms) /\ Len(ms) \in Nat /\ 1 \in DOMAIN ms /\ 1 \in 1..m
  OBVIOUS
<1> HIDE DEF ms0
<1>3. ms[1].role = "system" /\ ms0[1].role = "system"
  BY <1>1, <1>2, Placed
<1>4. FirstSystem(ms0) = 1
  <2>1. /\ FirstSystem(ms0) \in {0} \cup DOMAIN ms0
        /\ \A i \in DOMAIN ms0 : ms0[i].role = "system" =>
             FirstSystem(ms0) # 0 /\ FirstSystem(ms0) <= i
    BY <1>1, Placed
  <2>2. FirstSystem(ms0) # 0 /\ FirstSystem(ms0) <= 1
    BY <1>1, <1>2, <1>3, <2>1
  <2> QED BY <1>1, <2>1, <2>2
<1>5. u0 \in DOMAIN ms0 /\ ms0[u0].role \in {"user", "tool"}
  BY <1>1, Placed DEF ms0
<1>6. u0 \in DOMAIN ms /\ ms0[u0] = ms[u0]
  BY <1>1, <1>2, <1>5
<1>7. u # 0 /\ u0 <= u /\ u \in DOMAIN ms
  BY <1>5, <1>6, Placed
<1>8. ms[u0] \in MessageType /\ ms[u0].role # "assistant" /\ ms[u0].role # "system"
  BY <1>5, <1>6
<1>9. u0 # 1
  BY <1>3, <1>6, <1>8
<1>10. RulesFor(ms0) = RulesFor(ms)
  BY <1>1, <1>2, <1>4 DEF RulesFor, Detected, GetSystemMsg
<1>11. OlderFrom(ms0) = 2 /\ OlderFrom(ms) = 2
  BY <1>4 DEF OlderFrom, SystemPosition
<1>12. m > 1 /\ Len(ms) > 1 /\ 2 <= u0 /\ u0 <= m /\ u <= Len(ms) /\ u0 \in Nat /\ u \in Nat
  BY <1>1, <1>2, <1>5, <1>7, <1>9
<1> HIDE DEF u, u0
<1>13. old0 = SubSeq(ms0, 2, u0 - 1) /\ old = SubSeq(ms, 2, u - 1)
  <2>1. ~(Len(ms0) <= 1) /\ ~(Len(ms) <= 1)
    BY <1>1, <1>2, <1>12
  <2> QED BY <1>11, <2>1 DEF GetOldUserMsgs, u, u0
<1> HIDE DEF old, old0
<1>14. /\ old0 \in Seq(MessageType) /\ Len(old0) = u0 - 2
       /\ \A k \in 1..(u0 - 2) : old0[k] = ms0[k + 1]
  BY <1>1, <1>12, <1>13
<1>15. /\ old \in Seq(MessageType) /\ Len(old) = u - 2
       /\ \A k \in 1..(u - 2) : old[k] = ms[k + 1]
  <2>1. 2 <= u
    BY <1>7, <1>12
  <2>2. \A k \in 1..(u - 2) : SubSeq(ms, 2, u - 1)[k] = ms[k + 1]
    BY <1>2, <1>12, <2>1
  <2> QED BY <1>2, <1>12, <1>13, <2>1, <2>2
<1>16. \A k \in 1..(u0 - 2) : old0[k] = old[k]
  <2> SUFFICES ASSUME NEW k \in 1..(u0 - 2) PROVE old0[k] = old[k]
    OBVIOUS
  <2>1. k \in 1..(u - 2) /\ k + 1 \in 1..m
    BY <1>1, <1>7, <1>12
  <2> QED BY <1>1, <1>14, <1>15, <2>1
<1>17. u0 # u => old[u0 - 1] = ms[u0]
  BY <1>7, <1>12, <1>15
<1> QED BY <1>1, <1>6, <1>7, <1>8, <1>10, <1>12, <1>14, <1>15, <1>16, <1>17
        DEF ms0, u, u0, old, old0

(* Another message in the place of one: the same but for environments.     *)
Like(new, m) ==
    /\ new.id = m.id
    /\ NotEnvironments(new.content.parts) = NotEnvironments(m.content.parts)

(* The message that was the last is an older one when the conversation     *)
(* goes on.                                                                *)
LEMMA LastThenOlder ==
    ASSUME NEW old \in Seq(MessageType), NEW k \in DOMAIN old, old[k].role # "assistant",
           NEW S \in SUBSET TaskRuleType, Apart(S)
    PROVE  /\ Like(Filtering(old)[k], old[k])
           /\ k = 1 => Like([Filtering(old)[k] EXCEPT !.content = Settled(@, S)],
                            [old[k] EXCEPT !.content = Settled(@, S)])
<1> DEFINE new == Filtering(old)[k]
           m == old[k]
<1>1. /\ new \in MessageType /\ m \in MessageType
      /\ new.content \in ContentType /\ m.content \in ContentType
  <2>1. LikeMessages(Filtering(old), old)
    BY FilteringIs
  <2>2. new \in MessageType /\ m \in MessageType
    BY <2>1 DEF LikeMessages
  <2> HIDE DEF new, m
  <2> QED BY <2>2, MessageIs
<1>2. \/ new = m
      \/ /\ new.id = m.id
         /\ LessEnvironments(new.content, m.content)
         /\ k = 1 => FirstTextKept(new.content, m.content)
  BY FilteringIs
<1> HIDE DEF new, m
<1>3. Like(new, m)
  BY <1>1, <1>2, LessIsLike DEF Like
<1> DEFINE a == [new EXCEPT !.content = Settled(@, S)]
           b == [m EXCEPT !.content = Settled(@, S)]
<1>4. ASSUME k = 1 PROVE Like(a, b)
  <2>1. CASE new = m
    BY <2>1 DEF Like
  <2>2. CASE new # m
    <3>1. NotEnvironments(Settled(new.content, S).parts) = NotEnvironments(Settled(m.content, S).parts)
      BY <1>1, <1>2, <1>4, <2>2, SettledLike
    <3>2. a.id = new.id /\ a.content = Settled(new.content, S)
      BY <1>1 DEF MessageType
    <3>3. b.id = m.id /\ b.content = Settled(m.content, S)
      BY <1>1 DEF MessageType
    <3> QED BY <1>2, <2>2, <3>1, <3>2, <3>3 DEF Like
  <2> QED BY <2>1, <2>2
<1> QED BY <1>3, <1>4 DEF new, m

(* The prompt of a conversation and the prompt of a conversation that it   *)
(* begins.                                                                 *)
Grown(p, p0) ==
    LET n == Len(p0)
    IN  /\ Len(p) >= n
        /\ \A i \in 2..(n - 1) : p[i] = p0[i]
        /\ Like(p[n], p0[n])

(* The conversation goes on: what was said before is said the same way. *)
LEMMA SaidBefore ==
    ASSUME session \in SessionType, Apart(session.tasks),
           NEW ms \in Seq(MessageType), FirstSystem(ms) = 1, NEW m \in 1..Len(ms),
           LastUser(SubSeq(ms, 1, m)) # 0
    PROVE  LET ms0 == SubSeq(ms, 1, m)
               u0 == LastUser(ms0)
           IN  /\ \A k \in 1..(u0 - 2) : SaidAt(ms, k) = SaidAt(ms0, k)
               /\ Like(SaidAt(ms, u0 - 1), SaidAt(ms0, u0 - 1))
<1> DEFINE ms0 == SubSeq(ms, 1, m)
           u0 == LastUser(ms0)
           u == LastUser(ms)
           old0 == GetOldUserMsgs(ms0)
           old == GetOldUserMsgs(ms)
           S == RulesFor(ms)
           Ruled(x) == [x EXCEPT !.content = Settled(@, S)]
           raw == session.mode = "performance"
           At0(k) == IF k > Len(old0) THEN ms0[u0] ELSE IF raw THEN old0[k] ELSE Filtering(old0)[k]
           At(k) == IF k > Len(old) THEN ms[u] ELSE IF raw THEN old[k] ELSE Filtering(old)[k]
<1>1. /\ ms0 \in Seq(MessageType) /\ RulesFor(ms0) = S
      /\ u0 \in Nat /\ u \in Nat /\ 2 <= u0 /\ u0 <= u /\ u \in DOMAIN ms
      /\ old0 \in Seq(MessageType) /\ Len(old0) = u0 - 2
      /\ old \in Seq(MessageType) /\ Len(old) = u - 2
      /\ \A k \in 1..(u0 - 2) : old0[k] = old[k]
      /\ ms0[u0] = ms[u0] /\ ms[u0] \in MessageType /\ ms[u0].role # "assistant"
      /\ u0 # u => old[u0 - 1] = ms[u0]
  BY Pieces
<1>2. S \in SUBSET TaskRuleType /\ Apart(S)
  <2>1. session.tasks \in SUBSET TaskRuleType /\ S \subseteq session.tasks
    BY DEF SessionType, RulesFor
  <2> QED BY <2>1 DEF Apart
<1>3. /\ \A k : SaidAt(ms0, k) = IF k = 1 /\ ~raw THEN Ruled(At0(k)) ELSE At0(k)
      /\ \A k : SaidAt(ms, k) = IF k = 1 /\ ~raw THEN Ruled(At(k)) ELSE At(k)
  BY <1>1 DEF SaidAt
<1> HIDE DEF ms0, old, old0, S, raw
<1>4. ASSUME NEW k \in 1..(u0 - 2) PROVE At(k) = At0(k)
  <2> HIDE DEF u, u0
  <2>1. k \in DOMAIN old0 /\ ~(k > Len(old0)) /\ ~(k > Len(old)) /\ Len(old0) <= Len(old)
    BY <1>1
  <2>2. \A i \in DOMAIN old0 : old0[i] = old[i]
    BY <1>1
  <2>3. Filtering(old0)[k] = Filtering(old)[k]
    BY <1>1, <2>1, <2>2, FilteringPrefix
  <2> QED BY <2>1, <2>2, <2>3
<1>5. \A k \in 1..(u0 - 2) : SaidAt(ms, k) = SaidAt(ms0, k)
  BY <1>3, <1>4
<1> DEFINE k == u0 - 1
<1> HIDE DEF u, u0
<1>6. At0(k) = ms[u0]
  <2>1. k > Len(old0)
    BY <1>1
  <2> QED BY <1>1, <2>1
<1>7. CASE u = u0
  <2>1. k > Len(old)
    BY <1>1, <1>7
  <2>2. At(k) = At0(k)
    BY <1>6, <1>7, <2>1
  <2>3. SaidAt(ms, k) = SaidAt(ms0, k)
    BY <1>3, <2>2
  <2> QED BY <1>5, <2>3 DEF Like, ms0, u0
<1>8. CASE u # u0
  <2>1. k \in DOMAIN old /\ ~(k > Len(old))
    BY <1>1, <1>8
  <2>2. old[k] = At0(k) /\ old[k].role # "assistant"
    BY <1>1, <1>6, <1>8
  <2>3. At(k) = IF raw THEN old[k] ELSE Filtering(old)[k]
    BY <2>1
  <2>4. /\ Like(Filtering(old)[k], old[k])
        /\ k = 1 => Like(Ruled(Filtering(old)[k]), Ruled(old[k]))
    BY <1>1, <1>2, <2>1, <2>2, LastThenOlder
  <2> HIDE DEF Ruled, At, At0, k
  <2>5. Like(SaidAt(ms, k), SaidAt(ms0, k))
    <3>1. CASE raw
      BY <1>3, <2>2, <2>3, <3>1 DEF Like
    <3>2. CASE ~raw /\ k = 1
      BY <1>3, <2>2, <2>3, <2>4, <3>2
    <3>3. CASE ~raw /\ k # 1
      BY <1>3, <2>2, <2>3, <2>4, <3>3
    <3> QED BY <3>1, <3>2, <3>3
  <2> QED BY <1>5, <2>5 DEF ms0, u0, k
<1> QED BY <1>7, <1>8

(* And so the prompt is the earlier one, and goes on. *)
LEMMA PromptGrows ==
    ASSUME session \in SessionType, Apart(session.tasks),
           NEW ms \in Seq(MessageType), FirstSystem(ms) = 1, NEW m \in 1..Len(ms),
           NEW p0, IsPrompt(p0, SubSeq(ms, 1, m)), NEW p, IsPrompt(p, ms)
    PROVE  Grown(p, p0)
<1> DEFINE ms0 == SubSeq(ms, 1, m)
           u0 == LastUser(ms0)
           u == LastUser(ms)
           old0 == GetOldUserMsgs(ms0)
           old == GetOldUserMsgs(ms)
<1>1. CASE session.mode = "raw"
  <2>1. p = ms /\ p0 = SubSeq(ms, 1, m)
    BY <1>1 DEF IsPrompt
  <2>2. Len(p0) = m /\ m \in 1..Len(p) /\ \A i \in 1..m : p[i] = p0[i]
    BY <2>1
  <2> HIDE DEF ms0
  <2>3. Len(p) >= m /\ (\A i \in 2..(m - 1) : i \in 1..m) /\ m \in 1..m
    BY <2>2
  <2> QED BY <2>2, <2>3 DEF Grown, Like
<1>2. CASE session.mode # "raw"
  <2>1. /\ u0 # 0 /\ Len(p0) = Len(old0) + 2
        /\ \A k \in 1..(Len(old0) + 1) : p0[k + 1] = SaidAt(ms0, k)
        /\ Len(p) = Len(old) + 2
        /\ \A k \in 1..(Len(old) + 1) : p[k + 1] = SaidAt(ms, k)
    BY <1>2 DEF IsPrompt
  <2>2. /\ u0 \in Nat /\ u \in Nat /\ 2 <= u0 /\ u0 <= u
        /\ Len(old0) = u0 - 2 /\ Len(old) = u - 2
    BY <2>1, Pieces
  <2>3. /\ \A k \in 1..(u0 - 2) : SaidAt(ms, k) = SaidAt(ms0, k)
        /\ Like(SaidAt(ms, u0 - 1), SaidAt(ms0, u0 - 1))
    BY <2>1, SaidBefore
  <2> HIDE DEF ms0, u0, u, old0, old
  <2>4. /\ Len(p0) = u0 /\ Len(p) = u
        /\ \A k \in 1..(u0 - 1) : p0[k + 1] = SaidAt(ms0, k)
        /\ \A k \in 1..(u - 1) : p[k + 1] = SaidAt(ms, k)
    BY <2>1, <2>2
  <2>5. ASSUME NEW i \in 2..(u0 - 1) PROVE p[i] = p0[i]
    <3> DEFINE k == i - 1
    <3>1. k \in 1..(u0 - 2) /\ k \in 1..(u0 - 1) /\ k \in 1..(u - 1) /\ k + 1 = i
      BY <2>2
    <3> HIDE DEF k
    <3> QED BY <2>3, <2>4, <3>1
  <2>6. Like(p[u0], p0[u0])
    <3> DEFINE k == u0 - 1
    <3>1. k \in 1..(u0 - 1) /\ k \in 1..(u - 1) /\ k + 1 = u0
      BY <2>2
    <3>2. Like(SaidAt(ms, k), SaidAt(ms0, k))
      BY <2>3
    <3> HIDE DEF k
    <3> QED BY <2>4, <3>1, <3>2
  <2>7. u >= u0
    BY <2>2
  <2> QED BY <2>4, <2>5, <2>6, <2>7 DEF Grown
<1> QED BY <1>1, <1>2

-----------------------------------------------------------------------------
(* The prompts of two turns.                                               *)

Unmarked(ms) == \A i \in DOMAIN ms : ~ms[i].marked

(* The older messages and the last one are what the prompt will have.      *)
AllSaid ==
    LET n == Len(GetOldUserMsgs(messages))
    IN  \A k \in 1..(n + 1) : (IF k > n THEN last ELSE older[k]) = SaidAt(messages, k)

(* The prompt of the turn before is that of a conversation which this one  *)
(* goes on with.                                                           *)
SentIs ==
    sent # <<>> /\ RulesApart /\ ~session.marked =>
    \E m \in 1..Len(messages) :
        Unmarked(SubSeq(messages, 1, m)) => IsPrompt(sent, SubSeq(messages, 1, m))

UInv ==
    /\ pc \in InChain \cup Done /\ Processor = "RagWithRule" => agent = Detected(messages)
    /\ pc \in {"filter", "task"} => last = messages[LastUser(messages)]
    /\ pc = "task" => older = Filtering(GetOldUserMsgs(messages))
    /\ pc \in {"tools", "rules", "assemble"} \cup Done /\ Processor # "Direct" /\ RulesApart => AllSaid
    /\ SentIs

(* The processor tells the mode. *)
LEMMA ModeIs ==
    /\ Processor \in {"Direct", "RagOnly", "RagWithRule"}
    /\ Processor # "Direct" => session.mode # "raw"
    /\ Processor = "RagOnly" => session.mode = "performance"
    /\ Processor = "RagWithRule" => session.mode # "performance"
<1>1. EffectiveMode = session.mode \/ EffectiveMode = "raw"
  BY DEF EffectiveMode
<1>2. CASE EffectiveMode = "raw"
  BY <1>2 DEF Processor
<1>3. CASE EffectiveMode = session.mode /\ EffectiveMode # "raw"
  BY <1>3 DEF Processor
<1> QED BY <1>1, <1>2, <1>3

(* Without a continuation marker, only the raw mode passes everything on. *)
LEMMA DirectIs ==
    ASSUME Processor = "Direct", ~session.marked, messages \in Seq(MessageType), Unmarked(messages)
    PROVE  session.mode = "raw"
<1>1. messages # <<>> => ~Last(messages).marked
  <2>1. messages # <<>> => Len(messages) \in DOMAIN messages
    OBVIOUS
  <2> QED BY <2>1 DEF Unmarked, Last
<1>2. EffectiveMode = session.mode
  BY <1>1 DEF EffectiveMode, ContinuationMarker
<1>3. EffectiveMode = "raw"
  BY DEF Processor
<1> QED BY <1>2, <1>3

(* The prompt that was put together is the one of the conversation. *)
LEMMA PromptNow ==
    ASSUME PInv, UInv, pc \in Done, RulesApart, ~session.marked, Unmarked(messages)
    PROVE  IsPrompt(prompt, messages)
<1>1. messages \in Seq(MessageType) /\ older \in Seq(MessageType)
  BY StatesTypes
<1>2. CASE Processor = "Direct"
  <2>1. prompt = messages
    BY <1>2 DEF PInv, PromptIs
  <2> QED BY <1>1, <1>2, <2>1, DirectIs DEF IsPrompt
<1>3. CASE Processor # "Direct"
  <2> DEFINE piece == GetOldUserMsgs(messages)
             n == Len(piece)
  <2>1. session.mode # "raw"
    BY <1>3, ModeIs
  <2>2. /\ DOMAIN older = 1..Len(older) /\ Len(older) \in Nat
        /\ Len(prompt) = Len(older) + 2
        /\ \A k \in DOMAIN older : prompt[k + 1] = older[k]
        /\ prompt[Len(older) + 2] = last
    BY <1>3, PromptParts
  <2>3. LastUser(messages) # 0 /\ DOMAIN older = DOMAIN piece
    BY <1>3 DEF PInv, Kept, OlderKept
  <2>4. piece \in Seq(MessageType)
    BY <1>1, <2>3, OlderIs
  <2>5. \A k \in 1..(n + 1) : (IF k > n THEN last ELSE older[k]) = SaidAt(messages, k)
    BY <1>3 DEF UInv, AllSaid
  <2> HIDE DEF piece
  <2>6. Len(older) = n /\ n \in Nat
    BY <2>2, <2>3, <2>4
  <2> HIDE DEF n
  <2>7. ASSUME NEW k \in 1..(n + 1) PROVE prompt[k + 1] = SaidAt(messages, k)
    <3>1. CASE k > n
      <4>1. k + 1 = Len(older) + 2
        BY <2>6, <3>1
      <4> QED BY <2>2, <2>5, <3>1, <4>1
    <3>2. CASE ~(k > n)
      <4>1. k \in DOMAIN older
        BY <2>2, <2>6, <3>2
      <4> QED BY <2>2, <2>5, <3>2, <4>1
    <3> QED BY <3>1, <3>2
  <2> QED BY <2>1, <2>2, <2>3, <2>6, <2>7 DEF IsPrompt, n, piece
<1> QED BY <1>2, <1>3

(* A step that leaves the conversation alone. *)
LEMMA SaidSame ==
    ASSUME UNCHANGED <<session, messages>>
    PROVE  /\ Processor' = Processor /\ (RulesApart' <=> RulesApart)
           /\ \A k : SaidAt(messages, k)' = SaidAt(messages, k)
           /\ UNCHANGED <<older, last>> => (AllSaid' <=> AllSaid)
           /\ UNCHANGED sent => (SentIs' <=> SentIs)
<1>1. Processor' = Processor
  BY SameProcessor
<1>2. \A k : SaidAt(messages, k)' = SaidAt(messages, k)
  BY DEF SaidAt, RulesFor, PromptMode, Filtering
<1>3. UNCHANGED <<older, last>> => (AllSaid' <=> AllSaid)
  BY <1>2 DEF AllSaid
<1>4. RulesApart' <=> RulesApart
  BY DEF RulesApart
<1>5. UNCHANGED sent => (SentIs' <=> SentIs)
  <2>1. ASSUME UNCHANGED sent, NEW ms PROVE IsPrompt(sent, ms)' <=> IsPrompt(sent, ms)
    <3>1. \A k : SaidAt(ms, k)' = SaidAt(ms, k)
      BY DEF SaidAt, RulesFor, PromptMode, Filtering
    <3> QED BY <2>1, <3>1 DEF IsPrompt
  <2> QED BY <1>4, <2>1 DEF SentIs
<1> QED BY <1>1, <1>2, <1>3, <1>4, <1>5

(* A step after the rules for the task, which leaves the messages alone.   *)
LEMMA UserAlone ==
    ASSUME UInv, UNCHANGED <<session, messages, agent, older, last, sent>>,
           pc' \in {"tools", "rules", "assemble"} \cup Done,
           pc \in {"tools", "rules", "assemble"} \cup Done
    PROVE  UInv'
<1>1. /\ Processor' = Processor /\ (RulesApart' <=> RulesApart)
      /\ AllSaid' <=> AllSaid
      /\ SentIs' <=> SentIs
  BY SaidSame
<1>2. Detected(messages)' = Detected(messages)
  OBVIOUS
<1> QED BY <1>1, <1>2 DEF UInv, InChain, Done

(* The steps of the chain keep what is known of the user's messages. *)
LEMMA PassUser == ASSUME UInv, Pass PROVE UInv'
<1>1. /\ Processor = "Direct" /\ pc' = "check"
      /\ UNCHANGED <<session, messages, agent, older, last, sent>>
  BY DEF Pass, Goes, promptMsg
<1>2. Processor' = Processor /\ (SentIs' <=> SentIs)
  BY <1>1, SaidSame
<1> QED BY <1>1, <1>2 DEF UInv

(* NewPromptMsg takes the messages and detects the agent. *)
LEMMA ArrangeUser == ASSUME PInv, UInv, Arrange PROVE UInv'
<1>1. pc = "arrange" /\ Processor # "Direct" /\ UNCHANGED <<session, messages, sent>>
  BY DEF Arrange
<1>2. /\ Processor' = Processor /\ (SentIs' <=> SentIs)
      /\ \A k : SaidAt(messages, k)' = SaidAt(messages, k)
  BY <1>1, SaidSame
<1>3. CASE LastUser(messages) = 0
  <2>1. pc' = "failed"
    BY <1>3 DEF Arrange, Goes
  <2> QED BY <1>2, <2>1 DEF UInv, InChain, Done
<1>4. CASE LastUser(messages) # 0
  <2>1. /\ last' = messages[LastUser(messages)]
        /\ older' = GetOldUserMsgs(messages)
        /\ IF Processor = "RagOnly"
           THEN pc' = "assemble" /\ UNCHANGED agent
           ELSE pc' = "filter" /\ agent' = Detected(messages)
    BY <1>4 DEF Arrange, Goes
  <2>2. CASE Processor = "RagOnly"
    <3>1. session.mode = "performance"
      BY <2>2, ModeIs
    <3>2. \A k : SaidAt(messages, k) =
                   IF k > Len(GetOldUserMsgs(messages)) THEN messages[LastUser(messages)]
                   ELSE GetOldUserMsgs(messages)[k]
      BY <3>1 DEF SaidAt
    <3>3. AllSaid'
      BY <1>1, <1>2, <2>1, <3>2 DEF AllSaid
    <3> QED BY <1>2, <2>1, <2>2, <3>3 DEF UInv, Done
  <2>3. CASE Processor # "RagOnly"
    <3>1. last' = messages'[LastUser(messages')] /\ agent' = Detected(messages')
      BY <1>1, <2>1, <2>3
    <3> QED BY <1>2, <2>1, <2>3, <3>1 DEF UInv, Done
  <2> QED BY <2>2, <2>3
<1> QED BY <1>3, <1>4

(* The filter. *)
LEMMA FilterUser == ASSUME PInv, UInv, Filter PROVE UInv'
<1>1. /\ pc = "filter" /\ pc' = "task"
      /\ UNCHANGED <<session, messages, agent, last, sent>>
      /\ older' = Filtering(older)
  BY DEF Filter, Goes, Chain, Filtering
<1>2. Processor' = Processor /\ (SentIs' <=> SentIs)
  BY <1>1, SaidSame
<1>3. older' = Filtering(GetOldUserMsgs(messages))'
  <2>1. older = GetOldUserMsgs(messages)
    BY <1>1 DEF PInv
  <2> QED BY <1>1, <2>1 DEF Filtering
<1> QED BY <1>1, <1>2, <1>3 DEF UInv, InChain, Done

(* The rules for the task, in whatever order they come. *)
LEMMA TaskUser == ASSUME PInv, SInv, UInv, ReplaceTask PROVE UInv'
<1>1. /\ pc = "task" /\ pc' = "tools" /\ UNCHANGED <<session, messages, agent, sent>>
  BY DEF ReplaceTask, Goes, Chain
<1>2. /\ Processor' = Processor /\ (SentIs' <=> SentIs) /\ (RulesApart' <=> RulesApart)
      /\ \A k : SaidAt(messages, k)' = SaidAt(messages, k)
  BY <1>1, SaidSame
<1> DEFINE piece == GetOldUserMsgs(messages)
           n == Len(piece)
           S == RulesFor(messages)
<1>3. /\ Processor = "RagWithRule" /\ session.mode # "performance"
      /\ agent = Detected(messages) /\ older = Filtering(piece)
      /\ last = messages[LastUser(messages)]
      /\ Kept /\ messages \in Seq(MessageType) /\ older \in Seq(MessageType)
      /\ last \in MessageType
  BY <1>1, ModeIs, StatesTypes DEF SInv, RuleChain, UInv, InChain, PInv
<1>4. ApplicableRules = S
  BY <1>3 DEF ApplicableRules, RulesFor, Matches
<1>5. piece \in Seq(MessageType) /\ DOMAIN older = DOMAIN piece
  BY <1>3, OlderIs DEF Kept, OlderKept
<1>6. \A k : SaidAt(messages, k) =
               LET m == IF k > n THEN last ELSE older[k]
               IN  IF k = 1 THEN [m EXCEPT !.content = Settled(@, S)] ELSE m
  BY <1>3 DEF SaidAt
<1>7. Detected(messages)' = Detected(messages) /\ GetOldUserMsgs(messages)' = piece
  BY <1>1
<1> HIDE DEF piece, S
<1>8. n \in Nat /\ DOMAIN older = 1..n /\ (older = <<>> <=> n = 0)
  BY <1>3, <1>5
<1> HIDE DEF n
<1>9. ASSUME RulesApart PROVE AllSaid'
  <2>1. S \in SUBSET TaskRuleType /\ IsFiniteSet(S) /\ Apart(S)
    <3>1. S \subseteq session.tasks
      BY DEF S, RulesFor
    <3>2. session.tasks \in SUBSET TaskRuleType /\ IsFiniteSet(session.tasks)
      BY StatesTypes DEF SessionType
    <3> QED BY <1>9, <3>1, <3>2, FS_Subset DEF Apart, RulesApart
  <2>2. PICK rules \in SetToSeqs(S) :
          IF older = <<>>
          THEN last' = [last EXCEPT !.content = Rewritten(@, rules)] /\ UNCHANGED older
          ELSE older' = [older EXCEPT ![1].content = Rewritten(@, rules)] /\ UNCHANGED last
    BY <1>4 DEF ReplaceTask
  <2>3. \A content \in ContentType : Rewritten(content, rules) = Settled(content, S)
    BY <2>1, RewrittenSettles
  <2>4. ASSUME NEW m \in MessageType
        PROVE  [m EXCEPT !.content = Rewritten(@, rules)] = [m EXCEPT !.content = Settled(@, S)]
    BY <2>3, MessageIs
  <2>5. ASSUME NEW k \in 1..(n + 1)
        PROVE  (IF k > n THEN last' ELSE older'[k]) = SaidAt(messages, k)
    <3>1. CASE n = 0
      <4>1. last' = [last EXCEPT !.content = Settled(@, S)]
        BY <1>3, <1>8, <2>2, <2>4, <3>1
      <4>2. k = 1 /\ k > n
        BY <3>1
      <4> QED BY <1>6, <4>1, <4>2
    <3>2. CASE n # 0
      <4>1. older[1] \in MessageType /\ 1 \in DOMAIN older /\ ~(1 > n)
        BY <1>3, <1>8, <3>2
      <4> DEFINE new == [older[1] EXCEPT !.content = Rewritten(@, rules)]
      <4>2. last' = last /\ older' = [older EXCEPT ![1] = new]
        BY <1>8, <2>2, <3>2
      <4>3. new = [older[1] EXCEPT !.content = Settled(@, S)]
        BY <2>4, <4>1
      <4> HIDE DEF new
      <4>4. CASE k = 1
        BY <1>6, <4>1, <4>2, <4>3, <4>4
      <4>5. CASE k # 1 /\ k > n
        BY <1>6, <4>2, <4>5
      <4>6. CASE k # 1 /\ ~(k > n)
        <5>1. older'[k] = older[k]
          BY <4>2, <4>6
        <5> QED BY <1>6, <4>6, <5>1
      <4> QED BY <4>4, <4>5, <4>6
    <3> QED BY <3>1, <3>2
  <2> QED BY <1>2, <1>7, <2>5 DEF AllSaid, n
<1> QED BY <1>1, <1>2, <1>3, <1>7, <1>9 DEF UInv, Done

(* What a prompt is depends on the session alone. *)
LEMMA PromptSame ==
    ASSUME session' = session
    PROVE  \A p, ms : IsPrompt(p, ms)' <=> IsPrompt(p, ms)
<1>1. \A ms, k : SaidAt(ms, k)' = SaidAt(ms, k)
  BY DEF SaidAt, RulesFor, PromptMode, Filtering
<1> QED BY <1>1 DEF IsPrompt

(* A prompt that becomes the one sent before. *)
LEMMA PromptSent ==
    ASSUME session' = session, NEW m, SubSeq(messages', 1, m) = messages, sent' = prompt,
           IsPrompt(prompt, messages)
    PROVE  IsPrompt(sent, SubSeq(messages, 1, m))'
BY PromptSame

(* What has been sent is the beginning of what is sent next. *)
LEMMA NextTurnUser == ASSUME PInv, UInv, NextTurn PROVE UInv'
<1>1. /\ pc = "sent" /\ pc' = "arrange" /\ session' = session /\ sent' = prompt
  BY DEF NextTurn, Goes
<1>2. ASSUME sent' # <<>>, RulesApart', ~session'.marked
      PROVE  \E m \in 1..Len(messages') :
                Unmarked(SubSeq(messages', 1, m)) => IsPrompt(sent, SubSeq(messages, 1, m))'
  <2>1. PICK new \in Appended : messages' = Numbered(messages \o new)
    BY DEF NextTurn
  <2> DEFINE all == messages \o new
  <2>0. PICK m : m = Len(messages)
    OBVIOUS
  <2>2. messages \in Seq(MessageType) /\ new \in Seq(MessageType)
    <3>1. new \in Seq(ClientMessage)
      BY PromptAssumption
    <3> QED BY <3>1, StatesTypes, ClientIsMessage
  <2>3. /\ all \in Seq(MessageType) /\ Len(all) >= m /\ m \in Nat
        /\ \A i \in 1..m : all[i] = messages[i]
    BY <2>0, <2>2
  <2>4. messages # <<>>
    <3>1. CASE Processor = "Direct"
      BY <1>1, <1>2, <3>1 DEF PInv, PromptIs, Done
    <3>2. CASE Processor # "Direct"
      <4>1. LastUser(messages) # 0
        BY <1>1, <3>2 DEF PInv, Kept, Done
      <4>2. LastUser(messages) \in DOMAIN messages
        BY <2>2, <4>1, Placed
      <4> QED BY <4>2
    <3> QED BY <3>1, <3>2
  <2> HIDE DEF all
  <2>5. messages' = [i \in 1..Len(all) |-> [all[i] EXCEPT !.id = i]]
    <3>1. messages' = [i \in DOMAIN all |-> [all[i] EXCEPT !.id = i]]
      BY <2>1 DEF Numbered, all
    <3>2. DOMAIN all = 1..Len(all)
      BY <2>3
    <3> QED BY <3>1, <3>2
  <2>6. \A i \in 1..m : messages[i] \in MessageType /\ messages[i].id = i
    BY <2>0, <2>2 DEF PInv, Conversation
  <2>7. \A i \in 1..m : [messages[i] EXCEPT !.id = i] = messages[i]
    <3>1. \A x \in MessageType : [x EXCEPT !.id = x.id] = x
      BY DEF MessageType
    <3> QED BY <2>6, <3>1
  <2>8. \A i \in 1..m : messages'[i] = messages[i]
    <3> SUFFICES ASSUME NEW i \in 1..m PROVE messages'[i] = messages[i]
      OBVIOUS
    <3>1. i \in 1..Len(all)
      BY <2>3
    <3>2. messages'[i] = [all[i] EXCEPT !.id = i]
      BY <2>5, <3>1
    <3> QED BY <2>3, <2>7, <3>2
  <2>9. Len(messages') = Len(all)
    BY <2>3, <2>5
  <2>10. SubSeq(messages', 1, m) = messages
    <3>1. SubSeq(messages', 1, m) = [i \in 1..m |-> messages'[i]]
      BY <2>3, <2>9
    <3>2. messages = [i \in 1..m |-> messages[i]]
      BY <2>0, <2>2
    <3> QED BY <2>8, <3>1, <3>2
  <2>11. m \in 1..Len(messages')
    <3>1. m # 0
      BY <2>0, <2>2, <2>4
    <3> QED BY <2>3, <2>9, <3>1
  <2>12. RulesApart /\ ~session.marked
    BY <1>1, <1>2 DEF RulesApart
  <2>13. Unmarked(messages) => IsPrompt(prompt, messages)
    BY <1>1, <2>12, PromptNow DEF Done
  <2>14. IsPrompt(prompt, messages) => IsPrompt(sent, SubSeq(messages, 1, m))'
    BY <1>1, <2>10, PromptSent
  <2> QED BY <2>10, <2>11, <2>13, <2>14
<1>3. SentIs'
  BY <1>2 DEF SentIs
<1> QED BY <1>1, <1>3 DEF UInv, InChain, Done

(* Every step keeps what is known of the user's messages. *)
LEMMA StepUInv == ASSUME PInv, SInv, UInv, [Next]_vars PROVE UInv'
<1>1. CASE UNCHANGED vars
  <2>1. UNCHANGED <<session, messages, pc, agent, older, last, sent>>
    BY <1>1 DEF vars, promptMsg
  <2>2. /\ Processor' = Processor /\ (RulesApart' <=> RulesApart)
        /\ AllSaid' <=> AllSaid
        /\ SentIs' <=> SentIs
    BY <2>1, SaidSame
  <2>3. Filtering(GetOldUserMsgs(messages))' = Filtering(GetOldUserMsgs(messages))
    BY <2>1 DEF Filtering
  <2>4. Detected(messages)' = Detected(messages) /\ LastUser(messages)' = LastUser(messages)
    BY <2>1
  <2> QED BY <2>1, <2>2, <2>3, <2>4 DEF UInv
<1>2. CASE AdaptTools
  <2>1. pc = "tools" /\ pc' = "rules" /\ UNCHANGED <<session, messages, agent, older, last, sent>>
    BY <1>2 DEF AdaptTools, Goes, Chain
  <2> QED BY <2>1, UserAlone
<1>3. CASE InjectRules
  <2>1. pc = "rules" /\ pc' = "assemble" /\ UNCHANGED <<session, messages, agent, older, last, sent>>
    BY <1>3 DEF InjectRules, Goes, Chain
  <2> QED BY <2>1, UserAlone
<1>4. CASE Assemble
  <2>1. pc = "assemble" /\ pc' = "check" /\ UNCHANGED <<session, messages, agent, older, last, sent>>
    BY <1>4 DEF Assemble, Goes, promptMsg
  <2> QED BY <2>1, UserAlone DEF Done
<1>5. CASE Check
  <2>1. /\ pc = "check" /\ pc' \in {"refused", "sent"}
        /\ UNCHANGED <<session, messages, agent, older, last, sent>>
    BY <1>5 DEF Check, Goes, promptMsg
  <2> QED BY <2>1, UserAlone DEF Done
<1>6. CASE InsertionPanics
  <2>1. pc' = "failed" /\ UNCHANGED <<session, messages, sent>>
    BY <1>6 DEF InsertionPanics, Goes
  <2>2. SentIs' <=> SentIs
    BY <2>1, SaidSame
  <2> QED BY <2>1, <2>2 DEF UInv, InChain, Done
<1> QED BY <1>1, <1>2, <1>3, <1>4, <1>5, <1>6, PassUser, ArrangeUser, FilterUser, TaskUser,
        NextTurnUser DEF Next

(* It is known in every state. *)
THEOREM UserInvariance == Spec => []UInv
<1>1. Init => UInv
  BY DEF Init, UInv, SentIs, InChain, Done
<1>2. PInv /\ SInv /\ UInv /\ [Next]_vars => UInv'
  BY StepUInv
<1> QED BY <1>1, <1>2, Invariance, SystemInvariance, PTL DEF Spec

(* The prompts of two turns, and what the later one keeps. *)
LEMMA PrefixFollows == PInv /\ UInv => PrefixStable
<1> SUFFICES ASSUME PInv, UInv, pc = "sent", sent # <<>>, FirstSystem(messages) = 1, RulesApart,
                    ~session.marked, Unmarked(messages)
             PROVE  PrefixStable
  BY DEF PrefixStable, Unmarked
<1>1. messages \in Seq(MessageType) /\ session \in SessionType /\ Apart(session.tasks)
  BY StatesTypes DEF RulesApart, Apart
<1>2. IsPrompt(prompt, messages)
  BY PromptNow DEF Done
<1>3. PICK m \in 1..Len(messages) :
        Unmarked(SubSeq(messages, 1, m)) => IsPrompt(sent, SubSeq(messages, 1, m))
  BY DEF UInv, SentIs
<1>4. Unmarked(SubSeq(messages, 1, m))
  <2>1. \A i \in DOMAIN SubSeq(messages, 1, m) :
          i \in DOMAIN messages /\ SubSeq(messages, 1, m)[i] = messages[i]
    BY <1>1
  <2> QED BY <2>1 DEF Unmarked
<1>5. Grown(prompt, sent)
  BY <1>1, <1>2, <1>3, <1>4, PromptGrows
<1> QED BY <1>5 DEF Grown, Like, NotEnvironments, PrefixStable

(* What the model has seen in one turn it sees again in the next, for      *)
(* conversations of any length that the client goes on with in any way,    *)
(* and in whatever order the rules for the task come each time.            *)
THEOREM PrefixesAreStable == Spec => []PrefixStable
BY Invariance, UserInvariance, PrefixFollows, PTL
===============================================================================
