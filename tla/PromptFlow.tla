----------------------------- MODULE PromptFlow -----------------------------
(***************************************************************************)
(* From the messages of a request to the prompt that the model gets:       *)
(* processRequest of internal/logic/chat.go, the choice of a processor in  *)
(* internal/promptflow/scheduler.go, and the chain of processors           *)
(*   UserMsgFilter, TaskContentProcessor, XmlToolAdapter, RulesInjector    *)
(* with one action for each.  The client keeps the conversation: a turn    *)
(* appends to it, and every turn sends all of it again.                    *)
(*                                                                         *)
(* A text is the sequence of its sections: the headings that the           *)
(* processors look for, and the words that they put in or take out.        *)
(***************************************************************************)
EXTENDS Lists

CONSTANTS
    Words,      \* what the sections of a text are
    Sessions,   \* requests' modes and configurations, see SessionType
    Openings,   \* what the first request of a conversation sends
    Appended,   \* what a client appends for its next request
    MaxTurns    \* bound: the requests of a conversation

Roles == {"system", "user", "assistant", "tool"}
Agents == {"", "code"}     \* "": none detected
Modes == {"", "vibe", "strict", "performance", "raw"}

(* How a content is given: null, a string, a list as JSON gives it, or the *)
(* []model.Content that a processor has put in its place.                  *)
Forms == {"null", "string", "list", "contents"}

(* A part of a list is a text or, with kind "image", anything else.        *)
PartType == [kind : {"text", "image"}, text : Seq(Words)]
ContentType ==
    {content \in [form : Forms, parts : Seq(PartType)] :
        content.form = "string" => Len(content.parts) = 1 /\ content.parts[1].kind = "text"}
MessageType == [id : Nat, role : Roles, marked : BOOLEAN, content : ContentType]
TaskRuleType == [for : SUBSET (Modes \X Agents), skip : Words, key : Words, value : Words]

SessionType ==
    [mode : Modes,                               \* ExtraBody.PromptMode
     marked : BOOLEAN,                           \* continue_final_message
     language : BOOLEAN,                         \* identity.Language is given
     modify : BOOLEAN,                           \* PromptProcessing.ModifySystemPrompt
     envFilter : BOOLEAN,                        \* EnableEnvDetailsFilter
     modesOff : SUBSET (Modes \X Agents),        \* DisabledModesChangeAgents
     tasks : SUBSET TaskRuleType,                \* TaskContentReplaceRule
     toolsOff : SUBSET (Modes \X Agents),        \* Tools.DisabledAgents or DisableTools
     tools : BOOLEAN,                            \* a tool is configured
     rules : SUBSET (Modes \X Agents)]           \* Rules: who gets the agent's rules

(* The words that the processors insert.  Each stands for what is inserted *)
(* and not for what a client may have written alike.                       *)
Inserted == {"##tool", "capability", "rule", "agent_rules", "language"}

ClientMessage ==
    {m \in MessageType :
        /\ m.content.form # "contents"
        /\ m.role = "system" =>
             \A j \in DOMAIN m.content.parts : Range(m.content.parts[j].text) \cap Inserted = {}}

ASSUME PromptAssumption ==
    /\ Inserted \subseteq Words
    /\ Sessions \subseteq {s \in SessionType : IsFiniteSet(s.tasks)}
    /\ Openings \cup Appended \subseteq Seq(ClientMessage)
    /\ \A ms \in Openings : \A i \in DOMAIN ms : ms[i].id = i
    /\ MaxTurns \in Nat \ {0}

VARIABLES
    session,    \* the requests' mode and the configuration
    turn,       \* the number of the request
    messages,   \* request.Messages
    pc,         \* the processor that comes next
    agent,      \* RagCompressProcessor.agentName
    system,     \* PromptMsg.systemMsg
    older,      \* PromptMsg.olderUserMsgList
    last,       \* PromptMsg.lastUserMsg
    prompt,     \* ProcessedPrompt.Messages
    sent        \* history: the prompt of the turn before, <<>> if there was none

promptMsg == <<system, older, last>>
vars == <<session, turn, messages, pc, agent, promptMsg, prompt, sent>>

-----------------------------------------------------------------------------
(* Messages, internal/utils/msg_util.go and internal/model/msg_content.go. *)

Text(words) == [kind |-> "text", text |-> words]
String(words) == [form |-> "string", parts |-> <<Text(words)>>]
AddedSystem == [id |-> 0, role |-> "system", marked |-> FALSE, content |-> String(<<>>)]

(* isEmptyContent: a list of empty texts is not empty.                     *)
Empty(content) ==
    \/ content.form = "null"
    \/ content.form = "string" /\ content.parts[1].text = <<>>
    \/ content.form = "list" /\ content.parts = <<>>

(* ExtractMsgContent: the texts; what is no text is left out.              *)
Texts(content) ==
    Among(content.parts, {part \in Range(content.parts) : part.kind = "text"})

FirstSystem(ms) == SelectInSeq(ms, LAMBDA m : m.role = "system")
LastUser(ms) == SelectLastInSeq(ms, LAMBDA m : m.role \in {"user", "tool"})

GetSystemMsg(ms) == IF FirstSystem(ms) = 0 THEN AddedSystem ELSE ms[FirstSystem(ms)]

(* GetOldUserMsgsWithNum(ms, 1): a conversation without a system message   *)
(* is cut as if it began with one.                                         *)
SystemPosition(ms) == IF FirstSystem(ms) = 0 THEN 1 ELSE FirstSystem(ms)
OlderFromSystem(ms) == SystemPosition(ms)   \* mutant: the system message once more
OlderFrom(ms) == SystemPosition(ms) + 1
GetOldUserMsgs(ms) ==
    IF Len(ms) <= 1 THEN <<>> ELSE SubSeq(ms, OlderFrom(ms), LastUser(ms) - 1)

(* ExtractSystemContent: a system message with one text, no more no less.  *)
OneText(content) == content.form # "null" /\ Len(Texts(content)) = 1
SystemText == Texts(system.content)[1].text

(* UpdateSystemMsg: nothing, unless the configuration allows it.           *)
UpdateSystemMsg(words) ==
    system' = IF session.modify
              THEN [system EXCEPT !.content = [form |-> "contents", parts |-> <<Text(words)>>]]
              ELSE system

-----------------------------------------------------------------------------
(* What the processors do to a text.                                       *)

Without(words, word) == Among(words, Range(words) \ {word})

(* The first of some words from a place on, and 0 if there is none. *)
FirstOf(some, words, from) ==
    SelectInSubSeq(words, from, Len(words), LAMBDA w : w \in some)

(* removeContentSection: from the heading to the next one of its rank; a   *)
(* section that ends the text stays.                                       *)
RemoveSection(words, heading, headings) ==
    LET i == FirstOf({heading}, words, 1)
        j == IF i = 0 THEN 0 ELSE FirstOf(headings, words, i + 1)
    IN IF j = 0 THEN words ELSE SubSeq(words, 1, i - 1) \o SubSeq(words, j, Len(words))

InsertAfter(words, marker, new) ==
    LET i == FirstOf({marker}, words, 1)
    IN SubSeq(words, 1, i) \o new \o SubSeq(words, i + 1, Len(words))

Headings == {"----CAPABILITIES", "----RULES", "----MODES"}
SubHeadings == {"##tool", "##switch_mode", "##more"}
Markers == {"# Tools", "----CAPABILITIES", "----RULES"}

(* insertToolsIntoSystemContent: the tool's description, capability and    *)
(* rule if it is ready.                                                    *)
InsertTools(words, ready) ==
    LET new(word) == IF session.tools /\ ready THEN <<word>> ELSE <<>>
        described == InsertAfter(words, "# Tools", new("##tool"))
        capable == InsertAfter(described, "----CAPABILITIES", new("capability"))
    IN InsertAfter(capable, "----RULES", new("rule"))

HasMarkers(words) == Markers \subseteq Range(words)

(* applyReplacements and the skip key.  A rule has one key here.  The code *)
(* gives a whole map of keys to strings.NewReplacer in the order that Go   *)
(* draws, which replaces them in one pass.  Of two keys of which one       *)
(* begins the other, the one that comes first is taken, so the text would  *)
(* change from request to request; other keys do the same in any order.    *)
Replace(words, rule) ==
    IF rule.skip \in Range(words) THEN words ELSE ReplaceAll(words, rule.key, rule.value)

(* updateMessageContent: the first text, by the rules in some order; once  *)
(* it has changed, the texts alone are the content.                        *)
RewrittenBy(content, rule) ==
    LET texts == Texts(content)
        words == Replace(texts[1].text, rule)
    IN IF content.form = "null" \/ texts = <<>> \/ words = texts[1].text
       THEN content
       ELSE [form |-> "contents", parts |-> [texts EXCEPT ![1].text = words]]
Rewritten(content, rules) ==
    LET after[k \in 0..Len(rules)] ==
            IF k = 0 THEN content ELSE RewrittenBy(after[k - 1], rules[k])
    IN  after[Len(rules)]

(* filterEnvironmentDetails: of all texts that begin with the environment, *)
(* in the lists of older user messages, the first is kept.                 *)
IsEnvironment(part) ==
    part.kind = "text" /\ part.text # <<>> /\ Head(part.text) = "<environment_details>"
Filtered(m) == m.role = "user" /\ m.content.form = "list"
(* mutant: the last one is kept                                            *)
RepeatedLater(ms, i, j) ==
    /\ IsEnvironment(ms[i].content.parts[j])
    /\ \E k \in i..Len(ms) : /\ Filtered(ms[k])
                             /\ \E l \in DOMAIN ms[k].content.parts :
                                   /\ k > i \/ l > j
                                   /\ IsEnvironment(ms[k].content.parts[l])
Repeated(ms, i, j) ==
    /\ IsEnvironment(ms[i].content.parts[j])
    /\ \E k \in 1..i : /\ Filtered(ms[k])
                       /\ \E l \in DOMAIN ms[k].content.parts :
                             /\ k < i \/ l < j
                             /\ IsEnvironment(ms[k].content.parts[l])
RemoveEnvironments(ms) ==
    [i \in DOMAIN ms |->
        IF ~Filtered(ms[i]) THEN ms[i]
        ELSE LET kept == {j \in DOMAIN ms[i].content.parts : ~Repeated(ms, i, j)}
             IN [ms[i] EXCEPT !.content.parts = EntriesAt(@, Ascending(kept))]]

(* filterAssistantToolPatterns: strings only.                              *)
RemoveToolPatterns(ms) ==
    [i \in DOMAIN ms |->
        IF ms[i].role = "assistant" /\ ms[i].content.form = "string"
        THEN [ms[i] EXCEPT !.content = String(Without(ms[i].content.parts[1].text, "searching"))]
        ELSE ms[i]]

-----------------------------------------------------------------------------
(* Which processor a request gets.                                         *)

(* resolveEffectivePromptMode                                              *)
ContinuationMarker ==
    session.marked \/ (messages # <<>> /\ Last(messages).role = "assistant" /\ Last(messages).marked)
EffectiveMode ==
    IF session.mode = "" /\ ContinuationMarker THEN "raw" ELSE session.mode

(* NewRagCompressProcessor calls the default mode "vibe".                  *)
PromptMode == IF session.mode = "" THEN "vibe" ELSE session.mode
Matches(pairs) == <<PromptMode, agent>> \in pairs
ApplicableRules == {rule \in session.tasks : rule.for = {} \/ Matches(rule.for)}

(* NewPromptProcessor                                                      *)
Processor ==
    CASE EffectiveMode = "raw" -> "Direct"
      [] EffectiveMode = "performance" -> "RagOnly"
      [] OTHER -> "RagWithRule"

(* buildProcessorChain: who comes after whom.                              *)
Chain == [filter |-> "task", task |-> "tools", tools |-> "rules", rules |-> "assemble"]
Goes(next) == pc' = next

Init ==
    /\ session \in Sessions /\ messages \in Openings
    /\ turn = 1 /\ pc = "arrange" /\ agent = ""
    /\ system = AddedSystem /\ older = <<>> /\ last = AddedSystem
    /\ prompt = <<>> /\ sent = <<>>

(* DirectProcessor.Arrange                                                 *)
Pass ==
    /\ pc = "arrange" /\ Processor = "Direct"
    /\ prompt' = messages /\ Goes("check")
    /\ UNCHANGED <<session, turn, messages, agent, promptMsg, sent>>

(* mutant: the first heading is taken for the agent                        *)
DetectedKey(ms) ==
    LET content == GetSystemMsg(ms).content
    IN IF OneText(content) /\ Texts(content)[1].text # <<>> THEN Head(Texts(content)[1].text) ELSE ""

(* NewPromptMsg, and detectAgent in the first paragraph of the system      *)
(* message, which RagOnlyProcessor does not do.                            *)
Detected(ms) ==
    LET content == GetSystemMsg(ms).content
    IN IF OneText(content) /\ Texts(content)[1].text # <<>> /\ Head(Texts(content)[1].text) = "agent:code"
       THEN "code" ELSE ""

Arrange ==
    /\ pc = "arrange" /\ Processor # "Direct"
    /\ IF LastUser(messages) = 0
       THEN Goes("failed") /\ UNCHANGED <<agent, promptMsg>>
       ELSE /\ system' = GetSystemMsg(messages)
            /\ last' = messages[LastUser(messages)]
            /\ older' = GetOldUserMsgs(messages)
            /\ IF Processor = "RagOnly"
               THEN Goes("assemble") /\ UNCHANGED agent
               ELSE Goes("filter") /\ agent' = Detected(messages)
    /\ UNCHANGED <<session, turn, messages, prompt, sent>>

(* filterModesChangeContent                                                *)
FilterModes ==
    IF Matches(session.modesOff) /\ OneText(system.content)
    THEN LET one == RemoveSection(SystemText, "##switch_mode", SubHeadings)
         IN UpdateSystemMsg(RemoveSection(one, "----MODES", Headings))
    ELSE UNCHANGED system

(* UserMsgFilter.Execute                                                   *)
Filter ==
    /\ pc = "filter"
    /\ older' = IF session.envFilter THEN RemoveEnvironments(RemoveToolPatterns(older))
                ELSE RemoveToolPatterns(older)
    /\ FilterModes
    /\ Goes(Chain[pc])
    /\ UNCHANGED <<session, turn, messages, agent, last, prompt, sent>>

(* TaskContentProcessor.Execute: the rules are a map, whose order Go draws *)
(* anew each time.  The task is the first message after the system message,*)
(* whoever said it.                                                        *)
ReplaceTask ==
    /\ pc = "task"
    /\ \E rules \in SetToSeqs(ApplicableRules) :
          IF older = <<>>
          THEN last' = [last EXCEPT !.content = Rewritten(@, rules)] /\ UNCHANGED older
          ELSE older' = [older EXCEPT ![1].content = Rewritten(@, rules)] /\ UNCHANGED last
    /\ Goes(Chain[pc])
    /\ UNCHANGED <<session, turn, messages, agent, system, prompt, sent>>

(* XmlToolAdapter.Execute: all three markers, or nothing is inserted.      *)
AdaptTools ==
    /\ pc = "tools"
    /\ IF ~Matches(session.toolsOff) /\ OneText(system.content) /\ HasMarkers(SystemText)
       THEN \E ready \in BOOLEAN : UpdateSystemMsg(InsertTools(SystemText, ready))
       ELSE UNCHANGED system
    /\ Goes(Chain[pc])
    /\ UNCHANGED <<session, turn, messages, agent, older, last, prompt, sent>>

(* insertContentAfterMarker looks for the end of the marker's line, and    *)
(* for a marker that is the last of the text without one it slices beyond  *)
(* the text: the handler panics, before it looks for the other markers and *)
(* whether or not the system message may be modified.  Whether the last    *)
(* line has an end is not said by its words.                               *)
InsertionPanics ==
    /\ pc = "tools"
    /\ ~Matches(session.toolsOff) /\ OneText(system.content)
    /\ SystemText # <<>> /\ FirstOf({"# Tools"}, SystemText, 1) = Len(SystemText)
    /\ Goes("failed")
    /\ UNCHANGED <<session, turn, messages, agent, promptMsg, prompt, sent>>

(* RulesInjector.Execute                                                   *)
InjectRules ==
    /\ pc = "rules"
    /\ IF OneText(system.content)
       THEN UpdateSystemMsg(SystemText \o (IF Matches(session.rules) THEN <<"agent_rules">> ELSE <<>>))
       ELSE UNCHANGED system
    /\ Goes(Chain[pc])
    /\ UNCHANGED <<session, turn, messages, agent, older, last, prompt, sent>>

(* mutant: the language is set although the system message is not ours     *)
SpokenAlways(m) ==
    IF m.content.parts = <<>> THEN m
    ELSE [m EXCEPT !.content.parts[1].text = Append(@, "language")]

(* SetLanguage speaks only to a system message that a processor has        *)
(* written.                                                                *)
Spoken(m) ==
    LET n == Len(m.content.parts)
    IN IF session.modify /\ session.language /\ m.content.form = "contents" /\ n > 0
       THEN [m EXCEPT !.content.parts[n].text = Append(@, "language")]
       ELSE m

(* createProcessedPrompt, AssemblePrompt                                   *)
Assemble ==
    /\ pc = "assemble"
    /\ prompt' = <<Spoken(system)>> \o older \o <<last>>
    /\ Goes("check")
    /\ UNCHANGED <<session, turn, messages, agent, promptMsg, sent>>

(* mutant: any role                                                        *)
RefusedAny(ms) == \E i \in DOMAIN ms : Empty(ms[i].content)

(* processRequest refuses a prompt with an empty message of the user.      *)
Refused(ms) == \E i \in DOMAIN ms : ms[i].role = "user" /\ Empty(ms[i].content)

Check ==
    /\ pc = "check"
    /\ Goes(IF Refused(prompt) THEN "refused" ELSE "sent")
    /\ UNCHANGED <<session, turn, messages, agent, promptMsg, prompt, sent>>

(* The client adds the answer and what the user says next, or a tool's     *)
(* result, and sends the conversation again.                               *)
Numbered(ms) == [i \in DOMAIN ms |-> [ms[i] EXCEPT !.id = i]]
NextTurn ==
    /\ pc = "sent" /\ turn < MaxTurns
    /\ \E new \in Appended : messages' = Numbered(messages \o new)
    /\ turn' = turn + 1 /\ Goes("arrange") /\ agent' = ""
    /\ sent' = prompt /\ prompt' = <<>>
    /\ system' = AddedSystem /\ older' = <<>> /\ last' = AddedSystem
    /\ UNCHANGED session

Next ==
    \/ Pass \/ Arrange \/ Filter \/ ReplaceTask \/ AdaptTools \/ InsertionPanics
    \/ InjectRules \/ Assemble \/ Check \/ NextTurn

Spec == Init /\ [][Next]_vars

-----------------------------------------------------------------------------
(* Properties                                                              *)

Ended == {"failed", "refused", "sent"}

TypeOK ==
    /\ session \in Sessions /\ turn \in 1..MaxTurns
    /\ pc \in {"arrange", "filter", "task", "tools", "rules", "assemble", "check"} \cup Ended
    /\ agent \in Agents
    /\ \A ms \in {messages, older, <<system, last>>, prompt, sent} : ms \in Seq(MessageType)

Ids(ms) == [i \in DOMAIN ms |-> ms[i].id]
HasSystem == FirstSystem(messages) # 0
Images(content) ==
    Among(content.parts, {part \in Range(content.parts) : part.kind = "image"})

(* The prompt is the system message and an unbroken piece of the           *)
(* conversation that ends with what the user or a tool said last, from     *)
(* the message after the system message if that comes first; an image can  *)
(* only be lost in the first message, to a rule that applied to it.        *)
(* GetOldUserMsgsWithNum, AssemblePrompt, filterEnvironmentDetails,        *)
(* updateMessageContent                                                    *)
ConversationKept ==
    pc = "sent" =>
    IF Processor = "Direct" THEN prompt = messages
    ELSE LET said == Tail(prompt)
             first == said[1].id
         IN /\ prompt[1].role = "system"
            /\ Ids(said) = [i \in 1..(LastUser(messages) - first + 1) |-> first + i - 1]
            /\ FirstSystem(messages) = 1 => first = 2
            /\ \A i \in DOMAIN said :
                  LET m == messages[said[i].id]
                  IN \/ Images(said[i].content) = Images(m.content)
                     \/ i = 1 /\ Images(said[i].content) = <<>> /\ ApplicableRules # {}

(* A client whose own messages all say something is refused only for a     *)
(* message that was nothing but the environment, sent again: accepted when *)
(* it was the last, emptied by the filter once it is an older one.         *)
(* processRequest, filterEnvironmentDetails                                *)
RefusedExplained ==
    pc = "refused" =>
    \E i \in DOMAIN messages :
        LET m == messages[i]
        IN /\ m.role = "user"
           /\ \/ Empty(m.content)
              \/ /\ session.envFilter /\ m.content.form = "list" /\ i < LastUser(messages)
                 /\ \A j \in DOMAIN m.content.parts : IsEnvironment(m.content.parts[j])

(* The rules for the task do not feed or block each other; and no key of a *)
(* rule begins another one of it, which goes without saying here, where a  *)
(* rule has one key (see Replace).                                         *)
RulesApart ==
    \A r1, r2 \in session.tasks :
        r1 # r2 => {r1.key, r1.value} \cap {r2.key, r2.skip} = {}

(* What the model saw in one turn of a conversation it sees again in the   *)
(* next, so that its cache of the prompt holds: the messages before the    *)
(* last are the same, and the one that was the last lacks at most          *)
(* environments.  It takes a system message to begin with, and rules that  *)
(* are apart: they come in any order.                                      *)
(* UserMsgFilter, TaskContentProcessor over the turns of a conversation    *)
PrefixStable ==
    LET n == Len(sent)
        apart(parts) == Among(parts, {part \in Range(parts) : ~IsEnvironment(part)})
    IN pc = "sent" /\ sent # <<>> /\ FirstSystem(messages) = 1 /\ RulesApart
       /\ ~session.marked /\ (\A i \in DOMAIN messages : ~messages[i].marked) =>
          /\ Len(prompt) >= n
          /\ \A i \in 2..(n - 1) : prompt[i] = sent[i]
          /\ prompt[n].id = sent[n].id
          /\ apart(prompt[n].content.parts) = apart(sent[n].content.parts)

Count(words, word) == Cardinality({i \in DOMAIN words : words[i] = word})

(* The client's system message is not touched unless the configuration     *)
(* says so; if it does, nothing of it is lost or moved unless the agent    *)
(* may not change modes, nothing is inserted twice, and a tool comes with  *)
(* its description, its capability and its rule or not at all.             *)
(* UpdateSystemMsg, SetLanguage, insertToolsIntoSystemContent              *)
SystemKept ==
    pc = "sent" /\ Processor # "Direct" =>
    LET before == GetSystemMsg(messages)
        words == prompt[1].content.parts[1].text
        own == Among(words, Range(words) \ Inserted)
    IN IF session.modify /\ OneText(before.content) /\ Processor = "RagWithRule"
       THEN /\ Matches(session.modesOff) \/ own = Texts(before.content)[1].text
            /\ \A word \in Inserted : Count(words, word) <= 1
            /\ Count(words, "##tool") = Count(words, "capability")
            /\ Count(words, "##tool") = Count(words, "rule")
       ELSE prompt[1] = before

(* No message of the user is lost: "只保留 system/user" (only system and     *)
(* user are kept), prefill_continue.go:12.  A conversation without a       *)
(* system message loses its first one.                                     *)
(* NewPromptMsg, GetOldUserMsgsWithNum                                     *)
UserMessagesKept ==
    pc = "sent" /\ ~HasSystem =>
    \A i \in DOMAIN messages :
        messages[i].role = "user" => \E j \in DOMAIN prompt : prompt[j].id = i
=============================================================================
