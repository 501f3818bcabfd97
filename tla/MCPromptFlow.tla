---------------------------- MODULE MCPromptFlow ----------------------------
(* Conversations that begin with or without a system message, with the     *)
(* environment in several places and an image beside the task, and         *)
(* configurations that touch the system message, the task or neither.      *)
EXTENDS PromptFlow

MCWords == STRING

Says(role, content) == [id |-> 0, role |-> role, marked |-> FALSE, content |-> content]
List(parts) == [form |-> "list", parts |-> parts]
Null == [form |-> "null", parts |-> <<>>]
Image == [kind |-> "image", text |-> <<>>]
Env == Text(<<"<environment_details>">>)

Chapters == <<"agent:code", "# Tools", "##switch_mode", "##more",
              "----CAPABILITIES", "----MODES", "----RULES">>
Code == Says("system", String(Chapters))
Plain == Says("system", List(<<Text(<<"prompt", "----RULES", "# Tools">>)>>))
Task == Says("user", List(<<Text(<<"task">>), Image, Env>>))
Said == Says("user", String(<<"task">>))
OnlyEnv == Says("user", List(<<Env>>))
Silent == Says("user", String(<<>>))
Answer == Says("assistant", String(<<"searching">>))
Call == Says("assistant", Null)
Result == Says("tool", List(<<Env, Image>>))
Begun == [Answer EXCEPT !.marked = TRUE]

MCOpenings ==
    {Numbered(ms) : ms \in
        {<<Code, Task>>, <<Plain, Said>>, <<Code, Said, Answer, Task>>, <<Said>>,
         <<Said, Answer, Task>>, <<Task, Code, Said>>, <<Said, Plain>>, <<Code, Silent>>,
         <<Plain, Task, Begun>>, <<Code, Task, Task>>, <<Code>>}}
MCAppended ==
    {<<Answer, Said>>, <<Answer, Task>>, <<Answer, OnlyEnv>>, <<Call, Result>>,
     <<Answer, Said, Answer>>, <<Answer, Begun, Silent>>}

Rule(skip, key, value) == [for |-> {}, skip |-> skip, key |-> key, value |-> value]
ForCode == {<<"vibe", "code">>, <<"strict", "">>}
RuleSets ==
    {{}, {Rule("done", "task", "done")}, {[Rule("x", "task", "y") EXCEPT !.for = ForCode]},
     {Rule("x", "task", "y"), Rule("y", "task", "z")}}

MCSessions ==
    [mode : {"", "strict", "performance", "raw"}, marked : {FALSE}, language : {TRUE},
     modify : BOOLEAN, envFilter : BOOLEAN, modesOff : {{}, ForCode}, tasks : RuleSets,
     toolsOff : {{<<"strict", "code">>}}, tools : {TRUE}, rules : {ForCode}]
    \cup
    [mode : {"", "strict"}, marked : {TRUE}, language : {FALSE}, modify : {TRUE},
     envFilter : {TRUE}, modesOff : {{}}, tasks : RuleSets, toolsOff : {{}},
     tools : {FALSE}, rules : {{}}]
=============================================================================
