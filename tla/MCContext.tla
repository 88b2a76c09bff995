----------------------------- MODULE MCContext ------------------------------
(***************************************************************************)
(* A skill anybody may load and one only the user may, two tools, a model   *)
(* that answers, names skills or makes two calls.                           *)
(***************************************************************************)
EXTENDS Context

B(kind, names) == [kind |-> kind, names |-> names]
Think == B("ThinkingBlockRecorded", <<>>)
Text(names) == B("AssistantMessageAppended", names)
Call(names) == B("ToolUseRecorded", names)

MCProviders == {{"open"}, {"open", "user"}}
MCCatalogs == {[list |-> <<2, 1>>, skills |-> {"open", "user"}]}
MCOpened == {[inject |-> "none", skills |-> NoSkills, tools |-> CHOOSE c \in MCCatalogs : TRUE],
             [inject |-> "skill", skills |-> {"open", "user"}, tools |-> CHOOSE c \in MCCatalogs : TRUE]}
MCModes == {[kind |-> "Intersect", tools |-> {1}]}
MCAsked == {<<>>, <<"user", "open">>}
MCReplies == {<<Text(<<"open", "user">>)>>, <<Text(<<>>), Think, Call(<<>>), Call(<<"open">>)>>}
MCOrder == <<2>>
=============================================================================
