----------------------------- MODULE MCAgentLoop -----------------------------
EXTENDS AgentLoop

Text == <<>>
MCTools == {"read", "ask"}
MCSuspendable == {"ask"}
MCAnswerCalls == {Text, <<"read", "read">>, <<"ask">>, <<OutputTool, "read", OutputTool>>}
MCHistories == {<<User, Assistant(Text)>>}

=============================================================================
