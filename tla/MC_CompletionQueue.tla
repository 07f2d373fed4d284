------------------------- MODULE MC_CompletionQueue -------------------------
EXTENDS CompletionQueue

\* Two streams of one class and a completion of another; the streams share a prompt.
c_Clients == {"first", "second", "whole"}
c_Key == [first |-> "m", second |-> "m", whole |-> "n"]
c_Stream == [first |-> TRUE, second |-> TRUE, whole |-> FALSE]
c_Class == [first |-> "g", second |-> "g", whole |-> "s"]
c_MaxTokens == [first |-> 1, second |-> 1, whole |-> 1]
c_Modes == {[online |-> TRUE, fast |-> FALSE, jobs |-> 2],
            [online |-> FALSE, fast |-> TRUE, jobs |-> 1]}
=============================================================================
