----------------------------- MODULE MCChatStream -----------------------------
(* An instance of ChatStream for TLC. *)
EXTENDS ChatStream

OneStream == {1}
TwoReaders == {1, 2}
OneJob == {2}
StreamAndJob == {1, 2}
Web == {"web_search"}
OneChunk == <<1>>
TwoCalls == << << {"web_search"}, {"add"} >> >>

\* A new thread, and one whose last run was ended by a tool that raised.
SomeThreads == {<<>>, <<UserMessage, AnswerMessage(FALSE, <<<<1, "add">>>>)>>}
=============================================================================
