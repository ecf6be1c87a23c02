---------------------------- MODULE MCChatPrompt -----------------------------
(* Values for the questions of a chat.                                          *)
EXTENDS ChatPrompt

\* Questions to the model, about what was said before or not, redacted in the
\* log or not, and answers within and beyond the limit.
Saying(name, stored, chars, opener, length, kind) ==
  [name |-> name, stored |-> stored, chars |-> chars, slash |-> opener # "", opener |-> opener,
   greeting |-> kind = "greeting", words |-> length, trigger |-> kind \in {"recall", "both"},
   command |-> kind \in {"greeting", "both"}, question |-> kind = "both"]
MCTexts == {Saying("t1", "t1", 2, "", 3, "recall"), Saying("t2", "t2", 1, "chat", 1, "greeting"),
            Saying("t3", "redacted", 3, "think", 5, "both")}
Said(chars, width, before, stop) == [chars |-> chars, width |-> width, before |-> before, stop |-> stop]
MCAnswers == {Said(2, 1, 1, TRUE), Said(9, 2, -1, FALSE)}
==============================================================================
