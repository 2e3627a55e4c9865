----------------------------- MODULE MCShellText -----------------------------
(* One dangerous word, and what an agent writes around it: searches, messages, *)
(* documents, pipes, programs in another language, a .env file.                 *)
EXTENDS ShellText

Word1(quote, after, content) == [quote |-> quote, after |-> after, content |-> content]

MCQuotedWords ==
  {Word1("sq", << >>, << "danger" >>), Word1("dq", << >>, << "danger" >>),
   Word1("dq", << "x" >>, << "danger" >>),
   Word1("sq", << >>, << "$(", "danger", ")" >>), Word1("dq", << >>, << "$(", "danger", ")" >>),
   Word1("dq", << >>, << "danger", ";" >>), Word1("sq", << >>, << "escape", "danger" >>),
   Word1("dq", << >>, << ".env" >>), Word1("sq", << >>, << "<<", "E" >>)}

MCBodies == {<< "danger", "sq" >>, << "$(", "danger", ")" >>, << "escape", "danger" >>}

MCDocuments ==
  {[opener |-> "<<", quote |-> << >>], [opener |-> "<<", quote |-> << "sq" >>], [opener |-> "<<-", quote |-> << >>]}

MCSubstituted == {<< "danger" >>, << "grep", " ", ".env" >>}

MCInner == {[reader |-> v, body |-> << "danger", "sq" >>] : v \in {"cat", "sh"}}
=============================================================================
