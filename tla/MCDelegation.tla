----------------------------- MODULE MCDelegation -----------------------------
(* Instances of Delegation for TLC: the three providers of the demo, its   *)
(* plan, and plans with fewer writes, with more, or in another order.      *)
EXTENDS Delegation, TLC

McProviders == {"gmail", "linear", "slack"}
McAudiences == ("gmail" :> "gmail.api" @@ "linear" :> "linear.api" @@ "slack" :> "slack.api")
McScopes == ("gmail" :> {"mail.read"} @@ "linear" :> {"issues.create"}
             @@ "slack" :> {"chat.write"})

Read  == [provider |-> "gmail", args |-> "support", effect |-> "read-only"]
File  == [provider |-> "linear", args |-> "issue", effect |-> "write-reversible"]
Tell  == [provider |-> "slack", args |-> "message", effect |-> "write-irreversible"]
McPlans == {<<>>, <<Read>>, <<Read, File, Tell>>, <<File, Read>>,
            <<File, Tell, File>>}

(* A broker may mistake one provider for another.                          *)
McMisbinds == {"slack.api"}
===============================================================================
