------------------------------- MODULE MCAccounts -------------------------------
(* Two addresses that spell one access key, and an account without a password. *)
EXTENDS Accounts
CONSTANTS ann, an_n, old

MCAccessKey == [a \in Accounts |-> IF a = old THEN "old" ELSE "ann"]
MCRoleLists == {<<Lead>>, <<Developer>>, <<Reviewer, Developer>>, <<"Auditor">>}
MCGivenAccess == {<<>>, [e \in {"production"} |-> {"agent:run"}]}
=============================================================================
