------------------------------ MODULE MCFanout ------------------------------
(* An instance of Fanout for TLC. *)
EXTENDS Fanout

MCTitles == {<<>>, <<"a", "LF", "b">>, <<"NUL", "SP", "a", "NEL">>, <<"LF", "NUL", "SP">>}

Is(s)  == [isString |-> TRUE, text |-> s]
Other  == [isString |-> FALSE, text |-> <<>>]
Two    == <<Is(<<"SP">>), Is(<<"a", "SP">>)>>
MCFields == {[type |-> "[]string", items |-> Two], [type |-> "[]any", items |-> Two],
             [type |-> "[]any", items |-> <<Is(<<"a">>), Other>>], [type |-> "other", items |-> <<>>]}
MCEdits  == {<< <<"b">>, <<"SP">> >>}

Config(m, r, t) == [mailer |-> m, renderer |-> r, templateName |-> t]
MCClients == {Config("nil", "nil", "nil"), Config("host", "nil", "nil"), Config("host", "host", "host")}
=============================================================================
