----------------------------- MODULE MCDispatch -----------------------------
(* A small instance of Dispatch: two entries for the alias "a" and one for  *)
(* "b".  Strings whose characters do not matter are one character long.     *)
EXTENDS Dispatch

CONSTANTS a1, a2, b1, admin, client

MCAliasOf == [e \in Entries |-> IF e = b1 THEN <<"b">> ELSE <<"a">>]

\* A leaf may begin a name with an underscore.
MCItemNames == {<<"t">>, <<"_", "t">>}

MCCallNames ==
  {<<"t">>, <<"a", "_", "_", "t">>, <<"a", "_", "_", "_", "t">>, <<"b", "_", "_", "t">>}
    \cup {<<"federation", "_", "_", n>> :
            n \in {"list_servers", "server_info", "refresh", "search_tools", "t"}}

\* The client may use "a"; its second entry is shadowed by the first one.
MCClients ==
  <<[token |-> client, allowed_servers |-> {<<"a">>}],
    [token |-> client, allowed_servers |-> {Wildcard}]>>
=============================================================================
