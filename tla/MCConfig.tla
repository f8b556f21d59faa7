------------------------------- MODULE MCConfig -------------------------------
(***************************************************************************)
(* Three items: a plain string, an item whose converter takes one word,    *)
(* and one whose name begins like that of the first.                       *)
(***************************************************************************)
EXTENDS Config

MCItem == <<[name |-> <<"a">>, plain |-> TRUE, good |-> {},
             dflt |-> <<"b", "b">>],
            [name |-> <<"b">>, plain |-> FALSE, good |-> {<<"a">>, <<"b">>},
             dflt |-> <<"b">>],
            [name |-> <<"a", "b">>, plain |-> TRUE, good |-> {},
             dflt |-> <<>>]>>
===============================================================================
