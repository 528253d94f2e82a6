------------------------------------- MODULE MCEmails -------------------------------------
(***************************************************************************)
(* Emails for TLC: spellings of a few addresses, and some inputs that are  *)
(* refused.                                                                *)
(***************************************************************************)
EXTENDS Emails

locals == {<<"a">>, <<"A">>, <<"U">>}
domains == {<<"a", ".", "a">>, <<"A", ".", "a">>, <<"a", ".", "u">>, <<"a", ".", "U">>}
addresses == {local \o <<"@">> \o domain : local \in locals, domain \in domains}

MCInput ==
    addresses
    \cup {<<"blank">> \o address \o <<"blank">> : address \in {t \in addresses : Head(t) = "A"}}
    \cup {<<>>, <<"blank">>, <<"a">>, <<"a", "@", "a">>, <<"a", "@", "@", "a", ".", "a">>,
          <<"@", "a", ".", "a">>, <<"a", "@", ".", "a">>, <<"a", "@", "a", ".">>,
          <<"a", "blank", "a", "@", "a", ".", "a">>,
          <<"a", "a", "a", "@", "a", ".", "a">>}
===========================================================================================
