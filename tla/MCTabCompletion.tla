-------------------------- MODULE MCTabCompletion --------------------------
(* TabCompletion and its WordStore on a small instance: two case variants  *)
(* of one word, a word that extends it, one that branches off it, and one  *)
(* that is too short; nothing completes the word that starts at column 4.  *)
EXTENDS TabCompletion

MCWord == { <<"a", "b", "c">>, <<"A", "b", "c">>, <<"a", "b", "c", "d">>,
            <<"A", "b", "d">>, <<"a", "b">> }

MCLower(w) == [i \in DOMAIN w |-> IF w[i] = "A" THEN "a" ELSE w[i]]

MCPrefix == { <<>>, <<"a">>, <<"A">>, <<"a", "b">>, <<"A", "B">>,
              <<"a", "b", "c">>, <<"A", "b", "d">>, <<"d">>, <<"d", "d">> }

MCEdited == { [start |-> 0, word |-> <<"a">>], [start |-> 4, word |-> <<"d">>] }
MCHeights == {24, 5}
=============================================================================
