---------------------------- MODULE MCRequest ----------------------------
(* Model-checking instances of Request. *)
EXTENDS Request

ThreeLetters == {"c", "x", "y"}

(* A command alone, one with a key, one with a key and an empty value, and *)
(* one with a value the buffer has no room for behind another command.     *)
FourCommands == {<< <<"c">> >>,
                 << <<"c">>, <<"x", "y">> >>,
                 << <<"c">>, <<"x">>, <<>> >>,
                 << <<"c">>, <<"x">>, <<"y", "x", "y", "y">> >>}
=============================================================================
