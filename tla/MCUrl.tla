------------------------------- MODULE MCUrl -------------------------------
(***************************************************************************)
(* The URLs of Url for TLC: no port, the default ports, zero, leading      *)
(* zeros, and the last number that is an int and the first that is not.    *)
(***************************************************************************)
EXTENDS Url

MCWord == {"https", "http", "x"}
MCScheme == {"https", "http"}
MCHost == {<<>>, <<"x">>}

MCPort ==
    {<<>>, <<"0">>, <<"8", "0">>, <<"4", "4", "3">>, <<"0", "8", "0">>,
     <<"2", "1", "4", "7", "4", "8", "3", "6", "4", "7">>,
     <<"2", "1", "4", "7", "4", "8", "3", "6", "4", "8">>}

MCPath == {<<>>, <<"/">>, <<"/", "x">>, <<"/", "x", ":", "8">>, <<"/", "/">>}
MCTypo == {":", "/", "x", "8", "0"}

=============================================================================
