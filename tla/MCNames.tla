------------------------------ MODULE MCNames -------------------------------
(***************************************************************************)
(* Titles as the manifests spell them, in miniature                        *)
(***************************************************************************)
EXTENDS ScriptherderNames

Alphabet == {"a", "b", "t"}

\* Plain, with a hyphen (restic-backup-x), next to the same letters without
\* it, with a dot and a blank (check_cert_x.y), and with two underscores: the
\* last sanitises to a name that continues another one's after "__".
SomeTitles == {<<"a">>, <<"a", "-", "b">>, <<"a", "b">>, <<"b", ".", " ", "a">>,
               <<"a", "_", "_", "b">>, <<"b">>}

OneStamp  == {<<"t", "_", "t">>}

=============================================================================
