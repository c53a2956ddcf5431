------------------------------ MODULE MCScopes ------------------------------
(***************************************************************************)
(* Small instances of Scopes for TLC.                                      *)
(***************************************************************************)
EXTENDS Scopes

\* Two files, a tree, files of a directory, files anywhere, everything.
SomePatterns ==
    {<<"src", "a.rs">>, <<"src", "lib", "a.rs">>, <<"src", "**">>, <<"src", "*">>, <<"src", "*.rs">>,
     <<"**", "a.rs">>, <<"src", "**", "*.rs">>, <<"**">>,
     <<"*", "a.rs">>, <<"*.rs">>, <<"lib", "*.rs">>, <<"*">>}
=============================================================================
