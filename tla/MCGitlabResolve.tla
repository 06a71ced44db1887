--------------------------- MODULE MCGitlabResolve ---------------------------
(* GitlabResolve for TLC: four lookup paths of a group, in any order.      *)
EXTENDS GitlabResolve, SequencesExt

Group == {<<>>, <<"a">>, <<"b">>, <<"a", "b">>}

AnyOrder == UNION {SetToSeqs(S) : S \in SUBSET Group}

SortedOrder ==
  {s \in AnyOrder : \A k \in 1..(Len(s) - 1) : Len(s[k]) >= Len(s[k + 1])}

TwoProjects == {<<<<>>, <<"a">>>>}

Urls == {<<>>, <<"a">>, <<"b">>, <<"a", "b">>, <<"a", "c">>, <<"c">>, <<"a", "b", "c">>}

Unserved == {<<"b">>}

=============================================================================
