----------------------------- MODULE MCVkHosts -----------------------------
(* One address of the baseline and one that only DNS knows. *)
EXTENDS VkHosts

MCBaseline == <<"base">>
MCAnswers == {<<"fresh">>, <<"fresh", "base">>}
=============================================================================
