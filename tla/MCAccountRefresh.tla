-------------------------- MODULE MCAccountRefresh --------------------------
(* Instances of AccountRefresh for TLC.                                    *)
EXTENDS AccountRefresh, TLC

CONSTANTS c1, c2, ch1, ch2, tag, another

OneCall == {c1}
Calls == {c1, c2}
Tasks == {ch1, ch2}
OneTask == {ch1}
OneTag == {tag}
NoTags == {}

OneExpiry == {AsReceived}
TwoExpiries == {AsReceived, another}

Edits == {"login", "tags", "import", "crash", "fail"}
Replacements == {"login", "tokenOnly", "remove", "crash", "panic", "fail"}
TokenOnly == {"tokenOnly"}

Interchangeable == Permutations(Callers) \cup Permutations(Channels)
=============================================================================
