-------------------------- MODULE MC_VoiceVersions --------------------------
(* Instances of VoiceVersions for TLC. *)
EXTENDS VoiceVersions, TLC

CONSTANTS w1, w2, r1, j1, j2

Interchangeable == Permutations({w1, w2}) \union Permutations({j1, j2})

=============================================================================
