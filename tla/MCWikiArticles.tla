--------------------------- MODULE MCWikiArticles ---------------------------
(* Small instances of WikiArticles.                                        *)
EXTENDS WikiArticles, TLC

CONSTANTS a1, a2, plain, shows, blank, f1, s1

MCRefs == (blank :> {}) @@ (plain :> {}) @@ (shows :> {f1})
MCGrants == {[subject |-> s1, level |-> ReadLevel, include_descendants |-> TRUE],
             [subject |-> s1, level |-> WriteLevel, include_descendants |-> FALSE]}
Symmetry == Permutations(Articles)
=============================================================================
