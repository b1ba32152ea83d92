-------------------------- MODULE MCCertification --------------------------
(* Small certifications: levels of two releases, in any order and          *)
(* repeated, every cap, filters of every kind, and one or two manifests    *)
(* behind prerequisites.                                                   *)
EXTENDS Publication, FiniteSets

MCVersions  == {"3.0", "3.1"}
MCLevels    == {"3.0.0-0", "3.0.0-1", "3.0.1-0", "3.1.0-0"}
MCReleases  == {"3.0.0", "3.0.1", "3.1.0"}
MCReleaseOf == [l \in Levels |-> CASE l = "3.0.1-0" -> "3.0.1"
                                    [] l = "3.1.0-0" -> "3.1.0" [] OTHER -> "3.0.0"]
MCVersionOf == [f \in Filters |-> IF f \in {"3.1", "3.1.0", "3.1.0-0"} THEN "3.1" ELSE "3.0"]

SeqsUpTo(S, n) == UNION {[1..k -> S] : k \in 0..n}
Levels30       == {l \in Levels : VersionOf[l] = "3.0"}
Toml(v, tests, cap) == [version |-> v, tests |-> tests, cap |-> cap]

\* One manifest of up to three tests, with no filter or one.
OneManifest ==
    {[prereqs |-> 0, asked |-> asked, installed |-> <<Toml("3.0", tests, cap)>>] :
        asked \in {<<>>} \cup {<<f>> : f \in {"3.0.0", "3.0.0-1", "3.0.1-0"}},
        tests \in SeqsUpTo(Levels30 \cup {NoLevel}, 3) \ {<<>>},
        cap   \in Levels30 \cup {NoLevel}}

\* Two manifests behind prerequisites, and two filters that may name the same
\* one, one that is not installed or nothing in it; none is installed at all.
First  == {Toml("3.0", tests, NoLevel) :
              tests \in {<<"3.0.0-0", "3.0.1-0">>, <<NoLevel, "3.0.0-0">>}}
Second == {Toml("3.1", <<"3.1.0-0">>, NoLevel), Toml("3.1", <<"3.1.0-0">>, "3.0.0-0")}
TwoManifests ==
    {[prereqs |-> p, asked |-> asked, installed |-> installed] :
        p \in {0, 2},
        asked \in {<<>>} \cup [1..2 -> {"3.0", "3.0.0-0", "3.0.1", "3.1", "3.1.0"}],
        installed \in {<<a, b>> : a \in First, b \in Second} \cup {<<a>> : a \in First}
                      \cup {<<>>}}

MCRuns == OneManifest \cup TwoManifests
=============================================================================
