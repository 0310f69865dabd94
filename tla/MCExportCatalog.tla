--------------------------- MODULE MCExportCatalog ---------------------------
(***************************************************************************)
(* Instances of ExportCatalog for TLC.                                     *)
(***************************************************************************)
EXTENDS ExportCatalog

CONSTANTS a, b  \* JA4s

T(id, family, latest, builtin, version) ==
  [id |-> id, family |-> family, latest |-> latest, builtin |-> builtin, version |-> version]
Word(w) == <<w, 0>>

\* Three targets of one family or of two; normalizeTarget gives the latest
\* ones their version.
Ranks == [x \in {Word("p"), Word("q"), Word("r")} |->
            IF x = Word("p") THEN 2 ELSE IF x = Word("q") THEN 1 ELSE 3]
Kinds == {<<TRUE, FALSE, 9999>>, <<FALSE, FALSE, 1>>, <<FALSE, FALSE, 2>>, <<FALSE, TRUE, 2>>}
RankConfigs == {{T(Word("p"), "go", k[1], k[2], k[3]), T(Word("q"), "go", l[1], l[2], l[3]),
                 T(Word("r"), f, m[1], m[2], m[3])} : k, l, m \in Kinds, f \in {"go", "php"}}

\* A latest target, a pinned one and a built-in one, for what comes after the
\* ranking.
PublishConfigs == {{T(Word("p"), "go", TRUE, FALSE, 9999), T(Word("q"), "go", FALSE, FALSE, 1)},
                   {T(Word("p"), "go", TRUE, FALSE, 9999), T(Word("q"), "go", FALSE, FALSE, 1),
                    T(Word("r"), "go", FALSE, TRUE, 1)}}
MCConfigs == RankConfigs \cup PublishConfigs

\* Whole profiles, and profiles without meta.json, without any JA4, without
\* hello, without manifest.
Whole(j, t) == [hello |-> j, meta |-> j, at |-> t, manifest |-> j]
NoMeta == [Whole(a, 1) EXCEPT !.meta = None, !.at = 0]
MCStates == {Whole(a, 1), Whole(b, 1), NoMeta, [NoMeta EXCEPT !.manifest = None],
             [Whole(b, 2) EXCEPT !.hello = None], [Whole(b, 1) EXCEPT !.manifest = None]}

ASSUME WholeStates == ProfilesAreWhole

\* The many sets of targets for the ranking are exported once and undisturbed.
Bounds == targets \in PublishConfigs \/ (exports <= 1 /\ captures = 0 /\ crashes = 0)
=============================================================================
