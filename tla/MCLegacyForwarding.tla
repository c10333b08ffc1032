------------------------- MODULE MCLegacyForwarding -------------------------
(* The instance of LegacyForwarding for TLC: every path of up to four         *)
(* characters against lists of prefixes that differ in their slashes.         *)
EXTENDS LegacyForwarding

PathsUpTo(n) ==
    { <<"/">> \o s : s \in UNION { [1..k -> {"/", "a", "b"}] : k \in 0..(n - 1) } }
AllPaths == PathsUpTo(4)
SomeLists == { {}, { <<"/", "a">> }, { <<"/", "a", "/">> },
               { <<"/", "a", "/", "b">>, <<"/", "b", "b">> } }
=============================================================================
