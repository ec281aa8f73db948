-------------------------- MODULE MCEpisodeSearch --------------------------
(* Names in base 3: letters are 3 ("s") and 4 ("e").  Numbers of two digits *)
(* go up to 8, of which 3 is "10"; 26 is the largest Int.                    *)
EXTENDS EpisodeSearch

\* "s01", "s02e", "s10", "s11", "s20": "e" is a title
Series == {<<3, 0, 1>>, <<3, 0, 2, 4>>, <<3, 1, 0>>, <<3, 1, 1>>, <<3, 2, 0>>}
\* "s1e01", ..., "s2e10", and "s02e1", "s02e2", "s10e1"
Seasons == {<<3, a, 4>> \o e : a \in 1..2, e \in {<<0, 1>>, <<0, 2>>, <<1, 0>>}}
           \cup {<<3, 0, 2, 4, 1>>, <<3, 0, 2, 4, 2>>, <<3, 1, 0, 4, 1>>}
\* Numbers without padding, one that is the largest Int, one that is too large.
Loose == {<<1>>, <<2>>, <<1, 0>>, <<2, 0>>, <<2, 2, 2>>, <<1, 2, 2, 1>>}

MCNames == Series \cup Seasons \cup Loose
=============================================================================
