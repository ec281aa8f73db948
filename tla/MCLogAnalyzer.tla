--------------------------- MODULE MCLogAnalyzer ---------------------------
(* Small instances of LogAnalyzer: mplayer prints whole lines, or begins a *)
(* line and ends it in another message, as it lists the chapters of a DVD. *)
EXTENDS LogAnalyzer

Answer == <<"A", "N", "S", "_", "k", "=", "v", NewLine>>
Separators == <<"M", "P", "X", "_", "k", "=", "v", "=", NewLine>>
NoKey == <<"A", "N", "S", "_", "=", "v", NewLine>>
Chatter == <<"A", "=", "v", NewLine>>
Latin1 == <<"M", "P", "X", "_", "k", "=", Invalid, NewLine>>
MCLines == {Answer, Separators, NoKey, Chatter \o Answer, Latin1}

ChapterInfo == <<"M", "P", "X", "_", "k", "=">>
Chapter == <<"v">>
MCParts == {Answer, ChapterInfo, Chapter, <<NewLine>>}
=============================================================================
