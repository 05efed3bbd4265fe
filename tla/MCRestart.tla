----------------------------- MODULE MCRestart -----------------------------
(***************************************************************************)
(* Instances of Restart for TLC: the library of MCPlaylists, with the      *)
(* second song on no playlist and in a file that MuLi has not placed.      *)
(***************************************************************************)
EXTENDS Restart, MCPlaylists

CONSTANT scanned   \* a file below MUSIC_SOURCE

\* The names of artists come before the other two in the order of the walk.
InOrder == LET then(k, keys) == Append(keys, k)
               paths == FoldSet(then, <<>>, SongKey) \o <<copied, scanned>>
           IN  [f \in Path |-> CHOOSE i \in DOMAIN paths : paths[i] = f]

\* A title s3.mp3 is read as s3 with the suffix mp3, which is the name s4.
AddsSuffix == [n \in TitleName |-> IF n = s3 THEN s4 ELSE n]

Unplaced == {[TwoLists EXCEPT !.db.songs[Second] = [path |-> scanned, lists |-> <<>>],
                              !.db.entries[<<pl2, s2>>] = NoEntry,
                              !.disk[Second] = NoFile,
                              !.disk[scanned] = Tagged(Second)]}

Placed == {[TwoLists EXCEPT !.db.songs[Second].lists = <<>>, !.db.entries[<<pl2, s2>>] = NoEntry]}

StopRequests ==
    {R("rename", First, <<A, B, s3>>), R("rename", Second, <<A, A, s3>>), R("create", <<>>, <<A, B, s1>>),
     R("rename", <<A, B>>, <<B, B>>), R("remove", First, <<>>)}

StopListRequests ==
    {OnList("mkdir", "CreatePlaylist", NoList, Dotted), OnList("remove", "DeletePlaylist", pl1, NoList),
     OnList("rename", "RenamePlaylist", pl1, pl2),
     [OnList("move", "getPlaylistFile", pl1, NoList) EXCEPT !.old = s1, !.new = s2]}

OneCopy == {Tagged(<<B, B, s4>>)}

\* A playlist whose file is being written when MuLi ends.
MergeOnly == {OnList("rename", "RenamePlaylist", pl1, pl2)}

\* A song that a client moves before MuLi ends.
RenameRequests == {R("rename", Second, <<A, A, s3>>)}
=============================================================================
